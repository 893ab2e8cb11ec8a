---------------------------- MODULE SuggestionProofs ----------------------------
(***************************************************************************)
(* Proofs about the suggestions of a room: reviewed ones are remembered in *)
(* order, and each suggestion goes through ReviewOnce, whatever messages   *)
(* reach the server.                                                       *)
(***************************************************************************)
EXTENDS SuggestionInvariants, FiniteSetTheorems, TLAPS

\* The map and the order of reviewed suggestions are what the server makes them.
MapTypeOK ==
  /\ suggestions \in [Ids -> [status : Statuses, patches : Seq(Edits)]]
  /\ reviewed \in Seq(Ids)

\* No more suggestions wait for a review than a room takes, so that those reviewed
\* at once are never more than it remembers.
PendingAreLimited == Cardinality(Pending(suggestions)) =< MaxSuggestions

SuggestionInv == MapTypeOK /\ ReviewedAreOrdered /\ PendingAreLimited

-------------------------------------------------------------------------------
LEMMA ConstantsTyped ==
  /\ MaxSuggestions \in Nat \ {0} /\ MaxReviewed \in Nat \ {0} /\ MaxPatches \in Nat \ {0}
  /\ MaxSuggestions =< MaxReviewed
  /\ MaxIds \in Nat /\ MaxEdits \in Nat
BY SuggestionConstants

LEMMA IdsFinite == IsFiniteSet(Ids) /\ Ids \subseteq Nat
BY FS_Interval, ConstantsTyped DEF Ids

\* What is kept of an order is its end.
LEMMA RememberedIsSuffix ==
  ASSUME NEW order \in Seq(Ids)
  PROVE  /\ Remembered(order) \in Seq(Ids)
         /\ Len(Remembered(order)) =< MaxReviewed
         /\ Range(Remembered(order)) \subseteq Range(order)
         /\ IsInjective(order) => IsInjective(Remembered(order))
         /\ \A i \in 1 .. Len(order) :
              i > Len(order) - MaxReviewed => order[i] \in Range(Remembered(order))
<1> DEFINE n == Len(order)
<1>0. n \in Nat /\ MaxReviewed \in Nat \ {0} /\ order \in [1 .. n -> Ids]
  BY ConstantsTyped
<1>1. CASE n =< MaxReviewed
  BY <1>0, <1>1 DEF Remembered, Range
<1>2. CASE n > MaxReviewed
  <2> DEFINE d == n - MaxReviewed
  <2>1. d \in Nat /\ d < n
    BY <1>0, <1>2
  <2>2. Remembered(order) = SubSeq(order, d + 1, n)
    BY <1>2, <1>0 DEF Remembered, Kept
  <2>3. /\ Remembered(order) \in Seq(Ids)
        /\ Len(Remembered(order)) = MaxReviewed
        /\ \A i \in 1 .. MaxReviewed : Remembered(order)[i] = order[i + d]
    BY <2>1, <2>2, <1>0
  <2>4. DOMAIN Remembered(order) = 1 .. MaxReviewed
    BY <2>3
  <2>5. ASSUME NEW x \in Range(Remembered(order))
        PROVE  x \in Range(order)
    <3>1. PICK i \in 1 .. MaxReviewed : x = Remembered(order)[i]
      BY <2>4, <2>5 DEF Range
    <3>2. i + d \in 1 .. n /\ x = order[i + d]
      BY <2>1, <2>3, <3>1, <1>0
    <3> QED BY <3>2, <1>0 DEF Range
  <2>6. IsInjective(order) => IsInjective(Remembered(order))
    BY <2>1, <2>3, <2>4, <1>0 DEF IsInjective
  <2>7. ASSUME NEW i \in 1 .. n, i > n - MaxReviewed
        PROVE  order[i] \in Range(Remembered(order))
    <3>1. i - d \in 1 .. MaxReviewed
      BY <2>1, <2>7, <1>0
    <3>2. Remembered(order)[i - d] = order[i]
      BY <3>1, <2>1, <2>3, <1>0
    <3> QED BY <3>1, <3>2, <2>4 DEF Range
  <2> QED BY <2>3, <2>5, <2>6, <2>7, <1>0
<1> QED BY <1>0, <1>1, <1>2

\* A list of a set names each element once.
LEMMA ListOfSet ==
  ASSUME NEW D, D \subseteq Ids, NEW list \in SetToSeqs(D)
  PROVE  /\ list \in Seq(Ids) /\ Len(list) = Cardinality(D)
         /\ Range(list) = D /\ IsInjective(list)
<1> DEFINE n == Cardinality(D)
<1>1. IsFiniteSet(D) /\ n \in Nat
  BY IdsFinite, FS_Subset, FS_CardinalityType
<1>2. list \in [1 .. n -> D] /\ \A i, j \in 1 .. n : i # j => list[i] # list[j]
  BY DEF SetToSeqs
<1>3. list \in Seq(Ids) /\ Len(list) = n
  BY <1>1, <1>2
<1>4. IsInjective(list)
  BY <1>2 DEF IsInjective
<1>5. Range(list) = D
  <2>1. IsFiniteSet(1 .. n) /\ Cardinality(1 .. n) = n
    BY <1>1, FS_Interval
  <2>2. list \in Injection(1 .. n, D)
    BY <1>2, <1>4 DEF Injection
  <2>3. list \in Surjection(1 .. n, D)
    BY <1>1, <2>1, <2>2, FS_Injection
  <2> QED BY <2>3, <1>2 DEF Surjection, Range
<1> QED BY <1>3, <1>4, <1>5

-------------------------------------------------------------------------------
\* Reviewing

\* What one Review does, whichever order it takes.
Reviews(done, action, list) ==
  /\ reviewed' = Remembered(reviewed \o list)
  /\ suggestions' = AfterReview(suggestions, done, action, reviewed')

\* Those that are reviewed at once are few enough to be remembered all.
LEMMA ReviewRemembers ==
  ASSUME SuggestionInv,
         NEW done, done \subseteq Pending(suggestions), NEW list \in SetToSeqs(done)
  PROVE  /\ Remembered(reviewed \o list) \in Seq(Ids)
         /\ Len(Remembered(reviewed \o list)) =< MaxReviewed
         /\ IsInjective(Remembered(reviewed \o list))
         /\ done \subseteq Range(Remembered(reviewed \o list))
         /\ Range(Remembered(reviewed \o list)) \subseteq Reviewed \cup done
<1> DEFINE order == reviewed \o list
<1>1. done \subseteq Ids /\ IsFiniteSet(Pending(suggestions))
  BY IdsFinite, FS_Subset DEF Pending
<1>2. /\ list \in Seq(Ids) /\ Len(list) = Cardinality(done)
      /\ Range(list) = done /\ IsInjective(list)
  BY <1>1, ListOfSet
<1>3. Len(list) =< MaxReviewed
  <2>1. Cardinality(done) =< Cardinality(Pending(suggestions))
    BY <1>1, FS_Subset
  <2>2. Cardinality(done) \in Nat /\ Cardinality(Pending(suggestions)) \in Nat
    BY <1>1, FS_Subset, FS_CardinalityType
  <2> QED BY <2>1, <2>2, <1>2, ConstantsTyped DEF SuggestionInv, PendingAreLimited
<1>4. /\ reviewed \in Seq(Ids) /\ IsInjective(reviewed) /\ Range(reviewed) = Reviewed
  BY DEF SuggestionInv, MapTypeOK, ReviewedAreOrdered
<1>5. /\ order \in Seq(Ids) /\ Len(order) = Len(reviewed) + Len(list)
      /\ \A i \in 1 .. Len(reviewed) : order[i] = reviewed[i]
      /\ \A i \in 1 .. Len(list) : order[Len(reviewed) + i] = list[i]
  BY <1>2, <1>4
<1>6. Range(reviewed) \cap Range(list) = {}
  BY <1>2, <1>4 DEF Reviewed, Pending
<1>7. ASSUME NEW i \in 1 .. Len(order), i > Len(reviewed)
      PROVE  i - Len(reviewed) \in 1 .. Len(list) /\ order[i] = list[i - Len(reviewed)]
  <2>1. Len(reviewed) \in Nat /\ Len(list) \in Nat
    BY <1>2, <1>4
  <2>2. i - Len(reviewed) \in 1 .. Len(list)
    BY <2>1, <1>5, <1>7
  <2> QED BY <2>1, <2>2, <1>5
<1>8. Range(order) \subseteq Reviewed \cup done
  <2> SUFFICES ASSUME NEW i \in 1 .. Len(order)
               PROVE  order[i] \in Range(reviewed) \cup Range(list)
    BY <1>2, <1>4, <1>5 DEF Range
  <2>1. CASE i > Len(reviewed)
    BY <2>1, <1>7, <1>2 DEF Range
  <2>2. CASE i \in 1 .. Len(reviewed)
    BY <2>2, <1>4, <1>5 DEF Range
  <2> QED BY <2>1, <2>2, <1>4, <1>5
<1>9. IsInjective(order)
  <2> SUFFICES ASSUME NEW i \in 1 .. Len(order), NEW j \in 1 .. Len(order), order[i] = order[j]
               PROVE  i = j
    BY <1>5 DEF IsInjective
  <2>0. /\ Len(reviewed) \in Nat /\ Len(list) \in Nat
        /\ DOMAIN list = 1 .. Len(list) /\ DOMAIN reviewed = 1 .. Len(reviewed)
    BY <1>2, <1>4
  <2>1. CASE i > Len(reviewed) /\ j > Len(reviewed)
    <3>1. /\ i - Len(reviewed) \in 1 .. Len(list) /\ j - Len(reviewed) \in 1 .. Len(list)
          /\ list[i - Len(reviewed)] = list[j - Len(reviewed)]
      BY <2>1, <1>7
    <3>2. i - Len(reviewed) = j - Len(reviewed)
      BY <3>1, <2>0, <1>2 DEF IsInjective
    <3> QED BY <3>2, <2>0, <1>5
  <2>2. CASE i \in 1 .. Len(reviewed) /\ j \in 1 .. Len(reviewed)
    BY <2>0, <2>2, <1>4, <1>5 DEF IsInjective
  <2>3. CASE i \in 1 .. Len(reviewed) /\ j > Len(reviewed)
    <3>1. order[i] \in Range(reviewed)
      BY <2>0, <2>3, <1>5 DEF Range
    <3>2. order[j] \in Range(list)
      BY <2>0, <2>3, <1>7 DEF Range
    <3> QED BY <3>1, <3>2, <1>6
  <2>4. CASE i > Len(reviewed) /\ j \in 1 .. Len(reviewed)
    <3>1. order[j] \in Range(reviewed)
      BY <2>0, <2>4, <1>5 DEF Range
    <3>2. order[i] \in Range(list)
      BY <2>0, <2>4, <1>7 DEF Range
    <3> QED BY <3>1, <3>2, <1>6
  <2> QED BY <2>1, <2>2, <2>3, <2>4, <1>4, <1>5
<1>10. done \subseteq Range(Remembered(order))
  <2> SUFFICES ASSUME NEW i \in 1 .. Len(list)
               PROVE  list[i] \in Range(Remembered(order))
    BY <1>2 DEF Range
  <2>1. /\ Len(reviewed) + i \in 1 .. Len(order)
        /\ Len(reviewed) + i > Len(order) - MaxReviewed
    BY <1>2, <1>3, <1>4, <1>5, ConstantsTyped
  <2> QED BY <2>1, <1>5, RememberedIsSuffix
<1> QED BY <1>5, <1>8, <1>9, <1>10, RememberedIsSuffix

\* The status and the patches of every suggestion after a review.
LEMMA AfterReviewValues ==
  ASSUME SuggestionInv, NEW action,
         NEW done, done \subseteq Pending(suggestions), NEW list \in SetToSeqs(done),
         Reviews(done, action, list)
  PROVE  /\ MapTypeOK'
         /\ \A s \in done : /\ suggestions'[s].status \in {"accepted", "rejected"}
                            /\ suggestions'[s].patches = suggestions[s].patches
                            /\ s \in Range(reviewed')
         /\ \A s \in Ids \ done :
              \/ suggestions'[s] = suggestions[s]
                 /\ (s \in Reviewed => s \in Range(reviewed'))
              \/ s \in Reviewed /\ s \notin Range(reviewed') /\ suggestions'[s] = Missing
<1>1. /\ reviewed' \in Seq(Ids) /\ done \subseteq Range(reviewed')
  BY ReviewRemembers DEF Reviews
<1>2. /\ suggestions \in [Ids -> [status : Statuses, patches : Seq(Edits)]]
      /\ done \subseteq Ids
  BY DEF SuggestionInv, MapTypeOK, Pending
<1>3. Missing \in [status : Statuses, patches : Seq(Edits)]
  BY DEF Missing, Statuses
<1>4. \A s \in Ids : suggestions'[s] =
        IF s \notin Range(reviewed') /\ (suggestions[s].status \in {"accepted", "rejected"} \/ s \in done)
          THEN Missing
        ELSE IF s \in done THEN [suggestions[s] EXCEPT !.status = Verdict(action)]
        ELSE suggestions[s]
  BY DEF Reviews, AfterReview
<1>5. \A s \in done : /\ suggestions'[s] = [suggestions[s] EXCEPT !.status = Verdict(action)]
                       /\ suggestions'[s] \in [status : Statuses, patches : Seq(Edits)]
                       /\ suggestions'[s].status = Verdict(action)
                       /\ suggestions'[s].patches = suggestions[s].patches
                       /\ Verdict(action) \in {"accepted", "rejected"}
  BY <1>1, <1>2, <1>4 DEF Verdict, Statuses
<1>6. \A s \in Ids \ done :
              \/ suggestions'[s] = suggestions[s]
                 /\ (s \in Reviewed => s \in Range(reviewed'))
              \/ s \in Reviewed /\ s \notin Range(reviewed') /\ suggestions'[s] = Missing
  BY <1>4 DEF Reviewed
<1>7. suggestions' \in [Ids -> [status : Statuses, patches : Seq(Edits)]]
  <2>1. \A s \in Ids : suggestions'[s] \in [status : Statuses, patches : Seq(Edits)]
    BY <1>2, <1>3, <1>5, <1>6
  <2>2. suggestions' = [s \in Ids |-> suggestions'[s]]
    BY DEF Reviews, AfterReview
  <2> QED BY <2>1, <2>2
<1> QED BY <1>1, <1>5, <1>6, <1>7 DEF MapTypeOK

LEMMA ReviewKeepsInv ==
  ASSUME SuggestionInv, NEW action,
         NEW done, done \subseteq Pending(suggestions), NEW list \in SetToSeqs(done),
         Reviews(done, action, list)
  PROVE  SuggestionInv'
<1>1. /\ MapTypeOK'
      /\ \A s \in done : /\ suggestions'[s].status \in {"accepted", "rejected"}
                         /\ s \in Range(reviewed')
      /\ \A s \in Ids \ done :
              \/ suggestions'[s] = suggestions[s]
                 /\ (s \in Reviewed => s \in Range(reviewed'))
              \/ s \in Reviewed /\ s \notin Range(reviewed') /\ suggestions'[s] = Missing
  BY AfterReviewValues
<1>2. /\ reviewed' \in Seq(Ids) /\ Len(reviewed') =< MaxReviewed /\ IsInjective(reviewed')
      /\ Range(reviewed') \subseteq Reviewed \cup done
  BY ReviewRemembers DEF Reviews
<1>3. Range(reviewed') = Reviewed'
  <2>1. \A s \in Ids : s \in Reviewed' <=> suggestions'[s].status \in {"accepted", "rejected"}
    BY DEF Reviewed
  <2>2. \A s \in Ids : s \in Reviewed <=> suggestions[s].status \in {"accepted", "rejected"}
    BY DEF Reviewed
  <2>3. Range(reviewed') \subseteq Ids /\ Reviewed' \subseteq Ids /\ done \subseteq Ids
    BY <1>2 DEF Reviewed, Range, Pending
  <2>4. Missing.status \notin {"accepted", "rejected"}
    BY DEF Missing
  <2>5. ASSUME NEW s \in Ids
        PROVE  s \in Range(reviewed') <=> s \in Reviewed'
    <3>1. CASE s \in done
      BY <3>1, <1>1, <2>1
    <3>2. CASE s \notin done
      BY <3>2, <1>1, <1>2, <2>1, <2>2, <2>4
    <3> QED BY <3>1, <3>2
  <2> QED BY <2>3, <2>5
<1>4. PendingAreLimited'
  <2>1. Pending(suggestions') \subseteq Pending(suggestions)
    BY <1>1 DEF Pending, Missing
  <2>2. IsFiniteSet(Pending(suggestions))
    BY IdsFinite, FS_Subset DEF Pending
  <2>3. Cardinality(Pending(suggestions')) =< Cardinality(Pending(suggestions))
    BY <2>1, <2>2, FS_Subset
  <2>4. Cardinality(Pending(suggestions')) \in Nat /\ Cardinality(Pending(suggestions)) \in Nat
    BY <2>1, <2>2, FS_Subset, FS_CardinalityType
  <2> QED BY <2>3, <2>4, ConstantsTyped DEF PendingAreLimited, SuggestionInv
<1> QED BY <1>1, <1>2, <1>3, <1>4 DEF SuggestionInv, ReviewedAreOrdered

-------------------------------------------------------------------------------
\* Submitting

LEMMA CappedIsSuffix ==
  ASSUME NEW p \in Seq(Edits), NEW q \in Seq(Edits)
  PROVE  /\ Capped(p \o q) \in Seq(Edits)
         /\ \E kept \in 0 .. Len(p) :
              /\ kept =< Len(Capped(p \o q))
              /\ SubSeq(Capped(p \o q), 1, kept) = SubSeq(p, Len(p) - kept + 1, Len(p))
              /\ kept < Len(p) => Len(Capped(p \o q)) = MaxPatches
<1> DEFINE r == p \o q
           n == Len(r)
<1>1. /\ r \in Seq(Edits) /\ n \in Nat /\ n = Len(p) + Len(q) /\ Len(p) \in Nat /\ Len(q) \in Nat
      /\ \A i \in 1 .. Len(p) : r[i] = p[i]
  OBVIOUS
<1>2. CASE n =< MaxPatches
  <2>1. Capped(r) = r
    BY <1>1, <1>2, ConstantsTyped DEF Capped
  <2>2. SubSeq(r, 1, Len(p)) = SubSeq(p, Len(p) - Len(p) + 1, Len(p))
    BY <1>1
  <2> QED BY <1>1, <2>1, <2>2
<1>3. CASE n > MaxPatches
  <2> DEFINE d == n - MaxPatches
             c == Capped(r)
  <2>1. d \in 1 .. n /\ MaxPatches \in Nat \ {0}
    BY <1>1, <1>3, ConstantsTyped
  <2>2. c = SubSeq(r, d + 1, n)
    BY <1>1, <1>3, <2>1 DEF Capped
  <2>3. /\ c \in Seq(Edits) /\ Len(c) = MaxPatches
        /\ \A i \in 1 .. MaxPatches : c[i] = r[i + d]
    BY <1>1, <2>1, <2>2
  <2>4. CASE d >= Len(p)
    <3>1. SubSeq(c, 1, 0) = SubSeq(p, Len(p) - 0 + 1, Len(p))
      BY <1>1, <2>3
    <3>2. 0 \in 0 .. Len(p) /\ 0 =< Len(c)
      BY <1>1, <2>3
    <3> QED BY <3>1, <3>2, <2>3
  <2>5. CASE d < Len(p)
    <3> DEFINE k == Len(p) - d
    <3>1. k \in 1 .. Len(p) /\ k =< MaxPatches
      BY <1>1, <2>1, <2>5
    <3>2. \A i \in 1 .. k : i + d \in 1 .. Len(p) /\ i \in 1 .. MaxPatches /\ c[i] = p[i + d]
      BY <1>1, <2>1, <2>3, <3>1
    <3>3. SubSeq(c, 1, k) = [i \in 1 .. k |-> p[i + d]]
      <4>1. SubSeq(c, 1, k) = [i \in 1 .. k |-> c[i]]
        BY <2>3, <3>1
      <4> QED BY <4>1, <3>2
    <3>4. SubSeq(p, d + 1, Len(p)) = [i \in 1 .. k |-> p[i + d]]
      BY <1>1, <2>1, <3>1
    <3>5. Len(p) - k + 1 = d + 1
      BY <1>1, <2>1
    <3>6. /\ k =< Len(c)
          /\ SubSeq(c, 1, k) = SubSeq(p, Len(p) - k + 1, Len(p))
          /\ k < Len(p) => Len(c) = MaxPatches
      BY <3>1, <3>3, <3>4, <3>5, <2>3
    <3>7. k \in 0 .. Len(p)
      BY <3>1, <1>1
    <3> HIDE DEF k
    <3> QED BY <3>6, <3>7, <2>3
  <2>6. d >= Len(p) \/ d < Len(p)
    BY <1>1, <2>1
  <2> HIDE DEF d, c
  <2> QED BY <2>4, <2>5, <2>6
<1>4. n =< MaxPatches \/ n > MaxPatches
  BY <1>1, ConstantsTyped
<1> HIDE DEF n
<1> QED BY <1>2, <1>3, <1>4

\* What one message of a suggestion does to the map.
Submits(s, p) ==
  /\ suggestions[s].status \notin {"accepted", "rejected"}
  /\ Cardinality(Pending(suggestions)) < MaxSuggestions
  /\ suggestions' = [suggestions EXCEPT ![s] = Extended(suggestions[s], p)]
  /\ reviewed' = reviewed

LEMMA SubmitValues ==
  ASSUME MapTypeOK, NEW s \in Ids, NEW p \in Seq(Edits), Submits(s, p)
  PROVE  /\ MapTypeOK'
         /\ suggestions'[s].status = "pending"
         /\ \A t \in Ids \ {s} : suggestions'[t] = suggestions[t]
         /\ suggestions[s].status = "pending" =>
              suggestions'[s].patches = Capped(suggestions[s].patches \o p)
<1>1. suggestions \in [Ids -> [status : Statuses, patches : Seq(Edits)]] /\ reviewed' \in Seq(Ids)
  BY DEF MapTypeOK, Submits
<1>2. suggestions[s].status \in {"missing", "pending"}
  BY <1>1 DEF Submits, Statuses
<1>3. suggestions'[s] = Extended(suggestions[s], p) /\ \A t \in Ids \ {s} : suggestions'[t] = suggestions[t]
  BY <1>1 DEF Submits
<1>4. CASE suggestions[s].status = "missing"
  <2>1. suggestions'[s] = [status |-> "pending", patches |-> p]
    BY <1>3, <1>4 DEF Extended
  <2>2. suggestions'[s] \in [status : Statuses, patches : Seq(Edits)]
    BY <2>1 DEF Statuses
  <2>3. suggestions' \in [Ids -> [status : Statuses, patches : Seq(Edits)]]
    BY <1>1, <1>3, <2>2 DEF Submits
  <2> QED BY <1>1, <1>3, <1>4, <2>1, <2>3 DEF MapTypeOK
<1>5. CASE suggestions[s].status = "pending"
  <2> DEFINE q == Capped(suggestions[s].patches \o p)
  <2>1. suggestions'[s] = [suggestions[s] EXCEPT !.patches = q]
    BY <1>3, <1>5 DEF Extended
  <2>2. q \in Seq(Edits)
    BY <1>1, CappedIsSuffix
  <2> HIDE DEF q
  <2>3. /\ suggestions'[s] \in [status : Statuses, patches : Seq(Edits)]
        /\ suggestions'[s].status = "pending" /\ suggestions'[s].patches = q
    BY <1>1, <1>5, <2>1, <2>2
  <2>4. suggestions' \in [Ids -> [status : Statuses, patches : Seq(Edits)]]
    BY <1>1, <1>3, <2>3 DEF Submits
  <2> QED BY <1>1, <1>3, <2>3, <2>4 DEF MapTypeOK, q
<1> QED BY <1>2, <1>4, <1>5

LEMMA SubmitKeepsInv ==
  ASSUME SuggestionInv, NEW s \in Ids, NEW p \in Seq(Edits), Submits(s, p)
  PROVE  SuggestionInv'
<1>1. /\ MapTypeOK'
      /\ suggestions'[s].status = "pending"
      /\ \A t \in Ids \ {s} : suggestions'[t] = suggestions[t]
  BY SubmitValues DEF SuggestionInv
<1>2. Reviewed' = Reviewed
  BY <1>1 DEF Reviewed, Submits
<1>3. ReviewedAreOrdered'
  BY <1>2 DEF SuggestionInv, ReviewedAreOrdered, Submits
<1>4. PendingAreLimited'
  <2>1. Pending(suggestions') = Pending(suggestions) \cup {s}
    BY <1>1 DEF Pending
  <2>2. IsFiniteSet(Pending(suggestions)) /\ Cardinality(Pending(suggestions)) \in Nat
    BY IdsFinite, FS_Subset, FS_CardinalityType DEF Pending
  <2>3. Cardinality(Pending(suggestions')) =< Cardinality(Pending(suggestions)) + 1
    <3> DEFINE before == Pending(suggestions)
    <3>1. Cardinality(before \cup {s}) \in {Cardinality(before), Cardinality(before) + 1}
      BY <2>2, FS_AddElement
    <3> HIDE DEF before
    <3>2. Cardinality(before \cup {s}) =< Cardinality(before) + 1
      BY <3>1, <2>2 DEF before
    <3> QED BY <3>2, <2>1 DEF before
  <2>4. Cardinality(Pending(suggestions')) \in Nat
    BY <2>1, <2>2, FS_AddElement, FS_CardinalityType
  <2> QED BY <2>2, <2>3, <2>4, ConstantsTyped DEF PendingAreLimited, Submits
<1> QED BY <1>1, <1>3, <1>4 DEF SuggestionInv

-------------------------------------------------------------------------------
\* Steps

\* A step submits to one suggestion, reviews some, or leaves the map alone.
LEMMA StepsOfMap ==
  ASSUME [Next]_vars
  PROVE  \/ \E s \in Ids, p \in Seq(Edits) : Submits(s, p)
         \/ \E done \in SUBSET Pending(suggestions), action \in {"accept", "reject"} :
              \E list \in SetToSeqs(done) : Reviews(done, action, list)
         \/ UNCHANGED <<suggestions, reviewed>>
<1>1. ASSUME NEW c \in Clients, ServerReceives(c)
      PROVE  \/ \E s \in Ids, p \in Seq(Edits) : Submits(s, p)
             \/ \E done \in SUBSET Pending(suggestions), action \in {"accept", "reject"} :
                  \E list \in SetToSeqs(done) : Reviews(done, action, list)
             \/ UNCHANGED <<suggestions, reviewed>>
  <2> DEFINE m == Head(toServer[c])
  <2>1. IsValid(m) /\ (m.type = "joinRoom" => UNCHANGED <<suggestions, reviewed>>)
        /\ (m.type # "joinRoom" => Handle(c, m))
    BY <1>1 DEF ServerReceives
  <2> HIDE DEF m
  <2>2. CASE m.type = "joinRoom"
    BY <2>1, <2>2
  <2>3. CASE Refuse(c, m)
    BY <2>3 DEF Refuse
  <2>4. CASE m.type = "suggestion" /\ HandleSuggestion(m)
    <3>1. m.id \in Ids /\ m.patches \in Seq(Edits)
      BY <2>1, <2>4 DEF IsValid
    <3>2. CASE suggestions[m.id].status \in {"accepted", "rejected"} \/ ~CanSubmit
      BY <2>4, <3>2 DEF HandleSuggestion, Refuse
    <3>3. CASE suggestions[m.id].status \notin {"accepted", "rejected"} /\ CanSubmit
      <4>1. Submits(m.id, m.patches)
        BY <2>4, <3>3 DEF HandleSuggestion, CanSubmit, Submits
      <4> QED BY <3>1, <4>1
    <3> QED BY <3>2, <3>3
  <2>5. ASSUME NEW ids, ids \subseteq Ids, NEW action \in {"accept", "reject"}, NEW answers,
               Review(ids, action, answers)
        PROVE  \E done \in SUBSET Pending(suggestions), a \in {"accept", "reject"} :
                 \E list \in SetToSeqs(done) : Reviews(done, a, list)
    <3> DEFINE done == {s \in ids : Reviewable(suggestions, s, action)}
    <3>1. done \in SUBSET Pending(suggestions)
      BY <2>5 DEF Reviewable, Pending
    <3>2. \E list \in SetToSeqs(done) : Reviews(done, action, list)
      BY <2>5 DEF Review, Reviews
    <3> HIDE DEF done
    <3> QED BY <3>1, <3>2
  <2>6. CASE m.type = "reviewSuggestions" /\ HandleReview(m)
    BY <2>1, <2>5, <2>6 DEF HandleReview, IsValid
  <2>7. CASE m.type \in {"acceptSuggestion", "rejectSuggestion"} /\ HandleDecision(m)
    <3>1. {m.id} \subseteq Ids
      BY <2>1, <2>7 DEF IsValid
    <3>2. CASE m.type = "acceptSuggestion"
      BY <2>5, <2>7, <3>1, <3>2 DEF HandleDecision
    <3>3. CASE m.type = "rejectSuggestion"
      BY <2>5, <2>7, <3>1, <3>3 DEF HandleDecision
    <3> QED BY <2>7, <3>2, <3>3
  <2>8. CASE HandleUnshare(m)
    BY <2>8 DEF HandleUnshare
  <2>9. m.type # "joinRoom" =>
          \/ Refuse(c, m)
          \/ m.type = "suggestion" /\ HandleSuggestion(m)
          \/ m.type = "reviewSuggestions" /\ HandleReview(m)
          \/ m.type \in {"acceptSuggestion", "rejectSuggestion"} /\ HandleDecision(m)
          \/ HandleUnshare(m)
    BY <2>1 DEF Handle, HandleInRoom
  <2> QED BY <2>2, <2>3, <2>4, <2>6, <2>7, <2>8, <2>9
<1>2. CASE Edit \/ SendPending \/ Request
  BY <1>2 DEF Edit, SendPending, Request, serverVars
<1>3. ASSUME NEW c \in Clients, JoinCompletes(c) \/ ClientReceives(c) \/ FlushPending(c)
                                  \/ Reconnect(c) \/ Drop(c)
      PROVE  UNCHANGED <<suggestions, reviewed>>
  BY <1>3 DEF JoinCompletes, ClientReceives, FlushPending, Reconnect, Drop, serverVars
<1>4. CASE UNCHANGED vars
  BY <1>4 DEF vars, serverVars
<1> QED BY <1>1, <1>2, <1>3, <1>4 DEF Next, LinkStep

LEMMA InitInv == Init => SuggestionInv
<1> SUFFICES ASSUME Init PROVE SuggestionInv
  OBVIOUS
<1>1. MapTypeOK
  BY DEF Init, MapTypeOK, Missing, Statuses
<1>2. Reviewed = {} /\ Pending(suggestions) = {}
  BY DEF Init, Missing, Reviewed, Pending
<1>3. Range(reviewed) = {} /\ Len(reviewed) = 0 /\ IsInjective(reviewed)
  BY DEF Init, Range, IsInjective
<1>4. Cardinality({}) = 0
  BY FS_EmptySet
<1> QED BY <1>1, <1>2, <1>3, <1>4, ConstantsTyped
     DEF SuggestionInv, ReviewedAreOrdered, PendingAreLimited

LEMMA StepKeepsInv == SuggestionInv /\ [Next]_vars => SuggestionInv'
<1> SUFFICES ASSUME SuggestionInv, [Next]_vars PROVE SuggestionInv'
  OBVIOUS
<1>1. CASE \E s \in Ids, p \in Seq(Edits) : Submits(s, p)
  BY <1>1, SubmitKeepsInv
<1>2. CASE \E done \in SUBSET Pending(suggestions), action \in {"accept", "reject"} :
             \E list \in SetToSeqs(done) : Reviews(done, action, list)
  BY <1>2, ReviewKeepsInv
<1>3. CASE UNCHANGED <<suggestions, reviewed>>
  BY <1>3 DEF SuggestionInv, MapTypeOK, ReviewedAreOrdered, PendingAreLimited, Reviewed, Pending
<1> QED BY <1>1, <1>2, <1>3, StepsOfMap

\* The order in which reviewed suggestions are forgotten is exact in every state
\* (reviewSuggestion with pruneReviewedSuggestions).
THEOREM ReviewedStayOrdered == Spec => []ReviewedAreOrdered
<1>1. Spec => []SuggestionInv
  BY InitInv, StepKeepsInv, PTL DEF Spec
<1>2. SuggestionInv => ReviewedAreOrdered
  BY DEF SuggestionInv
<1> QED BY <1>1, <1>2, PTL

\* A room takes no more pending suggestions than its limit, whatever is sent to it
\* (handleSuggestion).
THEOREM PendingStayLimited == Spec => []PendingAreLimited
<1>1. Spec => []SuggestionInv
  BY InitInv, StepKeepsInv, PTL DEF Spec
<1>2. SuggestionInv => PendingAreLimited
  BY DEF SuggestionInv
<1> QED BY <1>1, <1>2, PTL

-------------------------------------------------------------------------------
\* Refinement

LEMMA InitRefines == Init => Lifecycle!Init
BY DEF Init, Lifecycle!Init, Missing

\* The abstract step of one suggestion, in terms of the server's map.
Lives(s) ==
  LET was == suggestions[s]
      is  == suggestions'[s]
  IN \/ was.status = "missing" /\ is.status = "pending"
     \/ /\ was.status = "pending" /\ is.status = "pending"
        /\ \E kept \in 0 .. Len(was.patches) :
             /\ kept =< Len(is.patches)
             /\ SubSeq(is.patches, 1, kept)
                  = SubSeq(was.patches, Len(was.patches) - kept + 1, Len(was.patches))
             /\ kept < Len(was.patches) => Len(is.patches) = MaxPatches
     \/ was.status = "pending" /\ is.status \in {"accepted", "rejected"} /\ is.patches = was.patches
     \/ was.status \in {"accepted", "rejected"} /\ is.status = "missing"
     \/ is.status = was.status /\ is.patches = was.patches

LEMMA StepLives ==
  ASSUME SuggestionInv, [Next]_vars, NEW t \in Ids
  PROVE  Lives(t)
<1>0. suggestions \in [Ids -> [status : Statuses, patches : Seq(Edits)]]
  BY DEF SuggestionInv, MapTypeOK
<1>1. ASSUME NEW s \in Ids, NEW p \in Seq(Edits), Submits(s, p)
      PROVE  Lives(t)
  <2>1. /\ suggestions'[s].status = "pending"
        /\ \A u \in Ids \ {s} : suggestions'[u] = suggestions[u]
        /\ suggestions[s].status = "pending" =>
              suggestions'[s].patches = Capped(suggestions[s].patches \o p)
    BY <1>1, SubmitValues DEF SuggestionInv
  <2>2. suggestions[s].status \in {"missing", "pending"}
    BY <1>0, <1>1 DEF Submits, Statuses
  <2>3. CASE t # s
    BY <2>1, <2>3 DEF Lives
  <2>4. CASE t = s /\ suggestions[s].status = "missing"
    BY <2>1, <2>4 DEF Lives
  <2>5. CASE t = s /\ suggestions[s].status = "pending"
    <3>1. suggestions[s].patches \in Seq(Edits)
      BY <1>0
    <3> QED BY <2>1, <2>5, <3>1, CappedIsSuffix DEF Lives
  <2> QED BY <2>2, <2>3, <2>4, <2>5
<1>2. ASSUME NEW done \in SUBSET Pending(suggestions), NEW action \in {"accept", "reject"},
             NEW list \in SetToSeqs(done), Reviews(done, action, list)
      PROVE  Lives(t)
  <2>1. /\ \A s \in done : /\ suggestions'[s].status \in {"accepted", "rejected"}
                           /\ suggestions'[s].patches = suggestions[s].patches
        /\ \A s \in Ids \ done :
              \/ suggestions'[s] = suggestions[s]
              \/ s \in Reviewed /\ suggestions'[s] = Missing
    BY <1>2, AfterReviewValues
  <2>2. CASE t \in done
    BY <2>1, <2>2 DEF Lives, Pending
  <2>3. CASE t \notin done
    <3>1. CASE suggestions'[t] = suggestions[t]
      BY <3>1 DEF Lives
    <3>2. CASE t \in Reviewed /\ suggestions'[t] = Missing
      <4>1. suggestions[t].status \in {"accepted", "rejected"} /\ suggestions'[t].status = "missing"
        BY <3>2 DEF Reviewed, Missing
      <4> QED BY <4>1 DEF Lives
    <3> QED BY <2>1, <2>3, <3>1, <3>2
  <2> QED BY <2>2, <2>3
<1>3. CASE UNCHANGED <<suggestions, reviewed>>
  <2>1. suggestions'[t] = suggestions[t]
    BY <1>3
  <2> QED BY <2>1 DEF Lives
<1>4. CASE \E s \in Ids, p \in Seq(Edits) : Submits(s, p)
  BY <1>1, <1>4
<1>5. CASE \E done \in SUBSET Pending(suggestions), action \in {"accept", "reject"} :
             \E list \in SetToSeqs(done) : Reviews(done, action, list)
  BY <1>2, <1>5
<1> QED BY <1>3, <1>4, <1>5, StepsOfMap

LEMMA StepRefines == SuggestionInv /\ [Next]_vars => [Lifecycle!Next]_(Lifecycle!vars)
<1> SUFFICES ASSUME SuggestionInv, [Next]_vars PROVE Lifecycle!Next
  OBVIOUS
<1>1. \A s \in Ids : Lives(s)
  BY StepLives
<1> QED BY <1>1 DEF Lives, Lifecycle!Next, Lifecycle!Submit, Lifecycle!Extend, Lifecycle!Decide,
          Lifecycle!Forget, Lifecycle!Keep

\* Chunks, retries, decisions sent again and reviews of many at once are steps of
\* ReviewOnce: no suggestion gets two verdicts or changes after its verdict.
THEOREM SuggestionsImplementReviewOnce == Spec => SuggestionsAreReviewedOnce
<1>1. Spec => []SuggestionInv
  BY InitInv, StepKeepsInv, PTL DEF Spec
<1> QED BY <1>1, InitRefines, StepRefines, PTL DEF Spec, SuggestionsAreReviewedOnce, Lifecycle!Spec
=============================================================================
