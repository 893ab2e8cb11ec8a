--------------------------- MODULE RecoveryInvariants ---------------------------
(***************************************************************************)
(* What a restart of the server keeps right, and what it is taken to keep. *)
(***************************************************************************)
EXTENDS Recovery

\* While the server runs, every row belongs to a room it has: a save writes none
\* that was closed meanwhile, and a restart loads them all.
RowsHaveRooms == up => \A r \in Rooms : row[r] # NoRoom => Open(r)

\* The rooms counted for an address, which limit it, are those it owns, also after
\* a restart.
CountsMatchRooms == \A i \in Ips : up => roomCountByIp[i] = Cardinality(RoomsOf(rooms, i))

\* Rooms come and go, are kept and come back as DurableRooms promises: a stop by a
\* signal or by stopCodeRoomsServer loses nothing, a crash nothing that was saved.
Durable == INSTANCE DurableRooms WITH
  running <- up, current <- IF up THEN rooms ELSE row, kept <- row
RoomsAreDurable == Durable!Spec

\* No step of a running server charges less than the documents grow, or releases
\* more than they held: what the total is short of them, it has from a restart.
ChargesKeepUp ==
  [][up /\ up' => totalDocBytes' - AllHeld' >= totalDocBytes - AllHeld]_vars
===============================================================================
