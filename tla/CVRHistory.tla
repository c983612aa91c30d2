------------------------------ MODULE CVRHistory ------------------------------
(***************************************************************************)
(* What the store of a client view record promises to those who use it:    *)
(* the record goes from version to version, each made from the one before  *)
(* by a single update, whoever makes it.  An update is a number; it may    *)
(* change the configuration (clients and queries) and any of the rows.     *)
(***************************************************************************)
EXTENDS Integers

CONSTANTS Rows, MaxUpdates

VARIABLES version, config, rows
historyVars == <<version, config, rows>>

Init == version = 0 /\ config = {} /\ rows = [r \in Rows |-> 0]

Commit(u) ==
  /\ version' = version + 1
  /\ config' \in {config, config \cup {u}}
  /\ \E changed \in SUBSET Rows :
       rows' = [r \in Rows |-> IF r \in changed THEN u ELSE rows[r]]

\* Update u has not been part of any version yet.
Fresh(u) == u \notin config /\ \A r \in Rows : rows[r] # u

Next == \E u \in 1 .. MaxUpdates : Fresh(u) /\ Commit(u)

Spec == Init /\ [][Next]_historyVars
=============================================================================
