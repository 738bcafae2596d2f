--------------------------- MODULE AttemptLedger ---------------------------
(***************************************************************************)
(* What the attempt log promises an instructor who reads it, and a student *)
(* who asks for a hint: a ledger whose rows are only added and filled in.  *)
(*                                                                         *)
(* A row belongs to one attempt.  Its verdict is empty or the tutor's      *)
(* ruling on that attempt, and stays once written.  Its hint is shown only *)
(* after the tutor, ruling on that attempt, has offered one.               *)
(***************************************************************************)

CONSTANTS Slot,     \* places for rows
          Attempt,
          Ruling,   \* [verdict, hint : BOOLEAN]
          None

VARIABLES ruling,   \* the tutor's ruling on each attempt, or None
          rows,     \* the rows: attempt, verdict, and whether its hint was shown
          offered   \* the rows with a hint on offer

Entry(a, v, shown) == [attempt |-> a, verdict |-> v, hint |-> shown]

ledger == <<ruling, rows, offered>>

Init ==
  /\ ruling = [a \in Attempt |-> None]
  /\ rows = [s \in Slot |-> None]
  /\ offered = {}

\* The tutor rules on an attempt, once.
Rule(a) ==
  /\ ruling[a] = None
  /\ \E r \in Ruling : ruling' = [ruling EXCEPT ![a] = r]
  /\ UNCHANGED <<rows, offered>>

\* The verdicts a row of attempt a may show.
Known(a) == {None} \cup (IF ruling[a] = None THEN {} ELSE {ruling[a].verdict})

Offers(a) == ruling[a] # None /\ ruling[a].hint

\* With its row, or later, an attempt may get a hint on offer.
MayOffer(s, a) ==
  \/ UNCHANGED offered
  \/ Offers(a) /\ offered' = offered \cup {s}

Log(s, a) ==
  /\ rows[s] = None
  /\ \E v \in Known(a) :
       rows' = [rows EXCEPT ![s] = Entry(a, v, FALSE)]
  /\ MayOffer(s, a)
  /\ UNCHANGED ruling

\* A row whose verdict is empty may get the tutor's.
Settle(s) ==
  /\ rows[s] # None
  /\ \/ UNCHANGED rows
     \/ /\ rows[s].verdict = None
        /\ \E v \in Known(rows[s].attempt) :
             rows' = [rows EXCEPT ![s] = Entry(@.attempt, v, @.hint)]
  /\ MayOffer(s, rows[s].attempt)
  /\ UNCHANGED ruling

Show(s) ==
  /\ s \in offered
  /\ rows' = [rows EXCEPT ![s] = Entry(@.attempt, @.verdict, TRUE)]
  /\ UNCHANGED <<ruling, offered>>

Next ==
  \/ \E a \in Attempt : Rule(a)
  \/ \E s \in Slot, a \in Attempt : Log(s, a)
  \/ \E s \in Slot : Settle(s) \/ Show(s)

Spec == Init /\ [][Next]_ledger
=============================================================================
