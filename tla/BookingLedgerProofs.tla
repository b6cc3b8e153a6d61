------------------------ MODULE BookingLedgerProofs ------------------------
(***************************************************************************)
(* The ledger alone keeps the main invariant, so whatever implements it    *)
(* does.                                                                   *)
(***************************************************************************)
EXTENDS BookingLedger, TLAPS

\* No behaviour of the ledger books a room twice: the promise of the exclusion constraint follows
\* from booking whole, and only when free.
THEOREM LedgerNeverDoubleBooks == Spec => []NoDoubleBooking
<1> DEFINE Inv == NoDoubleBooking /\ LedgerTypeOK
<1>1. Init => Inv
  BY DEF Init, LedgerTypeOK, NoDoubleBooking, Holds
<1>2. Inv /\ [Next]_ledger => Inv'
  <2> SUFFICES ASSUME Inv, [Next]_ledger PROVE Inv'  OBVIOUS
  <2>1. ASSUME NEW id \in Ids, Book(id) PROVE Inv'
    <3>1. PICK e \in Entries :
            Free(e) /\ ledger' = [ledger EXCEPT ![id] = [entry |-> e, status |-> "active"]]
      BY <2>1 DEF Book
    <3>2. DOMAIN ledger = Ids /\ LedgerTypeOK'
      BY <3>1 DEF LedgerTypeOK
    <3>3. \A j \in Ids \ {id} : ledger'[j] = ledger[j] /\ (Holds(j)' <=> Holds(j))
      BY <3>1, <3>2 DEF Holds
    <3>4. ledger'[id].entry = e
      BY <3>1, <3>2
    <3>5. NoDoubleBooking'
      BY <3>1, <3>3, <3>4 DEF NoDoubleBooking, Free, Clash
    <3> QED
      BY <3>2, <3>5
  <2>2. ASSUME NEW id \in Ids, Cancel(id) PROVE Inv'
    <3>1. ledger' = [ledger EXCEPT ![id].status = "cancelled"]
      BY <2>2 DEF Cancel
    <3>2. DOMAIN ledger = Ids /\ LedgerTypeOK'
      BY <2>2, <3>1 DEF LedgerTypeOK, Cancel, Holds
    <3>3. \A j \in Ids \ {id} : ledger'[j] = ledger[j] /\ (Holds(j)' <=> Holds(j))
      BY <3>1, <3>2 DEF Holds
    <3>4. NoDoubleBooking'
      <4>1. ledger'[id].entry = ledger[id].entry /\ Holds(id)
        BY <2>2, <3>1, <3>2 DEF Cancel
      <4> QED
        BY <3>3, <4>1 DEF NoDoubleBooking
    <3> QED
      BY <3>2, <3>4
  <2>3. CASE UNCHANGED ledger
    BY <2>3 DEF LedgerTypeOK, NoDoubleBooking, Holds
  <2> QED
    BY <2>1, <2>2, <2>3 DEF Next
<1> QED
  BY <1>1, <1>2, PTL DEF Spec
=============================================================================
