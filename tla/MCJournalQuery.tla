--------------------------- MODULE MCJournalQuery --------------------------
(* Four examiners, two of whose staff numbers are the same number and one   *)
(* of whose is none, and records on both sides of every end of the windows. *)
EXTENDS JournalQuery, TLC

CONSTANTS e1, e2, e3, e4

MCExaminers == {e1, e2, e3, e4}
MCStaffNumber == e1 :> "7" @@ e2 :> "07" @@ e3 :> "8" @@ e4 :> "x"
MCNumeric == "7" :> 7 @@ "07" :> 7 @@ "8" :> 8 @@ "x" :> NaN
MCLastDay == e1 :> 100 @@ e2 :> 100 @@ e3 :> 0 @@ e4 :> 100

MCListings == {<<>>, <<e1, e3, e4>>, <<e1, e2, e3>>, <<e1, e1, e3>>}

Slot(e, day, activity, booking, vehicle) ==
    [type |-> "slot", examiner |-> e, day |-> day,
     activity |-> activity, booking |-> booking, vehicle |-> vehicle]
Test(e, day) == Slot(e, day, FALSE, "complete", TRUE)
Lasting(type, e, from, to) == [type |-> type, examiner |-> e, from |-> from, to |-> to]
Booking(staff, at) == [type |-> "booking", staff |-> staff, at |-> at]

MCRecords ==
    {Test(e1, day) : day \in {-2, -1, 1, 2, 3}}
    \cup {Test(e3, 1), Test(e3, 2), Test(e4, 1)}
    \cup {Slot(e1, day, TRUE, booking, vehicle) :
             day \in {1, 2}, booking \in {"none", "complete"}, vehicle \in BOOLEAN}
    \cup {Slot(e1, day, activity, "bare", TRUE) : day \in {1, 2}, activity \in BOOLEAN}
    \cup {Lasting("commitment", e1, from, to) :
             <<from, to>> \in {<<-3, -2>>, <<-2, -1>>, <<1, 2>>, <<2, 3>>}}
    \cup {Lasting("deployment", e, -1, 0) : e \in {e1, e3}}
    \cup {Lasting("deployment", e1, from, 2) : from \in {1, 2}}
    \cup {Booking("7", at) : at \in {-3, -2, 2, 3}} \cup {Booking("8", 0)}

MCContents == {{}} \cup {{r} : r \in MCRecords}
=============================================================================
