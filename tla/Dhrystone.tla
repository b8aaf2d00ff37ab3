----------------------------- MODULE Dhrystone -----------------------------
(***************************************************************************)
(* The Dhrystone benchmark of software/dhrystone: main of dhry_1.c with    *)
(* the procedures of both files, a step for every group of statements.     *)
(* The procedures are operators on the state s of the whole program.  The  *)
(* two records hold pointers to each other, and the procedures get them    *)
(* through three different names.  The time taken is not modelled.         *)
(***************************************************************************)
EXTENDS Integers, FiniteSets

CONSTANT Number_Of_Runs     \* what __wrap_scanf hands out

ASSUME RunsAssumption == Number_Of_Runs \in Nat \ {0}

VARIABLES
    dhry_at,    \* the statement group main is at
    dhry,       \* the globals, the locals of main and the two records
    report      \* what was printed, and what it "should be"

dhry_vars == <<dhry_at, dhry, report>>

Ident_1 == 0
Ident_2 == 1
Ident_3 == 2
Ident_4 == 3
Ident_5 == 4

Letter == [A |-> 65, B |-> 66, C |-> 67, D |-> 68, H |-> 72, R |-> 82,
           W |-> 87, Y |-> 89, Z |-> 90]

(***************************************************************************)
(* The strings "DHRYSTONE PROGRAM, ..." differ behind the comma only:      *)
(* "1'ST", "2'ND", "3'RD" and "SOME STRING", in this order for strcmp.     *)
(***************************************************************************)
Strings == [first |-> 1, second |-> 2, third |-> 3, some |-> 4]

StringChar(i) == <<Letter.D, Letter.H, Letter.R, Letter.Y>>[i + 1]

(***************************************************************************)
(* An array holds 0 where nothing was written: it lives in .bss.           *)
(***************************************************************************)
ReadAt(a, i)     == IF i \in DOMAIN a THEN a[i] ELSE 0
WriteAt(a, i, v) == [j \in DOMAIN a \cup {i} |-> IF j = i THEN v ELSE a[j]]

(***************************************************************************)
(* What malloc returns is not cleared, and the locals hold anything.       *)
(***************************************************************************)
JunkRecord(n) ==
    [Ptr_Comp |-> "null", Discr |-> n, Enum_Comp |-> n, Int_Comp |-> n,
     Str_Comp |-> "third"]

DhryInit ==
    /\ dhry_at = "setup"
    /\ report = [values |-> <<>>, shouldBe |-> <<>>]
    /\ \E n \in {0, 3} : dhry =
          [Int_Glob |-> 0, Bool_Glob |-> 0, Ch_1_Glob |-> 0, Ch_2_Glob |-> 0,
           Arr_1_Glob |-> [i \in {} |-> 0], Arr_2_Glob |-> [i \in {} |-> 0],
           Ptr_Glob |-> "null", Next_Ptr_Glob |-> "null",
           Rec |-> [p \in {"glob", "next"} |-> JunkRecord(n)],
           Int_1_Loc |-> n, Int_2_Loc |-> n, Int_3_Loc |-> n, Enum_Loc |-> n,
           Str_1_Loc |-> "third", Str_2_Loc |-> "third",
           Run_Index |-> n, Ch_Index |-> n]

(***************************************************************************)
(* The procedures.  One that stores through a reference is the value it    *)
(* stores.                                                                 *)
(***************************************************************************)
Func_3(val) == val = Ident_3

Proc_6(s, val) ==
    CASE val = Ident_1 -> Ident_1
      [] val = Ident_2 -> IF s.Int_Glob > 100 THEN Ident_1 ELSE Ident_4
      [] val = Ident_3 -> Ident_2
      [] val = Ident_5 -> Ident_3
      [] OTHER -> IF Func_3(val) THEN val ELSE Ident_4

Proc_7(a, b) == b + (a + 2)

Func_1(c, d) == IF c # d THEN Ident_1 ELSE Ident_2

AfterFunc_1(s, c, d) == IF c # d THEN s ELSE [s EXCEPT !.Ch_1_Glob = c]

(***************************************************************************)
(* Func_2 goes round its loop until the letters differ; Ch_Loc is 'A'.     *)
(***************************************************************************)
Func_2Leaves == Func_1(StringChar(2), StringChar(3)) = Ident_1

Func_2(s) == Strings[s.Str_1_Loc] > Strings[s.Str_2_Loc]

AfterFunc_2(s) == IF Func_2(s) THEN [s EXCEPT !.Int_Glob = 3 + 7] ELSE s

Proc_4(s) ==
    [s EXCEPT !.Bool_Glob = IF s.Ch_1_Glob = Letter.A THEN 1 ELSE @,
              !.Ch_2_Glob = Letter.B]

Proc_5(s) == [s EXCEPT !.Ch_1_Glob = Letter.A, !.Bool_Glob = 0]

Proc_8(s, a, b) ==
    LET i    == a + 5
        arr1 == WriteAt(WriteAt(WriteAt(s.Arr_1_Glob, i, b), i + 1, b), i + 30, i)
        arr2 == WriteAt(WriteAt(s.Arr_2_Glob, <<i, i>>, i), <<i, i + 1>>, i)
        more == WriteAt(arr2, <<i, i - 1>>, ReadAt(arr2, <<i, i - 1>>) + 1)
    IN  [s EXCEPT !.Arr_1_Glob = arr1,
                  !.Arr_2_Glob = WriteAt(more, <<i + 20, i>>, ReadAt(arr1, i)),
                  !.Int_Glob = 5]

(***************************************************************************)
(* Proc_3 (&n->Ptr_Comp) on the records h.                                 *)
(***************************************************************************)
Proc_3(s, h, n) ==
    LET h1 == IF s.Ptr_Glob # "null"
              THEN [h EXCEPT ![n].Ptr_Comp = h[s.Ptr_Glob].Ptr_Comp] ELSE h
    IN  [h1 EXCEPT ![s.Ptr_Glob].Int_Comp = Proc_7(10, s.Int_Glob)]

(***************************************************************************)
(* Proc_1 (p): n is the record p points to, before the assignment.         *)
(***************************************************************************)
\* Mistake: structassign forgotten.
Proc_1StartUnassigned(s, p, n) ==
    LET h2 == [s.Rec EXCEPT ![p].Int_Comp = 5]
        h3 == [h2 EXCEPT ![n].Int_Comp = h2[p].Int_Comp]
    IN  Proc_3(s, [h3 EXCEPT ![n].Ptr_Comp = h3[p].Ptr_Comp], n)

Proc_1Start(s, p, n) ==
    LET h1 == [s.Rec EXCEPT ![s.Rec[p].Ptr_Comp] = s.Rec[s.Ptr_Glob]]
        h2 == [h1 EXCEPT ![p].Int_Comp = 5]
        h3 == [h2 EXCEPT ![n].Int_Comp = h2[p].Int_Comp]
    IN  Proc_3(s, [h3 EXCEPT ![n].Ptr_Comp = h3[p].Ptr_Comp], n)

Proc_1(s, p) ==
    LET n  == s.Rec[p].Ptr_Comp
        h  == Proc_1Start(s, p, n)
        h1 == [h EXCEPT ![n].Int_Comp = 6]
        h2 == [h1 EXCEPT ![n].Enum_Comp = Proc_6(s, h1[p].Enum_Comp)]
        h3 == [h2 EXCEPT ![n].Ptr_Comp = h2[s.Ptr_Glob].Ptr_Comp]
    IN  [s EXCEPT !.Rec =
            IF h[n].Discr = Ident_1
            THEN [h3 EXCEPT ![n].Int_Comp = Proc_7(h3[n].Int_Comp, 10)]
            ELSE [h EXCEPT ![p] = h[h[p].Ptr_Comp]]]

(***************************************************************************)
(* main                                                                    *)
(***************************************************************************)
Continue(from, to, s) == dhry_at = from /\ dhry_at' = to /\ dhry' = s /\ UNCHANGED report

SetUp ==
    Continue("setup", "runs",
        [dhry EXCEPT
            !.Next_Ptr_Glob = "next", !.Ptr_Glob = "glob",
            !.Rec["glob"] = [Ptr_Comp |-> "next", Discr |-> Ident_1,
                Enum_Comp |-> Ident_3, Int_Comp |-> 40, Str_Comp |-> "some"],
            !.Str_1_Loc = "first",
            !.Arr_2_Glob = WriteAt(@, <<8, 7>>, 10),
            !.Run_Index = 1])

NextRun ==
    /\ dhry.Run_Index <= Number_Of_Runs
    /\ Continue("runs", "strings",
           [Proc_4(Proc_5(dhry)) EXCEPT !.Int_1_Loc = 2, !.Int_2_Loc = 3,
               !.Str_2_Loc = "second", !.Enum_Loc = Ident_2])

CompareStrings ==
    /\ Func_2Leaves
    /\ LET s == AfterFunc_2(AfterFunc_1(dhry, StringChar(2), StringChar(3)))
       IN  Continue("strings", "while",
               [s EXCEPT !.Bool_Glob = IF Func_2(dhry) THEN 0 ELSE 1])

WhileBody ==
    /\ dhry.Int_1_Loc < dhry.Int_2_Loc
    /\ Continue("while", "while",
           [dhry EXCEPT !.Int_3_Loc = Proc_7(dhry.Int_1_Loc, dhry.Int_2_Loc),
                        !.Int_1_Loc = @ + 1])

FillArrays ==
    /\ dhry.Int_1_Loc >= dhry.Int_2_Loc
    /\ Continue("while", "records", Proc_8(dhry, dhry.Int_1_Loc, dhry.Int_3_Loc))

ChainRecords ==
    Continue("records", "letters",
        [Proc_1(dhry, dhry.Ptr_Glob) EXCEPT !.Ch_Index = Letter.A])

NextLetter ==
    /\ dhry.Ch_Index <= dhry.Ch_2_Glob
    /\ LET s     == AfterFunc_1(dhry, dhry.Ch_Index, Letter.C)
           equal == dhry.Enum_Loc = Func_1(dhry.Ch_Index, Letter.C)
       IN  Continue("letters", "letters",
               [s EXCEPT
                   !.Enum_Loc = IF equal THEN Proc_6(s, Ident_1) ELSE @,
                   !.Str_2_Loc = IF equal THEN "third" ELSE @,
                   !.Int_2_Loc = IF equal THEN s.Run_Index ELSE @,
                   !.Int_Glob = IF equal THEN s.Run_Index ELSE @,
                   !.Ch_Index = @ + 1])

Arithmetic ==
    /\ dhry.Ch_Index > dhry.Ch_2_Glob
    /\ LET product  == dhry.Int_2_Loc * dhry.Int_1_Loc
           quotient == product \div dhry.Int_3_Loc
       IN  Continue("letters", "proc_2",
               [dhry EXCEPT !.Int_1_Loc = quotient,
                            !.Int_2_Loc = 7 * (product - dhry.Int_3_Loc) - quotient])

(***************************************************************************)
(* Proc_2 (&Int_1_Loc): its Enum_Loc is read uninitialised unless          *)
(* Ch_1_Glob is 'A', and the loop may or may not end.                      *)
(***************************************************************************)
Proc_2 ==
    /\ dhry_at = "proc_2"
    /\ dhry_at' \in (IF dhry.Ch_1_Glob = Letter.A THEN {"runs"} ELSE {"runs", "proc_2"})
    /\ dhry' = [dhry EXCEPT
          !.Int_1_Loc = IF dhry.Ch_1_Glob = Letter.A
                        THEN (@ + 10 - 1) - dhry.Int_Glob ELSE @,
          !.Run_Index = IF dhry_at' = "runs" THEN @ + 1 ELSE @]
    /\ UNCHANGED report

(***************************************************************************)
(* The report.  The two Ptr_Comp are "implementation-dependent", but the   *)
(* same.                                                                   *)
(***************************************************************************)
Shown(s, p) ==
    [Ptr_Comp |-> s.Rec[p].Ptr_Comp, Discr |-> s.Rec[p].Discr,
     Enum_Comp |-> s.Rec[p].Enum_Comp, Int_Comp |-> s.Rec[p].Int_Comp,
     Str_Comp |-> s.Rec[p].Str_Comp]

PrintValues ==
    /\ dhry_at = "runs" /\ dhry.Run_Index > Number_Of_Runs
    /\ dhry_at' = "done"
    /\ LET comp == dhry.Rec[dhry.Ptr_Glob].Ptr_Comp
       IN  report' =
        [values |->
            <<dhry.Int_Glob, dhry.Bool_Glob, dhry.Ch_1_Glob, dhry.Ch_2_Glob,
              ReadAt(dhry.Arr_1_Glob, 8), ReadAt(dhry.Arr_2_Glob, <<8, 7>>),
              Shown(dhry, dhry.Ptr_Glob), Shown(dhry, dhry.Next_Ptr_Glob),
              dhry.Int_1_Loc, dhry.Int_2_Loc, dhry.Int_3_Loc, dhry.Enum_Loc,
              dhry.Str_1_Loc, dhry.Str_2_Loc>>,
         shouldBe |->
            <<5, 1, Letter.A, Letter.B, 7, Number_Of_Runs + 10,
              [Ptr_Comp |-> comp, Discr |-> 0, Enum_Comp |-> 2,
               Int_Comp |-> 17, Str_Comp |-> "some"],
              [Ptr_Comp |-> comp, Discr |-> 0, Enum_Comp |-> 1,
               Int_Comp |-> 18, Str_Comp |-> "some"],
              5, 13, 7, 1, "first", "second">>]
    /\ UNCHANGED dhry

Exited == dhry_at = "done" /\ UNCHANGED dhry_vars

DhryNext ==
    \/ SetUp \/ NextRun \/ CompareStrings \/ WhileBody \/ FillArrays
    \/ ChainRecords \/ NextLetter \/ Arithmetic \/ Proc_2
    \/ PrintValues \/ Exited

(***************************************************************************)
(* Every run goes as the comments in main say, and the report prints what  *)
(* it says the values should be, however many runs were made and whatever  *)
(* the records and the locals held: the runs leave nothing behind that     *)
(* changes the next one.                                                   *)
(***************************************************************************)
IntLocals(i, j, k) ==
    dhry.Int_1_Loc = i /\ dhry.Int_2_Loc = j /\ dhry.Int_3_Loc = k

RunsAsCommented ==
    /\ dhry_at = "strings" =>
          dhry.Ch_1_Glob = Letter.A /\ dhry.Ch_2_Glob = Letter.B /\ dhry.Bool_Glob = 1
    /\ dhry_at = "while" =>
          dhry.Bool_Glob = 1 /\ (dhry.Int_1_Loc = 3 => dhry.Int_3_Loc = 7)
    /\ dhry_at = "records" => IntLocals(3, 3, 7) /\ dhry.Int_Glob = 5
    /\ dhry_at = "letters" =>
          /\ IntLocals(3, 3, 7)
          /\ LET next == dhry.Rec[dhry.Ptr_Glob].Ptr_Comp
             IN  dhry.Rec[next].Ptr_Comp = next
    /\ dhry_at = "proc_2" => IntLocals(1, 13, 7)
    /\ dhry_at = "runs" /\ dhry.Run_Index > 1 => dhry.Int_1_Loc = 5
    /\ dhry_at = "done" => report.values = report.shouldBe
=============================================================================
