----------------------------- MODULE PriceBook -----------------------------
(***************************************************************************)
(* What the table of daily unit prices promises its readers when only the  *)
(* schedulers write it: a book with one page per calendar day.  A page is   *)
(* written once and never again; pages are written in calendar order,      *)
(* none is left out between two written ones, and none is written before   *)
(* its day has come.                                                       *)
(***************************************************************************)
EXTENDS Naturals

CONSTANTS
    Datacenters,    \* datacenters a page may hold a price for
    MaxDay,         \* bound: the last calendar day
    MaxVersion      \* bound: prices are 1..MaxVersion, 0 stands for no price

VARIABLES
    today,          \* the calendar day
    book            \* book[d]: the page of day d

vars == <<today, book>>

Days    == 0..MaxDay
Page    == [Datacenters -> 0..MaxVersion]
Blank   == [dc \in Datacenters |-> 0]
Written == {d \in Days : book[d] # Blank}

Init == /\ today = 0
        /\ book = [d \in Days |-> Blank]

NewDay == /\ today < MaxDay
          /\ today' = today + 1
          /\ UNCHANGED book

\* The next page of a book that has pages, or any page of an empty one.
WritePage(d, page) ==
    /\ d <= today
    /\ \A e \in Written : e < d
    /\ Written # {} => d - 1 \in Written
    /\ book' = [book EXCEPT ![d] = page]
    /\ UNCHANGED today

Next == \/ NewDay
        \/ \E d \in Days, page \in Page \ {Blank} : WritePage(d, page)

Spec == Init /\ [][Next]_vars
=============================================================================
