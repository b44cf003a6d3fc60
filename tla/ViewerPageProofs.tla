-------------------------- MODULE ViewerPageProofs --------------------------
(***************************************************************************)
(* The page of the viewer shows each line once and in order, for any       *)
(* number of tasks, any transcripts and any size of the cache.             *)
(*                                                                         *)
(* The invariant says what the request under way may still do: as long as  *)
(* the log was not begun anew beside it, a request for the selected task   *)
(* goes on exactly where the page ends, in the page's mode (Continues).    *)
(***************************************************************************)
EXTENDS ViewerPage, SequenceTheorems, TLAPS

\* The lines of a task up to n, as the page shows them.
Prefix(t, mode, n) == [i \in 1..n |-> [of |-> t, mode |-> mode, line |-> i]]

\* What a request is.
Flights ==
  [at : {"asked", "answered"}, id : Tasks, mode : BOOLEAN, since : Nat, total : Nat]

Typed ==
  /\ TypeOK
  /\ crossed \in BOOLEAN /\ shrunk \in BOOLEAN
  /\ flight \in Flights \cup {NoFlight}

\* A request for what the page shows goes on where the page ends.
Continues ==
  flight # NoFlight /\ flight.id = selected /\ ~crossed /\ ~shrunk =>
    /\ flight.mode = raw
    /\ flight.since = cursor
    /\ flight.at = "answered" => flight.since <= flight.total

Inv == Typed /\ Continues /\ PageIsPrefix

-----------------------------------------------------------------------------

\* There is a request, or there is none.
LEMMA FlightIsOne ==
  ASSUME NEW f \in Flights
  PROVE  f # NoFlight /\ f.at # "none"
BY DEF Flights, NoFlight

\* What an answer adds continues a prefix.
LEMMA PrefixGrows ==
  ASSUME NEW t, NEW mode, NEW a \in Nat, NEW b \in Nat, a <= b
  PROVE  Prefix(t, mode, a)
           \o [i \in 1..(b - a) |-> [of |-> t, mode |-> mode, line |-> a + i]]
         = Prefix(t, mode, b)
<1> DEFINE new == [i \in 1..(b - a) |-> [of |-> t, mode |-> mode, line |-> a + i]]
<1>1. b - a \in Nat
  OBVIOUS
<1> DEFINE Shown == {[of |-> t, mode |-> mode, line |-> i] : i \in Nat}
           all   == Prefix(t, mode, a) \o new
<1>2. Prefix(t, mode, a) \in Seq(Shown) /\ Len(Prefix(t, mode, a)) = a
  BY DEF Prefix
<1>3. new \in Seq(Shown) /\ Len(new) = b - a
  BY <1>1
<1>4. /\ all \in Seq(Shown)
      /\ Len(all) = b
      /\ \A i \in 1..b : all[i] = IF i <= a THEN Prefix(t, mode, a)[i] ELSE new[i - a]
  <2> HIDE DEF new, Shown
  <2>1. a + (b - a) = b
    OBVIOUS
  <2>2. /\ all \in Seq(Shown)
        /\ Len(all) = a + (b - a)
        /\ \A i \in 1..(a + (b - a)) :
             all[i] = IF i <= a THEN Prefix(t, mode, a)[i] ELSE new[i - a]
    <3> DEFINE old == Prefix(t, mode, a)
    <3>1. old \in Seq(Shown) /\ new \in Seq(Shown) /\ Len(old) = a /\ Len(new) = b - a
      BY <1>2, <1>3
    <3> HIDE DEF old
    <3>2. /\ old \o new \in Seq(Shown)
          /\ Len(old \o new) = Len(old) + Len(new)
          /\ \A i \in 1..(Len(old) + Len(new)) :
               (old \o new)[i] = IF i <= Len(old) THEN old[i] ELSE new[i - Len(old)]
      BY <3>1, ConcatProperties, Zenon
    <3> QED BY <3>1, <3>2 DEF old
  <2> HIDE DEF all
  <2> QED BY <2>1, <2>2
<1>5. ASSUME NEW i \in 1..b
      PROVE  all[i] = [of |-> t, mode |-> mode, line |-> i]
  <2>1. CASE i <= a
    <3>1. Prefix(t, mode, a)[i] = [of |-> t, mode |-> mode, line |-> i]
      BY <2>1 DEF Prefix
    <3> HIDE DEF all, new
    <3> QED BY <1>4, <2>1, <3>1
  <2>2. CASE ~(i <= a)
    <3>1. new[i - a] = [of |-> t, mode |-> mode, line |-> i]
      BY <2>2
    <3> HIDE DEF all, new
    <3> QED BY <1>4, <2>2, <3>1
  <2> QED BY <2>1, <2>2
<1>6. DOMAIN all = 1..b /\ all = [i \in DOMAIN all |-> all[i]]
  <2> HIDE DEF all
  <2> QED BY <1>4
<1> HIDE DEF all
<1>7. all = Prefix(t, mode, b)
  BY <1>5, <1>6 DEF Prefix
<1> QED BY <1>7 DEF all

\* Decoding reads a number of lines.
LEMMA DecodedIsNat ==
  ASSUME Typed, NEW t \in Tasks
  PROVE  Decoded(t) \in Nat
BY ViewerAssumption DEF Typed, TypeOK, Decoded

\* The initial states satisfy the invariant.
LEMMA InitInv == Init => Inv
<1> SUFFICES ASSUME Init PROVE Inv
  OBVIOUS
<1>1. Typed
  BY ViewerAssumption DEF Init, Typed, TypeOK, NoRecord
<1>2. Continues /\ PageIsPrefix
  BY DEF Init, Continues, PageIsPrefix
<1> QED BY <1>1, <1>2 DEF Inv

\* The files, and the requests of other pages, do not reach the page.
LEMMA OutsideInv ==
  ASSUME Inv,
         \/ \E t \in Tasks : Write(t) \/ Persist(t) \/ Settle(t) \/ Prune(t)
         \/ \E t \in Tasks : OtherPage(t)
  PROVE  Inv'
<1> USE DEF Inv, disk, source, page, ghosts
<1>1. CASE \E t \in Tasks : Write(t) \/ Persist(t) \/ Settle(t) \/ Prune(t)
  <2>1. PICK t \in Tasks : Write(t) \/ Persist(t) \/ Settle(t) \/ Prune(t)
    BY <1>1
  <2>2. UNCHANGED <<source, page, flight, round, ghosts>>
    BY <2>1 DEF Write, Persist, Settle, Prune
  <2>3. file' \in [Tasks -> Nat]
    BY <2>1 DEF Write, Persist, Settle, Prune, Typed, TypeOK
  <2>4. live' \in [Tasks -> BOOLEAN]
    BY <2>1 DEF Write, Persist, Settle, Prune, Typed, TypeOK
  <2>5. record' \in [Tasks -> [status : {"none", "running", "ended"}, total : Nat]]
    BY <2>1 DEF Write, Persist, Settle, Prune, Typed, TypeOK, NoRecord
  <2>6. Typed'
    BY <2>2, <2>3, <2>4, <2>5 DEF Typed, TypeOK
  <2> QED BY <2>2, <2>6 DEF Continues, PageIsPrefix
<1>2. CASE \E t \in Tasks : OtherPage(t)
  <2>1. PICK t \in Tasks : OtherPage(t)
    BY <1>2
  <2>2. decoded' \in [Tasks -> Nat]
    BY <2>1, DecodedIsNat DEF OtherPage, Lines, Typed, TypeOK
  <2> QED BY <2>1, <2>2 DEF OtherPage, Typed, TypeOK, Continues, PageIsPrefix
<1> QED BY <1>1, <1>2

\* Answering a request keeps the invariant.
LEMMA HandleLogInv ==
  ASSUME Inv, HandleLog
  PROVE  Inv'
<1> USE DEF Inv
<1>1. flight \in Flights
  BY DEF HandleLog, Typed, TypeOK, NoFlight
<1> DEFINE total == Decoded(flight.id)
           since == IF flight.since > total THEN total ELSE flight.since
<1>2. total \in Nat
  BY <1>1, DecodedIsNat DEF Flights
<1>3. decoded' = [decoded EXCEPT ![flight.id] = total]
  BY DEF HandleLog, Lines
<1>4. /\ flight' = [flight EXCEPT !.at = "answered", !.since = since, !.total = total]
      /\ shrunk' = (shrunk \/ (flight.id = selected /\ total < flight.since))
      /\ UNCHANGED <<disk, page, crossed>>
  BY DEF HandleLog
<1> HIDE DEF total
<1>5. since \in Nat /\ since <= total
  BY <1>1, <1>2 DEF Flights
<1> HIDE DEF since
<1>6. flight' \in Flights /\ flight'.id = flight.id /\ flight'.mode = flight.mode
      /\ flight'.since = since /\ flight'.total = total
  BY <1>1, <1>2, <1>4, <1>5 DEF Flights
<1>7. shrunk' \in BOOLEAN
  BY <1>4, Zenon
<1>8. Typed'
  <2>1. decoded' \in [Tasks -> Nat]
    BY <1>1, <1>2, <1>3 DEF Typed, TypeOK, Flights
  <2>2. UNCHANGED <<cursor, selected, raw, crossed, file>>
    BY <1>4 DEF page, disk
  <2>3. crossed' \in BOOLEAN /\ TypeOK'
    BY <1>4, <2>1, <2>2 DEF HandleLog, Typed, TypeOK, page, disk
  <2>4. flight' \in Flights \cup {NoFlight}
    BY <1>6
  <2> QED BY <1>7, <2>3, <2>4 DEF Typed
<1>9. Continues'
  <2>1. SUFFICES ASSUME flight.id = selected, ~crossed, ~shrunk, ~(total < flight.since)
                 PROVE  flight'.mode = raw /\ flight'.since = cursor
                        /\ flight'.since <= flight'.total
    <3>1. UNCHANGED <<selected, raw, cursor, crossed>>
      BY <1>4 DEF page
    <3>2. flight.id = selected /\ ~shrunk' => ~shrunk /\ ~(total < flight.since)
      BY <1>4, Zenon
    <3>3. flight'.id = flight.id
      BY <1>6
    <3> QED BY <2>1, <3>1, <3>2, <3>3, Zenon DEF Continues
  <2>2. flight.mode = raw /\ flight.since = cursor
    BY <1>1, <2>1, FlightIsOne DEF Continues
  <2>3. since = flight.since
    BY <1>1, <1>2, <2>1 DEF since, Flights
  <2> QED BY <1>5, <1>6, <2>2, <2>3
<1>10. PageIsPrefix'
  BY <1>4 DEF PageIsPrefix, page
<1> QED BY <1>8, <1>9, <1>10

\* What the user clicks begins the log anew.
LEMMA ReloadInv ==
  ASSUME Inv, NEW id \in Tasks, NEW mode \in BOOLEAN, ReloadLog(id, mode),
         tasks' \in [Tasks -> [status : {"none", "running", "ended"}, total : Nat]],
         round' \subseteq {"arrival", "list", "log"},
         UNCHANGED <<disk, source>>
  PROVE  Inv'
<1> USE DEF Inv
<1>1. id # Nobody
  BY ViewerAssumption
<1>2. Typed'
  <2>1. flight' \in Flights \cup {NoFlight}
    BY <1>1 DEF ReloadLog, Request, Typed, TypeOK, Flights
  <2>2. crossed' \in BOOLEAN
    BY Zenon DEF ReloadLog
  <2> QED BY <2>1, <2>2 DEF ReloadLog, Typed, TypeOK, disk, source
<1>3. Continues'
  BY <1>1 DEF ReloadLog, Request, Continues
<1>4. PageIsPrefix'
  BY DEF ReloadLog, PageIsPrefix
<1> QED BY <1>2, <1>3, <1>4

\* A round of the page asks for what follows what it has.
LEMMA LoopInv ==
  ASSUME Inv, Loop
  PROVE  Inv'
<1> USE DEF Inv
<1>1. CASE flight' = flight
  BY <1>1 DEF Loop, Typed, TypeOK, Continues, PageIsPrefix, page, disk, source, ghosts
<1>2. CASE flight' # flight
  <2>1. selected \in Tasks
        /\ flight' = [at |-> "asked", id |-> selected, mode |-> raw, since |-> cursor,
                      total |-> 0]
    BY <1>2 DEF Loop, Request, Typed, TypeOK
  <2>2. flight' \in Flights
    BY <2>1 DEF Typed, TypeOK, Flights
  <2>3. Typed'
    BY <2>2 DEF Loop, Typed, TypeOK, page, disk, source, ghosts
  <2>4. Continues' /\ PageIsPrefix'
    BY <2>1 DEF Loop, Continues, PageIsPrefix, page, ghosts
  <2> QED BY <2>3, <2>4
<1> QED BY <1>1, <1>2

\* The list keeps the invariant, and so does a request that fails.
LEMMA FetchInv ==
  ASSUME Inv, FetchTasks \/ RequestFails
  PROVE  Inv'
<1> USE DEF Inv, disk, source, ghosts, Listed
<1>1. CASE FetchTasks
  <2>1. CASE selected' = selected /\ shown' = shown
    BY <1>1, <2>1 DEF FetchTasks, Typed, TypeOK, Continues, PageIsPrefix
  <2>2. CASE selected' = Nobody /\ shown' = <<>>
    <3>1. Typed' /\ PageIsPrefix'
      BY <1>1, <2>2 DEF FetchTasks, Typed, TypeOK, PageIsPrefix
    <3>2. flight # NoFlight => flight.id # Nobody
      BY ViewerAssumption DEF Typed, TypeOK, Flights
    <3> QED BY <1>1, <2>2, <3>1, <3>2 DEF FetchTasks, Continues
  <2> QED BY <1>1, <2>1, <2>2 DEF FetchTasks
<1>2. CASE RequestFails
  BY <1>2 DEF RequestFails, Typed, TypeOK, Continues, PageIsPrefix, page
<1> QED BY <1>1, <1>2

\* An answer adds the lines that follow those of the page.
LEMMA ReceiveInv ==
  ASSUME Inv, Receive
  PROVE  Inv'
<1> USE DEF Inv, disk, source, ghosts
<1>1. flight \in Flights
  BY DEF Receive, Typed, TypeOK, NoFlight
<1>2. CASE flight.id # selected
  BY <1>2 DEF Receive, Typed, TypeOK, Continues, PageIsPrefix
<1>3. CASE flight.id = selected
  <2>1. cursor' = flight.total /\ shown' = shown \o Answer /\ flight' = NoFlight
        /\ round' = round \ {"log"}
        /\ UNCHANGED <<disk, source, tasks, selected, raw, ghosts>>
    BY <1>3 DEF Receive
  <2>2. Typed' /\ Continues'
    BY <1>1, <2>1 DEF Typed, TypeOK, Continues, Flights
  <2>3. PageIsPrefix'
    <3>1. SUFFICES ASSUME selected # Nobody, ~crossed, ~shrunk
                   PROVE  shown' = Prefix(selected, raw, flight.total)
      BY <2>1 DEF PageIsPrefix, Prefix
    <3>2. flight.mode = raw /\ flight.since = cursor /\ cursor <= flight.total
          /\ flight.total \in Nat /\ cursor \in Nat
      BY <1>1, <1>3, <3>1, FlightIsOne DEF Receive, Continues, Flights, Typed, TypeOK
    <3>3. shown = Prefix(selected, raw, cursor)
      BY <3>1 DEF PageIsPrefix, Prefix
    <3>4. Answer = [i \in 1..(flight.total - cursor) |->
                      [of |-> selected, mode |-> raw, line |-> cursor + i]]
      BY <1>3, <3>2 DEF Answer
    <3> QED BY <2>1, <3>2, <3>3, <3>4, PrefixGrows
  <2> QED BY <2>2, <2>3
<1> QED BY <1>2, <1>3

\* Every step keeps the invariant.
LEMMA NextInv == Inv /\ [Next]_vars => Inv'
<1> SUFFICES ASSUME Inv, [Next]_vars PROVE Inv'
  OBVIOUS
<1>1. CASE UNCHANGED vars
  BY <1>1 DEF vars, disk, source, page, ghosts, Inv, Typed, TypeOK, Continues, PageIsPrefix
<1>2. CASE \E t \in Tasks : Select(t)
  <2>1. PICK t \in Tasks : Select(t)
    BY <1>2
  <2>2. raw \in BOOLEAN /\ ReloadLog(t, raw) /\ UNCHANGED <<disk, source, tasks, round>>
    BY <2>1 DEF Select, Inv, Typed, TypeOK
  <2> QED BY <2>2, ReloadInv DEF Inv, Typed, TypeOK
<1>3. CASE ToggleRaw
  <2>1. selected \in Tasks /\ ReloadLog(selected, ~raw) /\ UNCHANGED <<disk, source, tasks, round>>
    BY <1>3, Zenon DEF ToggleRaw, Inv, Typed, TypeOK
  <2>2. (~raw) \in BOOLEAN
    BY Zenon
  <2> QED BY <2>1, <2>2, ReloadInv DEF Inv, Typed, TypeOK
<1>4. CASE Arrive
  <2>1. tasks' \in [Tasks -> [status : {"none", "running", "ended"}, total : Nat]]
        /\ round' \subseteq {"arrival", "list", "log"}
        /\ UNCHANGED <<disk, source>>
    BY <1>4 DEF Arrive, Listed, Inv, Typed, TypeOK
  <2>2. CASE UNCHANGED <<selected, raw, cursor, shown, flight, ghosts>>
    BY <2>1, <2>2 DEF Inv, Typed, TypeOK, Continues, PageIsPrefix, disk, source, ghosts
  <2>3. CASE \E t \in Tasks : ReloadLog(t, raw)
    BY <2>1, <2>3, ReloadInv DEF Inv, Typed, TypeOK
  <2> QED BY <1>4, <2>2, <2>3 DEF Arrive, MostInteresting
<1> QED BY <1>1, <1>2, <1>3, <1>4, OutsideInv, HandleLogInv, LoopInv, FetchInv, ReceiveInv DEF Next

-----------------------------------------------------------------------------

\* Every variable has its type.
THEOREM TypeCorrect == Spec => []TypeOK
<1>1. Inv => TypeOK
  BY DEF Inv, Typed
<1> QED BY <1>1, InitInv, NextInv, PTL DEF Spec

\* The page shows the lines of the selected task once and in order.
THEOREM PageShowsPrefix == Spec => []PageIsPrefix
<1>1. Inv => PageIsPrefix
  BY DEF Inv
<1> QED BY <1>1, InitInv, NextInv, PTL DEF Spec
=============================================================================
