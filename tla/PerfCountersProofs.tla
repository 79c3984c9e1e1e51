-------------------------- MODULE PerfCountersProofs --------------------------
(***************************************************************************)
(* What holds of PerfCounters for all requests, all limits and all failures*)
(* of the kernel: no descriptor leaks and none is closed too early, the    *)
(* groups are in the order in which Read takes them for, and a user counter*)
(* is what was counted under its name while the timing was not paused.     *)
(***************************************************************************)
EXTENDS PerfCounters, FiniteSetTheorems, WellFoundedInduction, TLAPS

NewType ==
  [names : Seq(STRING), ids : Seq(Nat), leaders : Seq(Nat), i : Nat \ {0},
   group_id : Nat, is_first : BOOLEAN, retries : Nat, lead : Nat \ {0}]

CountersType == [names : Seq(STRING), ids : Seq(Nat), leaders : Seq(Nat)]

Types ==
  /\ counter_names \in Requests
  /\ new \in NewType /\ counters_ \in CountersType
  /\ IsFiniteSet(DOMAIN fds)
  /\ pc = "open" => new.i <= Len(counter_names)

\* Create and the measurement do not have descriptors at the same time.
OneOwner ==
  /\ pc \in {"none", "create", "open", "enable"} => counters_ = NoCounters
  /\ pc \in {"none", "ready", "start", "timed", "stop"} => new = NewCreate

OwnedInv == Types /\ OneOwner /\ DescriptorsOwned

-----------------------------------------------------------------------------
\* There is a number that no descriptor has, and a smallest one of them.
LEMMA NextDescriptorIsFree ==
  ASSUME IsFiniteSet(DOMAIN fds)
  PROVE  NextDescriptor \in Nat \ {0} /\ NextDescriptor \notin DOMAIN fds
<1> DEFINE n == Cardinality(DOMAIN fds) + 1
           free == (1 .. n) \ DOMAIN fds
<1>1. n \in Nat /\ Cardinality(DOMAIN fds) \in Nat
  BY FS_CardinalityType
<1>2. free # {}
  <2> SUFFICES ASSUME 1 .. n \subseteq DOMAIN fds
               PROVE  FALSE
    OBVIOUS
  <2>1. Cardinality(1 .. n) <= Cardinality(DOMAIN fds)
    BY FS_Subset
  <2>2. Cardinality(1 .. n) = n
    <3> HIDE DEF n
    <3>1. 1 \in Int /\ n \in Int /\ Cardinality(1 .. n) = IF 1 > n THEN 0 ELSE n - 1 + 1
      BY <1>1, FS_Interval
    <3> QED
      BY <1>1, <3>1 DEF n
  <2> QED
    BY <1>1, <2>1, <2>2
<1>3. PICK id \in free : \A other \in free : ~(other < id)
  <2>1. free \subseteq Nat
    BY <1>1
  <2>2. \E id \in free : \A other \in free : <<other, id>> \notin OpToRel(<, Nat)
    <3> HIDE DEF free
    <3> QED
      BY <1>2, <2>1, NatLessThanWellFounded, WFMin
  <2>3. \A id, other \in Nat : other < id => <<other, id>> \in OpToRel(<, Nat)
    BY DEF OpToRel
  <2> QED
    BY <2>1, <2>2, <2>3
<1>4. id \in 1 .. n /\ id \notin DOMAIN fds /\ 1 .. id - 1 \subseteq DOMAIN fds
  BY <1>1, <1>3
<1> HIDE DEF n
<1>5. NextDescriptor \in 1 .. n /\ NextDescriptor \notin DOMAIN fds
  BY <1>4 DEF NextDescriptor, n
<1> QED
  BY <1>1, <1>5

\* What is closed is open no more, and nothing else happens to the open ones.
LEMMA ClosedDomain ==
  ASSUME NEW ids
  PROVE  DOMAIN Closed(ids) = DOMAIN fds \ {ids[i] : i \in DOMAIN ids}
  BY DEF Closed

\* The empty objects.
LEMMA NewCreateType ==
  /\ NewCreate \in NewType /\ NoCounters \in CountersType
  /\ Ids(NewCreate) = {} /\ Ids(NoCounters) = {}
  BY DEF NewCreate, NewType, NoCounters, CountersType, Ids

\* The sets of the fields do not matter to the next lemma, and are in the provers' way.
LEMMA FieldsUpdated ==
  ASSUME NEW N, NEW D, NEW L, NEW I, NEW G, NEW F, NEW R, NEW E,
         NEW object \in [names : N, ids : D, leaders : L, i : I, group_id : G,
                         is_first : F, retries : R, lead : E],
         NEW names \in N, NEW ids \in D, NEW leaders \in L, NEW i \in I, NEW group_id \in G
  PROVE  [object EXCEPT !.i = i, !.group_id = group_id, !.names = names, !.ids = ids,
                        !.leaders = leaders]
           \in [names : N, ids : D, leaders : L, i : I, group_id : G,
                is_first : F, retries : R, lead : E]
  OBVIOUS

\* What Create does to its locals when a descriptor is opened.
LEMMA OpenedType ==
  ASSUME NEW object \in NewType, NEW names \in Seq(STRING), NEW ids \in Seq(Nat),
         NEW leaders \in Seq(Nat), NEW i \in Nat \ {0}, NEW group_id \in Nat
  PROVE  [object EXCEPT !.i = i, !.group_id = group_id, !.names = names, !.ids = ids,
                        !.leaders = leaders] \in NewType
  BY FieldsUpdated, Zenon DEF NewType

\* Its numbers are counted up, or begin again: it keeps its type.
LEMMA CountedType ==
  ASSUME NEW object \in NewType
  PROVE  /\ object.i + 1 \in Nat \ {0} /\ object.lead + 1 \in Nat \ {0}
         /\ [object EXCEPT !.i = @ + 1] \in NewType
         /\ [object EXCEPT !.lead = @ + 1] \in NewType
         /\ [object EXCEPT !.retries = @ + 1] \in NewType
         /\ [object EXCEPT !.group_id = 0, !.retries = 0] \in NewType
<1>1. /\ object.i + 1 \in Nat \ {0} /\ object.lead + 1 \in Nat \ {0}
      /\ object.retries + 1 \in Nat
  <2>1. object.i \in Nat /\ object.lead \in Nat /\ object.retries \in Nat
    BY DEF NewType
  <2> QED
    BY <2>1
<1>2. \A n \in Nat \ {0} : /\ [object EXCEPT !.i = n] \in NewType
                           /\ [object EXCEPT !.lead = n] \in NewType
  BY DEF NewType
<1>3. \A n \in Nat : [object EXCEPT !.retries = n] \in NewType
  BY DEF NewType
<1>4. [object EXCEPT !.group_id = 0, !.retries = 0] \in NewType
  BY DEF NewType
<1> QED
  BY <1>1, <1>2, <1>3, <1>4, Zenon

\* A name is taken up: it may be the first of a group.
LEMMA FlaggedType ==
  ASSUME NEW object \in NewType, NEW flag \in BOOLEAN
  PROVE  [object EXCEPT !.is_first = flag, !.retries = 0] \in NewType
  BY DEF NewType

-----------------------------------------------------------------------------
\* At first nothing is open.
THEOREM PerfCountersInitial == Init => OwnedInv
<1> SUFFICES ASSUME Init
             PROVE  OwnedInv
  OBVIOUS
<1>1. DOMAIN fds = {} /\ pc = "none" /\ new = NewCreate /\ counters_ = NoCounters
  BY DEF Init
<1>2. Types
  BY <1>1, NewCreateType, FS_EmptySet DEF Init, Types
<1>3. OneOwner
  BY <1>1 DEF OneOwner
<1>4. DescriptorsOwned
  BY <1>1, NewCreateType DEF DescriptorsOwned
<1> QED
  BY <1>2, <1>3, <1>4 DEF OwnedInv

\* The next name: nothing is opened yet.
LEMMA NextNameKeeps ==
  ASSUME OwnedInv, NextName
  PROVE  OwnedInv'
<1>1. new \in NewType /\ new'.ids = new.ids /\ pc' \in {"create", "open", "enable"}
  BY DEF OwnedInv, Types, NextName, NewType
<1>2. new' \in NewType /\ (pc' = "open" => new'.i <= Len(counter_names))
  <2>1. Len(counter_names) \in Nat /\ new.i \in Nat
    BY PerfCountersAssumption DEF OwnedInv, Types, NewType
  <2>2. CASE UNCHANGED new /\ pc' = "enable"
    BY <1>1, <2>2
  <2>3. CASE new' = [new EXCEPT !.i = @ + 1] /\ UNCHANGED pc
    <3>1. new' \in NewType
      BY <1>1, <2>3, CountedType
    <3> QED
      BY <2>3, <3>1 DEF NextName
  <2>4. CASE /\ ~(new.i > Len(counter_names) \/ Len(new.names) = kMaxCounters)
             /\ new' = [new EXCEPT !.is_first = (new.group_id = 0), !.retries = 0]
    <3>1. new' \in NewType
      <4>1. (new.group_id = 0) \in BOOLEAN
        OBVIOUS
      <4> QED
        BY <1>1, <2>4, <4>1, FlaggedType, Zenon
    <3>2. new'.i = new.i
      BY <1>1, <2>4 DEF NewType
    <3> QED
      BY <2>1, <2>4, <3>1, <3>2
  <2> QED
    BY <2>2, <2>3, <2>4 DEF NextName
<1>3. Types'
  BY <1>2 DEF OwnedInv, Types, NextName, build
<1>4. OneOwner'
  BY <1>1 DEF OwnedInv, OneOwner, NextName
<1>5. DescriptorsOwned'
  BY <1>1 DEF OwnedInv, DescriptorsOwned, Ids, NextName
<1> QED
  BY <1>3, <1>4, <1>5 DEF OwnedInv

\* A descriptor is opened and remembered in the same step.
LEMMA OpenedKeeps ==
  ASSUME OwnedInv, Open, Opened
  PROVE  OwnedInv'
<1> DEFINE id == NextDescriptor
           leader == IF new.group_id = 0 THEN id ELSE new.group_id
<1>1. id \in Nat /\ id \notin DOMAIN fds
  BY NextDescriptorIsFree DEF OwnedInv, Types
<1>2. /\ new \in NewType /\ IsFiniteSet(DOMAIN fds) /\ pc = "open"
      /\ counter_names[new.i] \in STRING
  <2>1. counter_names \in Seq(STRING)
    BY PerfCountersAssumption DEF OwnedInv, Types
  <2>2. new.i \in 1 .. Len(counter_names)
    BY <2>1 DEF OwnedInv, Types, Open, NewType
  <2> QED
    BY <2>1, <2>2 DEF OwnedInv, Types, Open
<1>3. DOMAIN fds' = DOMAIN fds \cup {id} /\ pc' = "create"
  BY DEF Opened
<1>4. /\ new'.ids = Append(new.ids, id)
      /\ new' \in NewType
  <2>1. new.ids \in Seq(Nat) /\ new.names \in Seq(STRING) /\ new.leaders \in Seq(Nat)
        /\ leader \in Nat
    BY <1>1, <1>2 DEF NewType
  <2> DEFINE names == Append(new.names, counter_names[new.i])
             ids == Append(new.ids, id)
             leaders == IF Leads(id, leader) THEN Append(new.leaders, id) ELSE new.leaders
  <2>2. names \in Seq(STRING) /\ ids \in Seq(Nat) /\ leaders \in Seq(Nat)
    BY <1>1, <1>2, <2>1
  <2>3. new' = [new EXCEPT !.i = @ + 1, !.group_id = leader, !.names = names, !.ids = ids,
                           !.leaders = leaders]
    BY Zenon DEF Opened
  <2>4. new.i + 1 \in Nat \ {0}
    BY <1>2, CountedType
  <2> HIDE DEF names, ids, leaders, leader, id
  <2>5. new' \in NewType
    BY <1>2, <2>1, <2>2, <2>3, <2>4, OpenedType, Zenon
  <2>6. new'.ids = ids
    BY <1>2, <2>3 DEF NewType
  <2> QED
    BY <2>5, <2>6 DEF ids
<1>5. Ids(new') = Ids(new) \cup {id}
  <2> HIDE DEF id
  <2>1. new.ids \in Seq(Nat)
    BY <1>2 DEF NewType
  <2>2. /\ DOMAIN Append(new.ids, id) = DOMAIN new.ids \cup {Len(new.ids) + 1}
        /\ \A i \in DOMAIN new.ids : Append(new.ids, id)[i] = new.ids[i]
        /\ Append(new.ids, id)[Len(new.ids) + 1] = id
    BY <1>1, <2>1
  <2> QED
    BY <1>4, <2>2, ZenonT(60) DEF Ids
<1>6. Types'
  BY <1>2, <1>3, <1>4, FS_AddElement DEF OwnedInv, Types, Open, build
<1>7. OneOwner'
  BY <1>2, <1>3 DEF OwnedInv, OneOwner, Open
<1>8. DescriptorsOwned'
  BY <1>3, <1>5 DEF OwnedInv, DescriptorsOwned, Open, Ids
<1> QED
  BY <1>6, <1>7, <1>8 DEF OwnedInv

\* An open that did not succeed: the descriptors are those of before.
LEMMA NotOpenedKeeps ==
  ASSUME OwnedInv, Open, Retry \/ Refused
  PROVE  OwnedInv'
<1>1. new \in NewType /\ pc = "open" /\ new.i <= Len(counter_names)
      /\ Len(counter_names) \in Nat
  BY PerfCountersAssumption DEF OwnedInv, Types, Open
<1>2. /\ fds' = fds /\ counters_' = counters_ /\ new'.ids = new.ids
      /\ pc' \in {"create", "open"}
  BY <1>1 DEF Open, Retry, Refused, NewType
<1>3. new' \in NewType /\ (pc' = "open" => new'.i = new.i)
  <2>1. CASE new' = [new EXCEPT !.retries = @ + 1]
    BY <1>1, <2>1, CountedType DEF NewType
  <2>2. CASE new' = [new EXCEPT !.group_id = 0, !.retries = 0]
    BY <1>1, <2>2, CountedType DEF NewType
  <2>3. CASE new' = [new EXCEPT !.i = @ + 1] /\ pc' = "create"
    BY <1>1, <2>3, CountedType
  <2> QED
    BY <2>1, <2>2, <2>3 DEF Retry, Refused
<1>4. Types'
  BY <1>1, <1>2, <1>3 DEF OwnedInv, Types, Open, build
<1>5. OneOwner'
  BY <1>1, <1>2 DEF OwnedInv, OneOwner
<1>6. DescriptorsOwned'
  BY <1>2 DEF OwnedInv, DescriptorsOwned, Ids
<1> QED
  BY <1>4, <1>5, <1>6 DEF OwnedInv

\* A group is enabled, or all of them are given up and closed.
LEMMA EnableKeeps ==
  ASSUME OwnedInv, Enable
  PROVE  OwnedInv'
<1>1. new \in NewType /\ counters_ = NoCounters /\ counters_' = counters_
      /\ pc = "enable" /\ pc' = pc /\ counter_names' = counter_names
  BY DEF OwnedInv, Types, OneOwner, Enable, build
<1>2. CASE /\ fds' = [fds EXCEPT ![new.leaders[new.lead]].enabled = TRUE]
           /\ new' = [new EXCEPT !.lead = @ + 1]
  <2>1. DOMAIN fds' = DOMAIN fds
    BY <1>2
  <2>2. new' \in NewType /\ new'.ids = new.ids
    BY <1>1, <1>2, CountedType DEF NewType
  <2>3. Types'
    BY <1>1, <2>1, <2>2 DEF OwnedInv, Types
  <2>4. OneOwner' /\ DescriptorsOwned'
    BY <1>1, <2>1, <2>2 DEF OwnedInv, OneOwner, DescriptorsOwned, Ids
  <2> QED
    BY <2>3, <2>4 DEF OwnedInv
<1>3. CASE fds' = CloseAll(new) /\ new' = NewCreate
  <2>1. DOMAIN fds' = DOMAIN fds \ Ids(new)
    BY <1>3, ClosedDomain DEF CloseAll, Ids
  <2>2. DOMAIN fds' = {}
    BY <1>1, <2>1, NewCreateType DEF OwnedInv, DescriptorsOwned
  <2>3. Types'
    BY <1>1, <1>3, <2>2, NewCreateType, FS_EmptySet DEF OwnedInv, Types
  <2>4. OneOwner'
    BY <1>1, <1>3 DEF OneOwner
  <2>5. DescriptorsOwned'
    BY <1>1, <1>3, <2>2, NewCreateType DEF DescriptorsOwned
  <2> QED
    BY <2>3, <2>4, <2>5 DEF OwnedInv
<1> QED
  BY <1>2, <1>3 DEF Enable

\* The measurement takes over what Create has opened.
LEMMA AssignKeeps ==
  ASSUME OwnedInv, Assign
  PROVE  OwnedInv'
<1>1. new \in NewType /\ counters_ = NoCounters /\ pc' = "ready" /\ new' = NewCreate
  BY DEF OwnedInv, Types, OneOwner, Assign
<1>2. DOMAIN fds' = DOMAIN fds
  BY <1>1, ClosedDomain, NewCreateType DEF Assign, Ids
<1>3. counters_' \in CountersType /\ counters_'.ids = new.ids
  BY <1>1 DEF Assign, NewType, CountersType
<1>4. Types'
  BY <1>1, <1>2, <1>3, NewCreateType DEF OwnedInv, Types, Assign, build
<1>5. OneOwner'
  BY <1>1 DEF OneOwner
<1>6. Ids(counters_') = Ids(new)
  BY <1>3 DEF Ids
<1>7. DescriptorsOwned'
  BY <1>1, <1>2, <1>6, NewCreateType DEF OwnedInv, DescriptorsOwned
<1> QED
  BY <1>4, <1>5, <1>7 DEF OwnedInv

\* The measurement closes its descriptors, and there are no others.
LEMMA DestroyKeeps ==
  ASSUME OwnedInv, Destroy
  PROVE  OwnedInv'
<1>1. new = NewCreate /\ new' = NewCreate /\ counters_' = NoCounters /\ pc' = "none"
  BY DEF OwnedInv, OneOwner, Destroy
<1>2. DOMAIN fds' = DOMAIN fds \ Ids(counters_)
  BY ClosedDomain DEF Destroy, Ids
<1>3. DOMAIN fds' = {}
  BY <1>1, <1>2, NewCreateType DEF OwnedInv, DescriptorsOwned
<1>4. Types'
  BY <1>1, <1>3, NewCreateType, FS_EmptySet DEF OwnedInv, Types, Destroy, build
<1>5. OneOwner'
  BY <1>1 DEF OneOwner
<1>6. DescriptorsOwned'
  BY <1>1, <1>3, NewCreateType DEF DescriptorsOwned
<1> QED
  BY <1>4, <1>5, <1>6 DEF OwnedInv

\* Steps that open and close nothing: measuring, and an event that is counted.
LEMMA MeasuringKeeps ==
  ASSUME OwnedInv, UNCHANGED <<counter_names, new, counters_>>, DOMAIN fds' = DOMAIN fds,
         pc' # "open",
         pc \in {"ready", "start", "timed", "stop"}
           => pc' \in {"ready", "start", "timed", "stop", "aborted"},
         pc = "none" => pc' \in {"none", "create", "aborted"},
         pc \notin {"none", "ready", "start", "timed", "stop"} => pc' = pc
  PROVE  OwnedInv'
<1>1. Types'
  BY DEF OwnedInv, Types
<1>2. OneOwner'
  BY DEF OwnedInv, OneOwner
<1>3. DescriptorsOwned'
  BY DEF OwnedInv, DescriptorsOwned, Ids
<1> QED
  BY <1>1, <1>2, <1>3 DEF OwnedInv

\* Every step keeps the invariant.
THEOREM PerfCountersInductive == OwnedInv /\ [Next]_vars => OwnedInv'
<1> SUFFICES ASSUME OwnedInv, [Next]_vars
             PROVE  OwnedInv'
  OBVIOUS
<1>1. CASE Construct
  BY <1>1, MeasuringKeeps DEF Construct, build, create_vars
<1>2. CASE NextName
  BY <1>2, NextNameKeeps
<1>3. CASE Open
  BY <1>3, OpenedKeeps, NotOpenedKeeps DEF Open
<1>4. CASE Enable
  BY <1>4, EnableKeeps
<1>5. CASE Assign
  BY <1>5, AssignKeeps
<1>6. CASE Destroy
  BY <1>6, DestroyKeeps
<1>7. CASE Start \/ Stop
  BY <1>7, MeasuringKeeps DEF Start, Stop, build, create_vars
<1>8. CASE ReadGroup
  BY <1>8, MeasuringKeeps DEF ReadGroup, build, create_vars
<1>9. CASE ReadDone \/ ReadFails
  BY <1>9, MeasuringKeeps DEF ReadDone, ReadFails, EndSnapshot, build, create_vars
<1>10. ASSUME NEW name \in Known, Event(name)
       PROVE  OwnedInv'
  <2>1. DOMAIN fds' = DOMAIN fds
    BY <1>10 DEF Event
  <2> QED
    BY <1>10, <2>1, MeasuringKeeps DEF Event, build
<1>11. CASE UNCHANGED vars
  BY <1>11 DEF vars, build, create_vars, OwnedInv, Types, OneOwner, DescriptorsOwned, Ids
<1> QED
  BY <1>1, <1>2, <1>3, <1>4, <1>5, <1>6, <1>7, <1>8, <1>9, <1>10, <1>11 DEF Next

\* Whatever is refused or fails, the open descriptors are those of the object under
\* construction and of the live one.
THEOREM DescriptorsCorrect == Spec => []DescriptorsOwned
<1>1. OwnedInv => DescriptorsOwned
  BY DEF OwnedInv
<1> QED
  BY <1>1, PerfCountersInitial, PerfCountersInductive, PTL DEF Spec
-----------------------------------------------------------------------------
(* What is measured. The invariant says how the descriptors of an object   *)
(* are grouped, what Create has done so far, and, for each counter, what   *)
(* is in between the events inside of the timed sections and those around. *)

Descriptors ==
  [event : STRING, leader : Nat, enabled : BOOLEAN, count : Nat, group : Seq(Nat)]

\* GroupInPlace, of the descriptors f.
InPlace(f, ids, leaders, n) ==
  LET group == f[leaders[n]].group
  IN \E i \in DOMAIN ids :
       /\ n = 1 => i = 1
       /\ group # << >> /\ group[1] = leaders[n]
       /\ \A k \in DOMAIN group : /\ i + k - 1 \in DOMAIN ids
                                 /\ ids[i + k - 1] = group[k]
                                 /\ f[group[k]].leader = leaders[n]
       /\ IF n = Len(leaders) THEN i + Len(group) = Len(ids) + 1
          ELSE i + Len(group) \in DOMAIN ids /\ ids[i + Len(group)] = leaders[n + 1]

\* No descriptor or leader is there twice, and a group is complete before the next one.
Grouped(f, ids, leaders) ==
  /\ \A i \in DOMAIN ids : ids[i] \in DOMAIN f
  /\ \A n \in DOMAIN leaders : leaders[n] \in DOMAIN f
  /\ \A i, j \in DOMAIN ids : ids[i] = ids[j] => i = j
  /\ \A m, n \in DOMAIN leaders : leaders[m] = leaders[n] => m = n
  /\ \A n \in DOMAIN leaders : InPlace(f, ids, leaders, n)
  /\ leaders = << >> => ids = << >>

\* A user counter for each descriptor, each under a name of its own.
Named(f, ids, names) ==
  /\ Len(names) = Len(ids) /\ Len(names) <= kMaxCounters
  /\ \A i \in DOMAIN ids : /\ f[ids[i]].event = names[i]
                           /\ names[i] \in Known
                           /\ \E j \in DOMAIN ids : f[ids[i]].leader = ids[j]
  /\ \A i, j \in DOMAIN names : names[i] = names[j] => i = j

Consistent(object) ==
  Grouped(fds, object.ids, object.leaders) /\ Named(fds, object.ids, object.names)

NumbersOK ==
  /\ pc \in {"none", "create", "open", "enable", "ready", "start", "timed", "stop", "aborted"}
  /\ fds \in [DOMAIN fds -> Descriptors]
  /\ valid_read_ \in BOOLEAN /\ sections \in 0 .. MaxSections
  /\ start_values_ \in [1 .. kMaxCounters -> Int]
  /\ end_values_ \in [1 .. kMaxCounters -> Int]
  /\ counters \in [Known -> Int]
  /\ spent \in [inside : [Known -> Nat], around : [Known -> Nat]]
  /\ read \in [lead : Nat \ {0}, offset : Nat]

\* Create joins descriptors to the last group, takes names in their order, and leaves
\* only leaders disabled, which it enables in their order.
Creating ==
  /\ new.group_id # 0 => new.leaders # << >> /\ new.group_id = new.leaders[Len(new.leaders)]
  /\ pc \in {"create", "open"} => new.lead = 1
  /\ \A j \in DOMAIN new.names : \E x \in 1 .. new.i - 1 :
       x \in DOMAIN counter_names /\ counter_names[x] = new.names[j]
  /\ pc = "open" => /\ counter_names[new.i] \in Known
                    /\ Len(new.names) < kMaxCounters
                    /\ new.is_first => new.group_id = 0
  /\ \A i \in DOMAIN new.ids :
       \/ fds[new.ids[i]].enabled
       \/ \E n \in DOMAIN new.leaders : new.lead <= n /\ new.leaders[n] = new.ids[i]

\* Nothing has happened before there are counters, and then all of them count.
Live ==
  /\ pc \in {"none", "create", "open", "enable"} =>
       counters = Zero /\ spent = [inside |-> Zero, around |-> Zero]
  /\ pc \in {"ready", "start", "timed", "stop"} =>
       \A i \in DOMAIN counters_.ids : fds[counters_.ids[i]].enabled

\* Read is in front of the first value of the group it comes to.
ReadPlace ==
  pc \in {"start", "stop"} =>
    /\ counters_.ids # << >> /\ read.lead <= Len(counters_.leaders) + 1
    /\ IF read.lead = Len(counters_.leaders) + 1 THEN read.offset = Len(counters_.ids)
       ELSE /\ read.offset + 1 \in DOMAIN counters_.ids
            /\ counters_.ids[read.offset + 1] = counters_.leaders[read.lead]

Within(value, name) == spent.inside[name] <= value /\ value <= spent.around[name]

\* What a user counter would amount to if the section ended now.
Measured(i) ==
  LET name  == counters_.names[i]
      count == fds[counters_.ids[i]].count
  IN /\ pc \in {"ready", "start"} => Within(counters[name], name)
     /\ pc = "start" /\ i <= read.offset =>
          /\ start_values_[i] <= count
          /\ Within(counters[name] + (count - start_values_[i]), name)
     /\ pc = "timed" \/ (pc = "stop" /\ i > read.offset) =>
          Within(counters[name] + (count - start_values_[i]), name)
     /\ pc = "stop" /\ i <= read.offset =>
          Within(counters[name] + (end_values_[i] - start_values_[i]), name)

AllMeasured == valid_read_ => \A i \in DOMAIN counters_.names : Measured(i)

MeasuredInv ==
  /\ OwnedInv /\ NumbersOK /\ Consistent(new) /\ Consistent(counters_)
  /\ Creating /\ Live /\ ReadPlace /\ AllMeasured

-----------------------------------------------------------------------------
\* Groups do not depend on what else the kernel notes, or on other descriptors.
LEMMA GroupedSame ==
  ASSUME NEW f, NEW g, NEW ids, NEW leaders, Grouped(f, ids, leaders),
         \A fd \in DOMAIN f : /\ fd \in DOMAIN g
                              /\ g[fd].group = f[fd].group /\ g[fd].leader = f[fd].leader
  PROVE  Grouped(g, ids, leaders)
<1>1. ASSUME NEW n \in DOMAIN leaders
      PROVE  InPlace(g, ids, leaders, n)
  <2> DEFINE group == f[leaders[n]].group
  <2>1. leaders[n] \in DOMAIN f /\ InPlace(f, ids, leaders, n)
    BY Zenon DEF Grouped
  <2>2. g[leaders[n]].group = group
    BY <2>1
  <2> PICK i \in DOMAIN ids :
         /\ n = 1 => i = 1
         /\ group # << >> /\ group[1] = leaders[n]
         /\ \A k \in DOMAIN group : /\ i + k - 1 \in DOMAIN ids
                                   /\ ids[i + k - 1] = group[k]
                                   /\ f[group[k]].leader = leaders[n]
         /\ IF n = Len(leaders) THEN i + Len(group) = Len(ids) + 1
            ELSE i + Len(group) \in DOMAIN ids /\ ids[i + Len(group)] = leaders[n + 1]
    BY <2>1, Zenon DEF InPlace
  <2>3. \A k \in DOMAIN group : g[group[k]].leader = leaders[n]
    <3>1. \A k \in DOMAIN group : group[k] \in DOMAIN f
      BY Zenon DEF Grouped
    <3> QED
      BY <3>1, Zenon
  <2> HIDE DEF group
  <2> QED
    BY <2>2, <2>3, Zenon DEF InPlace
<1> QED
  BY <1>1, Zenon DEF Grouped

\* Nor do names.
LEMMA NamedSame ==
  ASSUME NEW f, NEW g, NEW ids, NEW names, Named(f, ids, names),
         \A i \in DOMAIN ids : ids[i] \in DOMAIN f,
         \A fd \in DOMAIN f : g[fd].event = f[fd].event /\ g[fd].leader = f[fd].leader
  PROVE  Named(g, ids, names)
<1>1. ASSUME NEW i \in DOMAIN ids
      PROVE  /\ g[ids[i]].event = names[i] /\ names[i] \in Known
             /\ \E j \in DOMAIN ids : g[ids[i]].leader = ids[j]
  <2>1. g[ids[i]].event = f[ids[i]].event /\ g[ids[i]].leader = f[ids[i]].leader
    OBVIOUS
  <2>2. /\ f[ids[i]].event = names[i] /\ names[i] \in Known
        /\ \E j \in DOMAIN ids : f[ids[i]].leader = ids[j]
    BY Zenon DEF Named
  <2> QED
    BY <2>1, <2>2, Zenon
<1>2. /\ Len(names) = Len(ids) /\ Len(names) <= kMaxCounters
      /\ \A i, j \in DOMAIN names : names[i] = names[j] => i = j
  BY Zenon DEF Named
<1> QED
  BY <1>1, <1>2, Zenon DEF Named

\* What Append does to lists of descriptors.
LEMMA AppendFacts ==
  ASSUME NEW S, NEW list \in Seq(S), NEW x \in S
  PROVE  /\ Append(list, x) \in Seq(S) /\ Append(list, x) # << >>
         /\ Len(Append(list, x)) = Len(list) + 1
         /\ DOMAIN Append(list, x) = DOMAIN list \cup {Len(list) + 1}
         /\ Len(list) + 1 \notin DOMAIN list
         /\ \A i \in DOMAIN list : Append(list, x)[i] = list[i]
         /\ Append(list, x)[Len(list) + 1] = x
         /\ DOMAIN list = 1 .. Len(list) /\ Len(list) \in Nat
  OBVIOUS

\* A position that is not the last has one behind it.
LEMMA NextPosition ==
  ASSUME NEW S, NEW list \in Seq(S), NEW n \in DOMAIN list, n # Len(list)
  PROVE  n + 1 \in DOMAIN list
  OBVIOUS

\* The part of Grouped that is about who is there.
LEMMA GroupedDistinct ==
  ASSUME NEW ids \in Seq(Nat), NEW id \in Nat,
         \A i \in DOMAIN ids : ids[i] # id,
         \A i, j \in DOMAIN ids : ids[i] = ids[j] => i = j
  PROVE  \A i, j \in DOMAIN Append(ids, id) : Append(ids, id)[i] = Append(ids, id)[j] => i = j
  BY AppendFacts

\* A new descriptor begins a group: those before it are complete.
LEMMA GroupStarted ==
  ASSUME NEW f, NEW g, NEW ids \in Seq(Nat), NEW leaders \in Seq(Nat), NEW id \in Nat,
         Grouped(f, ids, leaders), id \notin DOMAIN f, DOMAIN g = DOMAIN f \cup {id},
         g[id].group = <<id>>, g[id].leader = id,
         \A fd \in DOMAIN f : g[fd].group = f[fd].group /\ g[fd].leader = f[fd].leader
  PROVE  Grouped(g, Append(ids, id), Append(leaders, id))
<1> DEFINE ids2 == Append(ids, id)
           leaders2 == Append(leaders, id)
<1>1. /\ Len(ids2) = Len(ids) + 1 /\ DOMAIN ids2 = DOMAIN ids \cup {Len(ids) + 1}
      /\ \A i \in DOMAIN ids : ids2[i] = ids[i]
      /\ ids2[Len(ids) + 1] = id /\ DOMAIN ids = 1 .. Len(ids) /\ Len(ids) \in Nat
  BY AppendFacts
<1>2. /\ Len(leaders2) = Len(leaders) + 1
      /\ DOMAIN leaders2 = DOMAIN leaders \cup {Len(leaders) + 1}
      /\ \A n \in DOMAIN leaders : leaders2[n] = leaders[n]
      /\ leaders2[Len(leaders) + 1] = id
      /\ DOMAIN leaders = 1 .. Len(leaders) /\ Len(leaders) \in Nat
      /\ leaders2 # << >>
  BY AppendFacts
<1>3. /\ \A i \in DOMAIN ids2 : ids2[i] \in DOMAIN g
      /\ \A n \in DOMAIN leaders2 : leaders2[n] \in DOMAIN g
  BY <1>1, <1>2, Zenon DEF Grouped
<1>4. /\ \A i, j \in DOMAIN ids2 : ids2[i] = ids2[j] => i = j
      /\ \A m, n \in DOMAIN leaders2 : leaders2[m] = leaders2[n] => m = n
  <2>1. \A i \in DOMAIN ids : ids[i] # id
    BY DEF Grouped
  <2>2. \A n \in DOMAIN leaders : leaders[n] # id
    BY DEF Grouped
  <2>3. /\ \A i, j \in DOMAIN ids : ids[i] = ids[j] => i = j
        /\ \A m, n \in DOMAIN leaders : leaders[m] = leaders[n] => m = n
    BY DEF Grouped
  <2> QED
    BY <2>1, <2>2, <2>3, GroupedDistinct, Zenon
<1> HIDE DEF ids2, leaders2
<1>5. ASSUME NEW n \in DOMAIN leaders
      PROVE  InPlace(g, ids2, leaders2, n)
  <2> DEFINE group == f[leaders[n]].group
  <2>1. leaders[n] \in DOMAIN f /\ InPlace(f, ids, leaders, n)
    BY Zenon DEF Grouped
  <2>2. g[leaders2[n]].group = group
    BY <1>2, <2>1
  <2> PICK i \in DOMAIN ids :
         /\ n = 1 => i = 1
         /\ group # << >> /\ group[1] = leaders[n]
         /\ \A k \in DOMAIN group : /\ i + k - 1 \in DOMAIN ids
                                   /\ ids[i + k - 1] = group[k]
                                   /\ f[group[k]].leader = leaders[n]
         /\ IF n = Len(leaders) THEN i + Len(group) = Len(ids) + 1
            ELSE i + Len(group) \in DOMAIN ids /\ ids[i + Len(group)] = leaders[n + 1]
    BY <2>1, Zenon DEF InPlace
  <2>3. \A k \in DOMAIN group : /\ i + k - 1 \in DOMAIN ids2
                                /\ ids2[i + k - 1] = group[k]
                                /\ g[group[k]].leader = leaders2[n]
    <3>1. \A k \in DOMAIN group : group[k] \in DOMAIN f
      BY Zenon DEF Grouped
    <3> QED
      BY <1>1, <1>2, <3>1, Zenon
  <2>4. n # Len(leaders2) /\ i \in DOMAIN ids2 /\ group[1] = leaders2[n]
    BY <1>1, <1>2
  <2>5. i + Len(group) \in DOMAIN ids2 /\ ids2[i + Len(group)] = leaders2[n + 1]
    <3>1. CASE n = Len(leaders)
      BY <1>1, <1>2, <3>1
    <3>2. CASE n # Len(leaders)
      <4>1. i + Len(group) \in DOMAIN ids /\ ids[i + Len(group)] = leaders[n + 1]
        BY <3>2, Zenon
      <4>2. n + 1 \in DOMAIN leaders
        BY <3>2, NextPosition, Zenon
      <4>3. leaders2[n + 1] = leaders[n + 1]
        BY <1>2, <4>2, Zenon
      <4>4. ids2[i + Len(group)] = ids[i + Len(group)] /\ i + Len(group) \in DOMAIN ids2
        BY <1>1, <4>1, Zenon
      <4> QED
        BY <4>1, <4>3, <4>4, Zenon
    <3> QED
      BY <3>1, <3>2
  <2> HIDE DEF group
  <2> QED
    BY <2>2, <2>3, <2>4, <2>5, Zenon DEF InPlace
<1>6. InPlace(g, ids2, leaders2, Len(leaders2))
  <2> DEFINE n == Len(leaders2)
             group == g[leaders2[n]].group
             i == Len(ids) + 1
  <2>1. leaders2[n] = id /\ group = <<id>> /\ group # << >> /\ group[1] = id
    <3>1. leaders2[n] = id
      BY <1>2, Zenon
    <3>2. group = <<id>>
      BY <3>1, Zenon
    <3> HIDE DEF group
    <3> QED
      BY <3>1, <3>2
  <2>2. DOMAIN group = {1} /\ Len(group) = 1
    <3> HIDE DEF group
    <3> QED
      BY <2>1
  <2>3. n = 1 => i = 1
    <3>1. n = 1 => leaders = << >>
      <4>1. n = Len(leaders) + 1
        BY <1>2
      <4>2. Len(leaders) = 0 => leaders = << >>
        OBVIOUS
      <4> HIDE DEF n
      <4> QED
        BY <1>2, <4>1, <4>2
    <3>2. leaders = << >> => ids = << >>
      BY Zenon DEF Grouped
    <3>3. ids = << >> => i = 1
      BY <1>1
    <3> QED
      BY <3>1, <3>2, <3>3, Zenon
  <2>4. i \in DOMAIN ids2 /\ i + Len(group) = Len(ids2) + 1
    <3> HIDE DEF group
    <3> QED
      BY <1>1, <2>2
  <2>5. ASSUME NEW k \in DOMAIN group
        PROVE  /\ i + k - 1 \in DOMAIN ids2 /\ ids2[i + k - 1] = group[k]
               /\ g[group[k]].leader = leaders2[n]
    <3>1. k = 1
      BY <2>2, Zenon
    <3>2. group[k] = id /\ i + k - 1 = i
      <4> HIDE DEF group
      <4> QED
        BY <1>1, <2>1, <3>1
    <3> HIDE DEF group, n
    <3> QED
      BY <1>1, <2>1, <2>4, <3>2
  <2>6. n = Len(leaders2)
    OBVIOUS
  <2> HIDE DEF group, i, n
  <2>7. group = g[leaders2[n]].group
    BY DEF group
  <2>8. InPlace(g, ids2, leaders2, n)
    BY <2>1, <2>3, <2>4, <2>5, <2>6, <2>7, ZenonT(60) DEF InPlace
  <2> QED
    BY <2>6, <2>8
<1>7. \A n \in DOMAIN leaders2 : InPlace(g, ids2, leaders2, n)
  BY <1>2, <1>5, <1>6, Zenon
<1>8. Grouped(g, ids2, leaders2)
  BY <1>2, <1>3, <1>4, <1>7, Zenon DEF Grouped
<1> QED
  BY <1>8 DEF ids2, leaders2

\* A new descriptor joins the last group.
LEMMA GroupJoined ==
  ASSUME NEW f, NEW g, NEW ids \in Seq(Nat), NEW leaders \in Seq(Nat), NEW id \in Nat,
         NEW last \in Nat, leaders # << >>, last = leaders[Len(leaders)],
         Grouped(f, ids, leaders), id \notin DOMAIN f, DOMAIN g = DOMAIN f \cup {id},
         f[last].group \in Seq(Nat), g[last].group = Append(f[last].group, id),
         g[id].leader = last,
         \A fd \in DOMAIN f : /\ fd # last => g[fd].group = f[fd].group
                              /\ g[fd].leader = f[fd].leader
  PROVE  Grouped(g, Append(ids, id), leaders)
<1> DEFINE ids2 == Append(ids, id)
<1>1. /\ Len(ids2) = Len(ids) + 1 /\ DOMAIN ids2 = DOMAIN ids \cup {Len(ids) + 1}
      /\ \A i \in DOMAIN ids : ids2[i] = ids[i]
      /\ ids2[Len(ids) + 1] = id /\ DOMAIN ids = 1 .. Len(ids) /\ Len(ids) \in Nat
  BY AppendFacts, SMTT(30)
<1>2. DOMAIN leaders = 1 .. Len(leaders) /\ Len(leaders) \in Nat /\ Len(leaders) > 0
  OBVIOUS
<1>3. /\ \A i \in DOMAIN ids2 : ids2[i] \in DOMAIN g
      /\ \A n \in DOMAIN leaders : leaders[n] \in DOMAIN g
  BY <1>1, Zenon DEF Grouped
<1>4. /\ \A i, j \in DOMAIN ids2 : ids2[i] = ids2[j] => i = j
      /\ \A m, n \in DOMAIN leaders : leaders[m] = leaders[n] => m = n
  <2>1. \A i \in DOMAIN ids : ids[i] # id
    BY DEF Grouped
  <2>2. /\ \A i, j \in DOMAIN ids : ids[i] = ids[j] => i = j
        /\ \A m, n \in DOMAIN leaders : leaders[m] = leaders[n] => m = n
    BY DEF Grouped
  <2> QED
    BY <2>1, <2>2, GroupedDistinct, Zenon
<1>11. \A list \in Seq(Nat) :
        /\ Append(list, id) # << >> /\ Len(Append(list, id)) = Len(list) + 1
        /\ DOMAIN Append(list, id) = DOMAIN list \cup {Len(list) + 1}
        /\ \A k \in DOMAIN list : Append(list, id)[k] = list[k]
        /\ Append(list, id)[Len(list) + 1] = id
        /\ DOMAIN list = 1 .. Len(list) /\ Len(list) \in Nat
        /\ list # << >> => 1 \in DOMAIN list
  <2> TAKE list \in Seq(Nat)
  <2>1. list # << >> => 1 \in DOMAIN list
    OBVIOUS
  <2> QED
    BY <2>1, AppendFacts, SMTT(30)
<1>12. \A i, m, n \in Nat : i + m = n + 1 => i + (m + 1) = (n + 1) + 1
  OBVIOUS
<1>13. \A i, m, n \in Nat : i + m = n + 1 => i + (m + 1) - 1 = n + 1
  OBVIOUS
<1> HIDE DEF ids2
<1>5. ASSUME NEW n \in DOMAIN leaders
      PROVE  InPlace(g, ids2, leaders, n)
  <2> DEFINE group == f[leaders[n]].group
  <2>1. leaders[n] \in DOMAIN f /\ InPlace(f, ids, leaders, n)
    BY Zenon DEF Grouped
  <2> PICK i \in DOMAIN ids :
         /\ n = 1 => i = 1
         /\ group # << >> /\ group[1] = leaders[n]
         /\ \A k \in DOMAIN group : /\ i + k - 1 \in DOMAIN ids
                                   /\ ids[i + k - 1] = group[k]
                                   /\ f[group[k]].leader = leaders[n]
         /\ IF n = Len(leaders) THEN i + Len(group) = Len(ids) + 1
            ELSE i + Len(group) \in DOMAIN ids /\ ids[i + Len(group)] = leaders[n + 1]
    BY <2>1, Zenon DEF InPlace
  <2>2. \A k \in DOMAIN group : /\ i + k - 1 \in DOMAIN ids2
                                /\ ids2[i + k - 1] = group[k]
                                /\ g[group[k]].leader = leaders[n]
    <3>1. \A k \in DOMAIN group : group[k] \in DOMAIN f
      BY Zenon DEF Grouped
    <3> QED
      BY <1>1, <3>1, Zenon
  <2>3. CASE n # Len(leaders)
    <3>1. leaders[n] # last
      <4>1. Len(leaders) \in DOMAIN leaders
        BY <1>2
      <4> QED
        BY <1>4, <2>3, <4>1, Zenon
    <3>2. g[leaders[n]].group = group
      BY <2>1, <3>1, Zenon
    <3>3. i + Len(group) \in DOMAIN ids /\ ids[i + Len(group)] = leaders[n + 1]
      BY <2>3, Zenon
    <3>4. i + Len(group) \in DOMAIN ids2 /\ ids2[i + Len(group)] = leaders[n + 1]
      BY <1>1, <3>3, Zenon
    <3>5. i \in DOMAIN ids2
      BY <1>1, Zenon
    <3> HIDE DEF group
    <3> QED
      BY <2>2, <2>3, <3>2, <3>4, <3>5, Zenon DEF InPlace
  <2>4. CASE n = Len(leaders)
    <3> DEFINE group2 == Append(group, id)
    <3>1. g[leaders[n]].group = group2 /\ group \in Seq(Nat)
      BY <2>4, Zenon
    <3>2. /\ group2 # << >> /\ Len(group2) = Len(group) + 1
          /\ DOMAIN group2 = DOMAIN group \cup {Len(group) + 1}
          /\ \A k \in DOMAIN group : group2[k] = group[k]
          /\ group2[Len(group) + 1] = id
          /\ DOMAIN group = 1 .. Len(group) /\ Len(group) \in Nat
          /\ 1 \in DOMAIN group
      <4> HIDE DEF group
      <4> QED
        BY <1>11, <3>1, Zenon
    <3> HIDE DEF group, group2
    <3>4. group2[1] = leaders[n]
      BY <3>2, Zenon
    <3>5. i + Len(group) = Len(ids) + 1 /\ i \in Nat
      <4>1. i + Len(group) = Len(ids) + 1
        BY <2>4, Zenon
      <4>2. i \in Nat
        <5>1. \A j \in DOMAIN ids : j \in Nat
          BY <1>1
        <5> QED
          BY <5>1, Zenon
      <4> QED
        BY <4>1, <4>2, Zenon
    <3>6. Len(group) \in Nat /\ Len(ids) \in Nat
      BY <1>1, <3>2, Zenon
    <3>7. i + Len(group2) = Len(ids2) + 1
      <4>1. i + (Len(group) + 1) = (Len(ids) + 1) + 1
        BY <1>12, <3>5, <3>6, Zenon
      <4> QED
        BY <1>1, <3>2, <4>1, Zenon
    <3>8. i + (Len(group) + 1) - 1 = Len(ids) + 1
      BY <1>13, <3>5, <3>6, Zenon
    <3>9. \A k \in DOMAIN group2 : /\ i + k - 1 \in DOMAIN ids2
                                   /\ ids2[i + k - 1] = group2[k]
                                   /\ g[group2[k]].leader = leaders[n]
      BY <1>1, <2>2, <2>4, <3>2, <3>8, Zenon
    <3>10. i \in DOMAIN ids2
      BY <1>1, Zenon
    <3> QED
      BY <2>4, <3>1, <3>2, <3>4, <3>7, <3>9, <3>10, Zenon DEF InPlace
  <2> QED
    BY <2>3, <2>4
<1>6. Grouped(g, ids2, leaders)
  BY <1>3, <1>4, <1>5, Zenon DEF Grouped
<1> QED
  BY <1>6 DEF ids2

\* The names, with one more that is not among them yet.
LEMMA NamedAppended ==
  ASSUME NEW f, NEW g, NEW ids \in Seq(Nat), NEW names \in Seq(STRING), NEW id \in Nat,
         NEW name \in STRING, Named(f, ids, names), name \in Known, Len(names) < kMaxCounters,
         \A j \in DOMAIN names : names[j] # name,
         \A i \in DOMAIN ids : ids[i] \in DOMAIN f,
         \A fd \in DOMAIN f : g[fd].event = f[fd].event /\ g[fd].leader = f[fd].leader,
         g[id].event = name,
         g[id].leader = id \/ \E j \in DOMAIN ids : g[id].leader = ids[j]
  PROVE  Named(g, Append(ids, id), Append(names, name))
<1> DEFINE ids2 == Append(ids, id)
           names2 == Append(names, name)
<1>1. /\ Len(ids2) = Len(ids) + 1 /\ DOMAIN ids2 = DOMAIN ids \cup {Len(ids) + 1}
      /\ \A i \in DOMAIN ids : ids2[i] = ids[i]
      /\ ids2[Len(ids) + 1] = id /\ DOMAIN ids = 1 .. Len(ids) /\ Len(ids) \in Nat
  BY AppendFacts
<1>2. /\ Len(names2) = Len(names) + 1 /\ DOMAIN names2 = DOMAIN names \cup {Len(names) + 1}
      /\ \A i \in DOMAIN names : names2[i] = names[i]
      /\ names2[Len(names) + 1] = name /\ DOMAIN names = 1 .. Len(names) /\ Len(names) \in Nat
      /\ Len(names) + 1 \notin DOMAIN names
  BY AppendFacts
<1> HIDE DEF ids2, names2
<1>3. Named(g, ids, names)
  BY NamedSame, Zenon
<1>4. Len(names2) = Len(ids2) /\ Len(names2) <= kMaxCounters
  <2>1. Len(names) = Len(ids)
    BY Zenon DEF Named
  <2>2. kMaxCounters \in Nat
    BY PerfCountersAssumption
  <2> QED
    BY <1>1, <1>2, <2>1, <2>2
<1>5. ASSUME NEW i \in DOMAIN ids2
      PROVE  /\ g[ids2[i]].event = names2[i] /\ names2[i] \in Known
             /\ \E j \in DOMAIN ids2 : g[ids2[i]].leader = ids2[j]
  <2>1. Len(names) = Len(ids)
    BY Zenon DEF Named
  <2>2. CASE i = Len(ids) + 1
    <3>1. ids2[i] = id /\ names2[i] = name
      BY <1>1, <1>2, <2>1, <2>2
    <3>2. \E j \in DOMAIN ids2 : g[id].leader = ids2[j]
      BY <1>1, Zenon
    <3> QED
      BY <3>1, <3>2, Zenon
  <2>3. CASE i \in DOMAIN ids
    <3>1. i \in DOMAIN names
      BY <1>1, <1>2, <2>1, <2>3
    <3>2. ids2[i] = ids[i] /\ names2[i] = names[i]
      BY <1>1, <1>2, <2>3, <3>1, Zenon
    <3>3. /\ g[ids[i]].event = names[i] /\ names[i] \in Known
          /\ \E j \in DOMAIN ids : g[ids[i]].leader = ids[j]
      BY <1>3, <2>3, Zenon DEF Named
    <3> QED
      BY <1>1, <3>2, <3>3, Zenon
  <2> QED
    BY <1>1, <2>2, <2>3, Zenon
<1>6. \A i, j \in DOMAIN names2 : names2[i] = names2[j] => i = j
  <2>1. \A i, j \in DOMAIN names : names[i] = names[j] => i = j
    BY Zenon DEF Named
  <2> QED
    BY <1>2, <2>1
<1>7. Named(g, ids2, names2)
  BY <1>4, <1>5, <1>6, Zenon DEF Named
<1> QED
  BY <1>7 DEF ids2, names2

-----------------------------------------------------------------------------
\* The lists of an object, and room for a value of each of its descriptors.
LEMMA Lists ==
  ASSUME MeasuredInv
  PROVE  /\ new \in NewType /\ counters_ \in CountersType
         /\ new.names \in Seq(STRING) /\ new.ids \in Seq(Nat) /\ new.leaders \in Seq(Nat)
         /\ new.lead \in Nat /\ new.i \in Nat /\ new.group_id \in Nat
         /\ counters_.names \in Seq(STRING) /\ counters_.ids \in Seq(Nat)
         /\ counters_.leaders \in Seq(Nat)
<1>1. new \in NewType /\ counters_ \in CountersType
  BY Zenon DEF MeasuredInv, OwnedInv, Types
<1> QED
  BY <1>1 DEF NewType, CountersType

\* What the kernel notes of a descriptor.
LEMMA DescriptorFields ==
  ASSUME NEW d \in Descriptors
  PROVE  /\ d.event \in STRING /\ d.leader \in Nat /\ d.enabled \in BOOLEAN
         /\ d.count \in Nat /\ d.group \in Seq(Nat)
  BY DEF Descriptors

\* A descriptor that counts an event.
LEMMA DescriptorCounts ==
  ASSUME NEW d \in Descriptors
  PROVE  LET e == [d EXCEPT !.count = @ + 1]
         IN /\ e \in Descriptors /\ e.count = d.count + 1
            /\ e.event = d.event /\ e.leader = d.leader /\ e.enabled = d.enabled
            /\ e.group = d.group
  BY SMTT(30) DEF Descriptors

\* A leader that is enabled.
LEMMA DescriptorEnabled ==
  ASSUME NEW d \in Descriptors
  PROVE  LET e == [d EXCEPT !.enabled = TRUE]
         IN /\ e \in Descriptors /\ e.enabled
            /\ e.event = d.event /\ e.leader = d.leader /\ e.group = d.group
  BY DEF Descriptors

\* A leader that gets a member.
LEMMA DescriptorJoined ==
  ASSUME NEW d \in Descriptors, NEW group \in Seq(Nat)
  PROVE  LET e == [d EXCEPT !.group = group]
         IN /\ e \in Descriptors /\ e.group = group
            /\ e.event = d.event /\ e.leader = d.leader /\ e.enabled = d.enabled
  BY DEF Descriptors

\* An object keeps its groups and its names while the kernel keeps its descriptors.
LEMMA ConsistentKept ==
  ASSUME NEW object, Consistent(object),
         \A fd \in DOMAIN fds : /\ fd \in DOMAIN fds'
                                /\ fds'[fd].event = fds[fd].event
                                /\ fds'[fd].leader = fds[fd].leader
                                /\ fds'[fd].group = fds[fd].group
  PROVE  /\ Grouped(fds', object.ids, object.leaders)
         /\ Named(fds', object.ids, object.names)
<1>1. Grouped(fds, object.ids, object.leaders) /\ Named(fds, object.ids, object.names)
  BY Zenon DEF Consistent
<1>2. Grouped(fds', object.ids, object.leaders)
  BY <1>1, GroupedSame, Zenon
<1>3. \A i \in DOMAIN object.ids : object.ids[i] \in DOMAIN fds
  BY <1>1, Zenon DEF Grouped
<1>4. Named(fds', object.ids, object.names)
  BY <1>1, <1>3, NamedSame, Zenon
<1> QED
  BY <1>2, <1>4

\* An object without descriptors is consistent.
LEMMA NothingGrouped ==
  ASSUME NEW f
  PROVE  Grouped(f, << >>, << >>) /\ Named(f, << >>, << >>)
  BY PerfCountersAssumption DEF Grouped, Named

\* The fields of the empty objects.
LEMMA EmptyObjects ==
  /\ NewCreate.names = << >> /\ NewCreate.ids = << >> /\ NewCreate.leaders = << >>
  /\ NoCounters.names = << >> /\ NoCounters.ids = << >> /\ NoCounters.leaders = << >>
  /\ NewCreate.group_id = 0 /\ NewCreate.lead = 1 /\ NewCreate.i = 1
  BY DEF NewCreate, NoCounters

\* Create has not begun, or has ended.
LEMMA NotCreating ==
  ASSUME new' = NewCreate, pc' # "open"
  PROVE  Consistent(new)' /\ Creating'
<1>1. Consistent(new)'
  BY EmptyObjects, NothingGrouped, Zenon DEF Consistent
<1>2. Creating'
  BY EmptyObjects DEF Creating
<1> QED
  BY <1>1, <1>2

\* As long as Create is at work there is nothing to measure.
LEMMA NothingMeasured ==
  ASSUME MeasuredInv, pc \in {"none", "create", "open", "enable"},
         pc' \in {"none", "create", "open", "enable", "aborted"},
         UNCHANGED <<counters_, state_vars, read_vars>>
  PROVE  Consistent(counters_)' /\ Live' /\ ReadPlace' /\ AllMeasured'
<1>1. counters_ = NoCounters
  BY DEF MeasuredInv, OwnedInv, OneOwner
<1>2. Consistent(counters_)'
  BY <1>1, EmptyObjects, NothingGrouped, Zenon DEF Consistent
<1>3. Live'
  BY DEF MeasuredInv, Live, state_vars
<1>4. ReadPlace'
  BY DEF ReadPlace
<1>5. AllMeasured'
  <2>1. DOMAIN counters_'.names = {}
    BY <1>1, EmptyObjects
  <2> QED
    BY <2>1, Zenon DEF AllMeasured
<1> QED
  BY <1>2, <1>3, <1>4, <1>5

\* Before anything is built.
THEOREM MeasuredInitial == Init => MeasuredInv
<1> SUFFICES ASSUME Init
             PROVE  MeasuredInv
  OBVIOUS
<1>1. OwnedInv
  BY PerfCountersInitial
<1>2. /\ pc = "none" /\ fds = << >> /\ new = NewCreate /\ counters_ = NoCounters
      /\ counters = Zero /\ spent = [inside |-> Zero, around |-> Zero]
      /\ start_values_ = Unread /\ end_values_ = Unread /\ valid_read_ = TRUE
      /\ read = [lead |-> 1, offset |-> 0] /\ sections = 0
  BY DEF Init
<1>3. /\ Zero \in [Known -> Int] /\ Zero \in [Known -> Nat]
      /\ Unread \in [1 .. kMaxCounters -> Int]
  BY DEF Zero, Unread
<1>4. NumbersOK
  <2>1. fds \in [DOMAIN fds -> Descriptors]
    BY <1>2
  <2>2. spent \in [inside : [Known -> Nat], around : [Known -> Nat]]
    BY <1>2, <1>3
  <2>3. read \in [lead : Nat \ {0}, offset : Nat] /\ sections \in 0 .. MaxSections
    BY <1>2, PerfCountersAssumption
  <2> QED
    BY <1>2, <1>3, <2>1, <2>2, <2>3 DEF NumbersOK
<1>5. Consistent(new) /\ Consistent(counters_)
  BY <1>2, EmptyObjects, NothingGrouped, Zenon DEF Consistent
<1>6. Creating
  BY <1>2, EmptyObjects DEF Creating
<1>7. Live /\ ReadPlace
  BY <1>2 DEF Live, ReadPlace
<1>8. AllMeasured
  BY <1>2, EmptyObjects DEF AllMeasured
<1> QED
  BY <1>1, <1>4, <1>5, <1>6, <1>7, <1>8 DEF MeasuredInv

-----------------------------------------------------------------------------
\* The numbers do not change where nothing is counted.
LEMMA NumbersKept ==
  ASSUME NumbersOK, UNCHANGED <<state_vars, read_vars>>,
         fds' \in [DOMAIN fds' -> Descriptors],
         pc' \in {"none", "create", "open", "enable", "ready", "start", "timed", "stop",
                  "aborted"}
  PROVE  NumbersOK'
<1>1. UNCHANGED <<valid_read_, sections, start_values_, end_values_, counters, spent, read>>
  BY DEF state_vars, read_vars
<1> QED
  BY <1>1, Zenon DEF NumbersOK

\* The measurement is made, or not.
LEMMA ConstructMeasures ==
  ASSUME MeasuredInv, Construct
  PROVE  MeasuredInv'
<1>1. /\ new' = NewCreate /\ pc' # "open" /\ pc = "none" /\ pc' \in {"create", "aborted"}
      /\ UNCHANGED <<counters_, state_vars, read_vars, fds>>
  BY DEF MeasuredInv, OwnedInv, OneOwner, Construct, create_vars
<1>2. NumbersOK'
  BY <1>1, NumbersKept DEF MeasuredInv, NumbersOK
<1>3. OwnedInv'
  BY PerfCountersInductive DEF MeasuredInv, Next
<1> QED
  BY <1>1, <1>2, <1>3, NotCreating, NothingMeasured DEF MeasuredInv

\* Locals of Create change that have nothing to do with what is open.
LEMMA SameDescriptors ==
  ASSUME MeasuredInv, UNCHANGED fds, new'.names = new.names, new'.ids = new.ids,
         new'.leaders = new.leaders
  PROVE  /\ Consistent(new)'
         /\ new'.lead = new.lead =>
              \A i \in DOMAIN new'.ids :
                \/ fds'[new'.ids[i]].enabled
                \/ \E n \in DOMAIN new'.leaders :
                     new'.lead <= n /\ new'.leaders[n] = new'.ids[i]
<1>1. Consistent(new) /\ Creating
  BY Zenon DEF MeasuredInv
<1>2. Consistent(new)'
  BY <1>1, Zenon DEF Consistent
<1>3. ASSUME new'.lead = new.lead
      PROVE  \A i \in DOMAIN new'.ids :
                \/ fds'[new'.ids[i]].enabled
                \/ \E n \in DOMAIN new'.leaders :
                     new'.lead <= n /\ new'.leaders[n] = new'.ids[i]
  BY <1>1, <1>3, Zenon DEF Creating
<1> QED
  BY <1>2, <1>3

\* Names that were taken up stay behind the place where Create is.
LEMMA NamesBehind ==
  ASSUME MeasuredInv, new'.names = new.names, new'.i \in {new.i, new.i + 1},
         UNCHANGED counter_names
  PROVE  \A j \in DOMAIN new'.names : \E x \in 1 .. new'.i - 1 :
           x \in DOMAIN counter_names' /\ counter_names'[x] = new'.names[j]
<1>1. new.i \in Nat
  BY Lists
<1>2. \A x \in 1 .. new.i - 1 : x \in 1 .. new'.i - 1
  BY <1>1
<1>3. \A j \in DOMAIN new.names : \E x \in 1 .. new.i - 1 :
        x \in DOMAIN counter_names /\ counter_names[x] = new.names[j]
  BY Zenon DEF MeasuredInv, Creating
<1> QED
  BY <1>2, <1>3, Zenon

\* The next name is looked at.
LEMMA NextNameMeasures ==
  ASSUME MeasuredInv, NextName
  PROVE  MeasuredInv'
<1>1. /\ UNCHANGED <<counters_, state_vars, read_vars, fds, counter_names>>
      /\ pc = "create" /\ pc' \in {"create", "open", "enable"}
  BY DEF NextName, build
<1>2. /\ new'.names = new.names /\ new'.ids = new.ids /\ new'.leaders = new.leaders
      /\ new'.lead = new.lead /\ new'.group_id = new.group_id
      /\ new'.i \in {new.i, new.i + 1}
  BY Lists DEF NextName, NewType
<1>3. NumbersOK'
  BY <1>1, NumbersKept DEF MeasuredInv, NumbersOK
<1>4. OwnedInv'
  BY PerfCountersInductive DEF MeasuredInv, Next
<1>5. Consistent(new)'
  BY <1>1, <1>2, SameDescriptors
<1>6. Creating'
  <2>1. new'.group_id # 0 =>
          new'.leaders # << >> /\ new'.group_id = new'.leaders[Len(new'.leaders)]
    BY <1>2, Zenon DEF MeasuredInv, Creating
  <2>2. pc' \in {"create", "open"} => new'.lead = 1
    BY <1>1, <1>2 DEF MeasuredInv, Creating
  <2>3. \A j \in DOMAIN new'.names : \E x \in 1 .. new'.i - 1 :
          x \in DOMAIN counter_names' /\ counter_names'[x] = new'.names[j]
    BY <1>1, <1>2, NamesBehind
  <2>4. \A i \in DOMAIN new'.ids :
          \/ fds'[new'.ids[i]].enabled
          \/ \E n \in DOMAIN new'.leaders : new'.lead <= n /\ new'.leaders[n] = new'.ids[i]
    BY <1>1, <1>2, SameDescriptors
  <2>5. ASSUME pc' = "open"
        PROVE  /\ counter_names'[new'.i] \in Known
               /\ Len(new'.names) < kMaxCounters
               /\ new'.is_first => new'.group_id = 0
    <3>1. /\ ~(new.i > Len(counter_names) \/ Len(new.names) = kMaxCounters)
          /\ counter_names[new.i] \in Known
          /\ new' = [new EXCEPT !.is_first = (new.group_id = 0), !.retries = 0]
      BY <2>5 DEF NextName
    <3>2. new'.i = new.i /\ (new'.is_first => new'.group_id = 0)
      BY <3>1, Lists DEF NewType
    <3>3. Len(new.names) < kMaxCounters
      <4>1. Len(new.names) <= kMaxCounters
        BY Zenon DEF MeasuredInv, Consistent, Named
      <4>2. Len(new.names) \in Nat /\ kMaxCounters \in Nat
        BY Lists, PerfCountersAssumption
      <4> QED
        BY <3>1, <4>1, <4>2
    <3> QED
      BY <1>1, <1>2, <3>1, <3>2, <3>3, Zenon
  <2> QED
    BY <2>1, <2>2, <2>3, <2>4, <2>5, Zenon DEF Creating
<1>7. Consistent(counters_)' /\ Live' /\ ReadPlace' /\ AllMeasured'
  BY <1>1, NothingMeasured
<1> QED
  BY <1>3, <1>4, <1>5, <1>6, <1>7 DEF MeasuredInv

\* An open that did not succeed.
LEMMA NotOpenedMeasures ==
  ASSUME MeasuredInv, Open, Retry \/ Refused
  PROVE  MeasuredInv'
<1>1. /\ UNCHANGED <<counters_, state_vars, read_vars, fds, counter_names>>
      /\ pc = "open" /\ pc' \in {"create", "open"}
  BY DEF Open, Retry, Refused, build
<1>2. /\ new'.names = new.names /\ new'.ids = new.ids /\ new'.leaders = new.leaders
      /\ new'.lead = new.lead /\ new'.is_first = new.is_first
      /\ new'.group_id \in {0, new.group_id}
      /\ new'.i \in {new.i, new.i + 1}
      /\ pc' = "open" => new'.i = new.i
  BY <1>1, Lists DEF Retry, Refused, NewType
<1>3. NumbersOK'
  BY <1>1, NumbersKept DEF MeasuredInv, NumbersOK
<1>4. OwnedInv'
  BY PerfCountersInductive DEF MeasuredInv, Next
<1>5. Consistent(new)'
  BY <1>1, <1>2, SameDescriptors
<1>6. Creating'
  <2>1. new'.group_id # 0 =>
          new'.leaders # << >> /\ new'.group_id = new'.leaders[Len(new'.leaders)]
    BY <1>2 DEF MeasuredInv, Creating
  <2>2. pc' \in {"create", "open"} => new'.lead = 1
    BY <1>1, <1>2 DEF MeasuredInv, Creating
  <2>3. \A j \in DOMAIN new'.names : \E x \in 1 .. new'.i - 1 :
          x \in DOMAIN counter_names' /\ counter_names'[x] = new'.names[j]
    BY <1>1, <1>2, NamesBehind
  <2>4. \A i \in DOMAIN new'.ids :
          \/ fds'[new'.ids[i]].enabled
          \/ \E n \in DOMAIN new'.leaders : new'.lead <= n /\ new'.leaders[n] = new'.ids[i]
    BY <1>1, <1>2, SameDescriptors
  <2>5. ASSUME pc' = "open"
        PROVE  /\ counter_names'[new'.i] \in Known
               /\ Len(new'.names) < kMaxCounters
               /\ new'.is_first => new'.group_id = 0
    BY <1>1, <1>2, <2>5, Zenon DEF MeasuredInv, Creating
  <2> QED
    BY <2>1, <2>2, <2>3, <2>4, <2>5, Zenon DEF Creating
<1>7. Consistent(counters_)' /\ Live' /\ ReadPlace' /\ AllMeasured'
  BY <1>1, NothingMeasured
<1> QED
  BY <1>3, <1>4, <1>5, <1>6, <1>7 DEF MeasuredInv

\* A group is enabled, or Create gives up.
LEMMA EnableMeasures ==
  ASSUME MeasuredInv, Enable
  PROVE  MeasuredInv'
<1>1. /\ UNCHANGED <<counters_, state_vars, read_vars, counter_names>>
      /\ pc = "enable" /\ pc' = pc
  BY DEF Enable, build
<1>2. Consistent(counters_)' /\ Live' /\ ReadPlace' /\ AllMeasured'
  BY <1>1, NothingMeasured
<1>3. OwnedInv'
  BY PerfCountersInductive DEF MeasuredInv, Next
<1>4. fds \in [DOMAIN fds -> Descriptors]
  BY Zenon DEF MeasuredInv, NumbersOK
<1>5. CASE fds' = CloseAll(new) /\ new' = NewCreate
  <2>1. fds' \in [DOMAIN fds' -> Descriptors]
    BY <1>4, <1>5 DEF CloseAll, Closed
  <2>2. NumbersOK'
    BY <1>1, <2>1, NumbersKept DEF MeasuredInv
  <2>3. Consistent(new)' /\ Creating'
    BY <1>1, <1>5, NotCreating
  <2> QED
    BY <1>2, <1>3, <2>2, <2>3 DEF MeasuredInv
<1>6. CASE /\ fds' = [fds EXCEPT ![new.leaders[new.lead]].enabled = TRUE]
           /\ new' = [new EXCEPT !.lead = @ + 1]
  <2> DEFINE led == new.leaders[new.lead]
  <2>1. new.lead \in DOMAIN new.leaders /\ new.lead \in Nat
    BY Lists DEF Enable, NewType
  <2>2. led \in DOMAIN fds
    BY <2>1, Zenon DEF MeasuredInv, Consistent, Grouped
  <2>3. /\ fds' \in [DOMAIN fds -> Descriptors] /\ DOMAIN fds' = DOMAIN fds
        /\ \A fd \in DOMAIN fds : /\ fds'[fd].event = fds[fd].event
                                  /\ fds'[fd].leader = fds[fd].leader
                                  /\ fds'[fd].group = fds[fd].group
                                  /\ fd = led \/ fds[fd].enabled => fds'[fd].enabled
    <3>1. fds' = [fds EXCEPT ![led] = [fds[led] EXCEPT !.enabled = TRUE]]
      BY <1>6, Zenon
    <3> DEFINE e == [fds[led] EXCEPT !.enabled = TRUE]
    <3>2. fds[led] \in Descriptors
      BY <1>4, <2>2
    <3>3. /\ e \in Descriptors /\ e.enabled /\ e.event = fds[led].event
          /\ e.leader = fds[led].leader /\ e.group = fds[led].group
      BY <3>2, DescriptorEnabled, Zenon
    <3> HIDE DEF e, led
    <3>4. fds' = [fds EXCEPT ![led] = e]
      BY <3>1, Zenon DEF e
    <3>5. /\ DOMAIN fds' = DOMAIN fds /\ fds'[led] = e
          /\ \A fd \in DOMAIN fds : fd # led => fds'[fd] = fds[fd]
          /\ fds' \in [DOMAIN fds -> Descriptors]
      BY <1>4, <2>2, <3>3, <3>4
    <3>6. \A fd \in DOMAIN fds : fds'[fd] = IF fd = led THEN e ELSE fds[fd]
      BY <3>5, Zenon
    <3> QED
      BY <3>3, <3>5, <3>6, Zenon
  <2> HIDE DEF led
  <2>4. NumbersOK'
    BY <1>1, <2>3, NumbersKept DEF MeasuredInv
  <2>5. /\ new'.names = new.names /\ new'.ids = new.ids /\ new'.leaders = new.leaders
        /\ new'.lead = new.lead + 1 /\ new'.group_id = new.group_id /\ new'.i = new.i
    BY <1>6, Lists DEF NewType
  <2>6. Consistent(new)'
    <3>1. Consistent(new)
      BY Zenon DEF MeasuredInv
    <3>2. /\ Grouped(fds', new.ids, new.leaders)
          /\ Named(fds', new.ids, new.names)
      BY <2>3, <3>1, ConsistentKept
    <3> QED
      BY <2>5, <3>2, Zenon DEF Consistent
  <2>7. Creating'
    <3>1. new'.group_id # 0 =>
            new'.leaders # << >> /\ new'.group_id = new'.leaders[Len(new'.leaders)]
      BY <2>5, Zenon DEF MeasuredInv, Creating
    <3>2. \A j \in DOMAIN new'.names : \E x \in 1 .. new'.i - 1 :
            x \in DOMAIN counter_names' /\ counter_names'[x] = new'.names[j]
      BY <1>1, <2>5, NamesBehind
    <3>3. ASSUME NEW i \in DOMAIN new.ids
          PROVE  \/ fds'[new.ids[i]].enabled
                 \/ \E n \in DOMAIN new.leaders :
                      new.lead + 1 <= n /\ new.leaders[n] = new.ids[i]
      <4>1. new.ids[i] \in DOMAIN fds
        BY Zenon DEF MeasuredInv, Consistent, Grouped
      <4>2. CASE fds[new.ids[i]].enabled
        BY <2>3, <4>1, <4>2, Zenon
      <4>3. CASE \E n \in DOMAIN new.leaders : new.lead <= n /\ new.leaders[n] = new.ids[i]
        <5> PICK n \in DOMAIN new.leaders : new.lead <= n /\ new.leaders[n] = new.ids[i]
          BY <4>3
        <5>1. CASE n = new.lead
          BY <2>3, <4>1, <5>1, Zenon DEF led
        <5>2. CASE n # new.lead
          <6>1. n \in Nat
            BY Lists, SMTT(30)
          <6>2. new.lead + 1 <= n
            BY <2>1, <5>2, <6>1, SMTT(30)
          <6> QED
            BY <6>2
        <5> QED
          BY <5>1, <5>2
      <4> QED
        BY <4>2, <4>3, Zenon DEF MeasuredInv, Creating
    <3>4. pc' \notin {"create", "open"}
      BY <1>1
    <3> QED
      BY <2>5, <3>1, <3>2, <3>3, <3>4, Zenon DEF Creating
  <2> QED
    BY <1>2, <1>3, <2>4, <2>6, <2>7 DEF MeasuredInv
<1> QED
  BY <1>5, <1>6, Zenon DEF Enable

\* A descriptor stays what it was, but a leader may have got one more in its group.
JoinedAs(fd, id, leader) ==
  /\ fds'[fd].event = fds[fd].event /\ fds'[fd].leader = fds[fd].leader
  /\ fds'[fd].enabled = fds[fd].enabled
  /\ fd = leader => fds'[fd].group = Append(fds[fd].group, id)
  /\ fd # leader => fds'[fd].group = fds[fd].group

OpenedAs(id, leader, name) ==
  /\ id \in Nat /\ id \notin DOMAIN fds /\ leader \in Nat /\ name \in STRING
  /\ fds' \in [DOMAIN fds' -> Descriptors] /\ DOMAIN fds' = DOMAIN fds \cup {id}
  /\ fds'[id].event = name /\ fds'[id].leader = leader
  /\ new.is_first \/ fds'[id].enabled
  /\ fds'[id].group = IF id = leader THEN <<id>> ELSE << >>
  /\ \A fd \in DOMAIN fds : JoinedAs(fd, id, leader)

\* The new descriptor, and the others with the one that has joined a group.
LEMMA OpenedDescriptors ==
  ASSUME MeasuredInv, Open, Opened,
         NEW id, id = NextDescriptor,
         NEW leader, leader = IF new.group_id = 0 THEN id ELSE new.group_id,
         NEW name, name = counter_names[new.i]
  PROVE  OpenedAs(id, leader, name)
<1>1. id \in Nat /\ id \notin DOMAIN fds
  BY NextDescriptorIsFree DEF MeasuredInv, OwnedInv, Types
<1>2. leader \in Nat
  BY <1>1, Lists
<1>3. name \in STRING
  <2>1. counter_names \in Seq(STRING)
    BY PerfCountersAssumption DEF MeasuredInv, OwnedInv, Types
  <2>2. new.i \in 1 .. Len(counter_names)
    <3>1. new.i \in Nat \ {0}
      BY Lists DEF NewType
    <3> QED
      BY <2>1, <3>1 DEF MeasuredInv, OwnedInv, Types, Open
  <2> QED
    BY <2>1, <2>2
<1>4. new.is_first \in BOOLEAN
  BY Lists DEF NewType
<1> DEFINE d == Descriptor(name, id, leader)
<1>5. fds' = [fd \in DOMAIN fds \cup {id} |-> IF fd = id THEN d ELSE Joined(fd, id, leader)]
  BY Zenon DEF Opened
<1>6. /\ d \in Descriptors /\ d.event = name /\ d.leader = leader
      /\ d.enabled = ~new.is_first /\ d.group = IF id = leader THEN <<id>> ELSE << >>
  <2> DEFINE enabled == ~new.is_first
             group == IF id = leader THEN <<id>> ELSE << >>
  <2>1. d = [event |-> name, leader |-> leader, enabled |-> enabled, count |-> 0,
             group |-> group]
    BY Zenon DEF Descriptor
  <2>2. enabled \in BOOLEAN
    BY <1>4
  <2>3. group \in Seq(Nat)
    BY <1>1
  <2> HIDE DEF enabled, group, d
  <2>4. /\ d \in Descriptors /\ d.event = name /\ d.leader = leader
        /\ d.enabled = enabled /\ d.group = group
    BY <1>2, <1>3, <2>1, <2>2, <2>3, Zenon DEF Descriptors
  <2> QED
    BY <2>4, Zenon DEF enabled, group
<1> HIDE DEF d
<1>7. ASSUME NEW fd \in DOMAIN fds
      PROVE  /\ Joined(fd, id, leader) \in Descriptors
             /\ Joined(fd, id, leader).event = fds[fd].event
             /\ Joined(fd, id, leader).leader = fds[fd].leader
             /\ Joined(fd, id, leader).enabled = fds[fd].enabled
             /\ Joined(fd, id, leader).group = IF fd = leader THEN Append(fds[fd].group, id)
                                               ELSE fds[fd].group
  <2>1. fds[fd] \in Descriptors
    BY Zenon DEF MeasuredInv, NumbersOK
  <2> DEFINE group == Append(fds[fd].group, id)
             e == [fds[fd] EXCEPT !.group = group]
  <2>2. group \in Seq(Nat)
    BY <1>1, <2>1, DescriptorFields
  <2>3. /\ e \in Descriptors /\ e.group = group /\ e.event = fds[fd].event
        /\ e.leader = fds[fd].leader /\ e.enabled = fds[fd].enabled
    <3> HIDE DEF group
    <3> QED
      BY <2>1, <2>2, DescriptorJoined, Zenon
  <2>4. Joined(fd, id, leader) = IF fd = leader THEN e ELSE fds[fd]
    BY Zenon DEF Joined
  <2> HIDE DEF e
  <2>5. CASE fd = leader
    BY <2>3, <2>4, <2>5, Zenon
  <2>6. CASE fd # leader
    BY <2>1, <2>4, <2>6, Zenon
  <2> QED
    BY <2>5, <2>6
<1>8. /\ DOMAIN fds' = DOMAIN fds \cup {id} /\ fds'[id] = d
      /\ \A fd \in DOMAIN fds : fds'[fd] = Joined(fd, id, leader)
  BY <1>1, <1>5, Zenon
<1>9. fds' \in [DOMAIN fds' -> Descriptors]
  BY <1>5, <1>6, <1>7, Zenon
<1>10. ASSUME NEW fd \in DOMAIN fds
       PROVE  JoinedAs(fd, id, leader)
  <2> DEFINE joined == Joined(fd, id, leader)
  <2>1. fds'[fd] = joined
    BY <1>8, Zenon
  <2>2. /\ joined.event = fds[fd].event /\ joined.leader = fds[fd].leader
        /\ joined.enabled = fds[fd].enabled
        /\ joined.group = IF fd = leader THEN Append(fds[fd].group, id) ELSE fds[fd].group
    BY <1>7, Zenon
  <2> HIDE DEF joined
  <2>3. CASE fd = leader
    BY <2>1, <2>2, <2>3, Zenon DEF JoinedAs
  <2>4. CASE fd # leader
    BY <2>1, <2>2, <2>4, Zenon DEF JoinedAs
  <2> QED
    BY <2>3, <2>4
<1>11. /\ fds'[id].event = name /\ fds'[id].leader = leader
       /\ new.is_first \/ fds'[id].enabled
       /\ fds'[id].group = IF id = leader THEN <<id>> ELSE << >>
  BY <1>6, <1>8, Zenon
<1> QED
  BY <1>1, <1>2, <1>3, <1>8, <1>9, <1>10, <1>11, Zenon DEF OpenedAs

\* Names that were taken up before are other names.
LEMMA NameIsNew ==
  ASSUME MeasuredInv, pc = "open"
  PROVE  \A j \in DOMAIN new.names : new.names[j] # counter_names[new.i]
<1> SUFFICES ASSUME NEW j \in DOMAIN new.names
             PROVE  new.names[j] # counter_names[new.i]
  OBVIOUS
<1>1. PICK x \in 1 .. new.i - 1 :
        x \in DOMAIN counter_names /\ counter_names[x] = new.names[j]
  BY Zenon DEF MeasuredInv, Creating
<1>2. counter_names \in Requests /\ new.i <= Len(counter_names)
  BY DEF MeasuredInv, OwnedInv, Types
<1>3. counter_names \in Seq(STRING)
  BY <1>2, PerfCountersAssumption
<1>4. new.i \in DOMAIN counter_names /\ new.i # x
  <2>1. new.i \in Nat \ {0}
    BY Lists DEF NewType
  <2> QED
    BY <1>1, <1>2, <1>3, <2>1
<1>5. counter_names[new.i] \in Known
  BY Zenon DEF MeasuredInv, Creating
<1> QED
  BY <1>1, <1>2, <1>4, <1>5, PerfCountersAssumption

\* Create opens a descriptor, as a leader of its own or as one more of the last group.
LEMMA OpenedMeasures ==
  ASSUME MeasuredInv, Open, Opened
  PROVE  MeasuredInv'
<1> DEFINE id == NextDescriptor
           leader == IF new.group_id = 0 THEN id ELSE new.group_id
           name == counter_names[new.i]
           names == Append(new.names, name)
           ids == Append(new.ids, id)
           leaders == IF Leads(id, leader) THEN Append(new.leaders, id) ELSE new.leaders
<1>1. /\ UNCHANGED <<counters_, state_vars, read_vars, counter_names>>
      /\ pc = "open" /\ pc' = "create"
  BY DEF Open, Opened, build
<1>2. OpenedAs(id, leader, name)
  <2>1. /\ id = NextDescriptor /\ leader = IF new.group_id = 0 THEN id ELSE new.group_id
        /\ name = counter_names[new.i]
    OBVIOUS
  <2> HIDE DEF id, leader, name
  <2> QED
    BY <2>1, OpenedDescriptors, Zenon
<1>22. /\ id \in Nat /\ id \notin DOMAIN fds /\ leader \in Nat /\ name \in STRING
       /\ fds' \in [DOMAIN fds' -> Descriptors] /\ DOMAIN fds' = DOMAIN fds \cup {id}
       /\ fds'[id].event = name /\ fds'[id].leader = leader
       /\ new.is_first \/ fds'[id].enabled
       /\ fds'[id].group = IF id = leader THEN <<id>> ELSE << >>
       /\ \A fd \in DOMAIN fds :
            /\ fds'[fd].event = fds[fd].event /\ fds'[fd].leader = fds[fd].leader
            /\ fds'[fd].enabled = fds[fd].enabled
            /\ fd = leader => fds'[fd].group = Append(fds[fd].group, id)
            /\ fd # leader => fds'[fd].group = fds[fd].group
  BY <1>2, Zenon DEF OpenedAs, JoinedAs
<1>3. Consistent(counters_)' /\ Live' /\ ReadPlace' /\ AllMeasured'
  BY <1>1, NothingMeasured
<1>4. OwnedInv'
  BY PerfCountersInductive DEF MeasuredInv, Next
<1>5. NumbersOK'
  BY <1>1, <1>22, NumbersKept DEF MeasuredInv
<1>6. /\ new.names \in Seq(STRING) /\ new.ids \in Seq(Nat) /\ new.leaders \in Seq(Nat)
      /\ new.lead \in Nat /\ new.i \in Nat /\ new.group_id \in Nat
      /\ new.is_first \in BOOLEAN
  BY Lists DEF NewType
<1>7. /\ new'.names = names /\ new'.ids = ids /\ new'.leaders = leaders
      /\ new'.group_id = leader /\ new'.i = new.i + 1 /\ new'.lead = new.lead
  <2>1. new' = [new EXCEPT !.i = @ + 1, !.group_id = leader, !.names = names, !.ids = ids,
                           !.leaders = leaders]
    BY Zenon DEF Opened
  <2> HIDE DEF names, ids, leaders, leader
  <2> QED
    BY <2>1, Lists DEF NewType
<1>8. /\ Grouped(fds, new.ids, new.leaders) /\ Named(fds, new.ids, new.names)
  BY Zenon DEF MeasuredInv, Consistent
<1>9. /\ new.group_id # 0 =>
           new.leaders # << >> /\ new.group_id = new.leaders[Len(new.leaders)]
      /\ new.lead = 1 /\ name \in Known /\ Len(new.names) < kMaxCounters
      /\ new.is_first => new.group_id = 0
      /\ \A j \in DOMAIN new.names : \E x \in 1 .. new.i - 1 :
           x \in DOMAIN counter_names /\ counter_names[x] = new.names[j]
      /\ \A i \in DOMAIN new.ids :
           \/ fds[new.ids[i]].enabled
           \/ \E n \in DOMAIN new.leaders : new.lead <= n /\ new.leaders[n] = new.ids[i]
  BY <1>1, Zenon DEF MeasuredInv, Creating
<1>10. \A i \in DOMAIN new.ids : new.ids[i] \in DOMAIN fds
  BY <1>8, Zenon DEF Grouped
<1>11. \A n \in DOMAIN new.leaders : new.leaders[n] \in DOMAIN fds
  BY <1>8, Zenon DEF Grouped
<1>12. new.group_id # 0 =>
         leader = new.group_id /\ leader \in DOMAIN fds /\ leader # id
  <2> SUFFICES ASSUME new.group_id # 0
               PROVE  leader \in DOMAIN fds
    BY <1>22, Zenon
  <2>1. Len(new.leaders) \in DOMAIN new.leaders
    BY <1>6, <1>9
  <2> QED
    BY <1>9, <1>11, <2>1, Zenon
<1> HIDE DEF id, name
<1>13. /\ DOMAIN ids = DOMAIN new.ids \cup {Len(new.ids) + 1}
       /\ \A i \in DOMAIN new.ids : ids[i] = new.ids[i]
       /\ ids[Len(new.ids) + 1] = id
  BY <1>22, <1>6, AppendFacts, SMTT(30)
<1>14. /\ DOMAIN names = DOMAIN new.names \cup {Len(new.names) + 1}
       /\ \A i \in DOMAIN new.names : names[i] = new.names[i]
       /\ names[Len(new.names) + 1] = name
  BY <1>22, <1>6, AppendFacts
<1>15. Named(fds', ids, names)
  <2>1. fds'[id].leader = id \/ \E j \in DOMAIN new.ids : fds'[id].leader = new.ids[j]
    <3>1. CASE new.group_id = 0
      BY <1>22, <3>1, Zenon
    <3>2. CASE new.group_id # 0
      <4> DEFINE n == Len(new.leaders)
      <4>1. n \in DOMAIN new.leaders
        BY <1>6, <1>9, <3>2
      <4>2. InPlace(fds, new.ids, new.leaders, n)
        BY <1>8, <4>1, Zenon DEF Grouped
      <4>3. \E i \in DOMAIN new.ids :
              LET group == fds[new.leaders[n]].group
              IN /\ group # << >> /\ group[1] = new.leaders[n]
                 /\ \A k \in DOMAIN group : /\ i + k - 1 \in DOMAIN new.ids
                                           /\ new.ids[i + k - 1] = group[k]
        BY <4>2, Zenon DEF InPlace
      <4>4. fds[new.leaders[n]].group \in Seq(Nat)
        <5>1. fds[new.leaders[n]] \in Descriptors
          BY <1>11, <4>1, Zenon DEF MeasuredInv, NumbersOK
        <5> QED
          BY <5>1, DescriptorFields
      <4>5. fds[new.leaders[n]].group # << >> => 1 \in DOMAIN fds[new.leaders[n]].group
        <5> DEFINE group == fds[new.leaders[n]].group
        <5>1. group \in Seq(Nat)
          BY <4>4
        <5> HIDE DEF group
        <5>2. group # << >> => 1 \in DOMAIN group
          BY <5>1
        <5> QED
          BY <5>2 DEF group
      <4>6. \E j \in DOMAIN new.ids : new.ids[j] = new.leaders[n]
        BY <4>3, <4>5, Zenon
      <4> QED
        BY <1>22, <1>9, <1>12, <3>2, <4>6, Zenon
    <3> QED
      BY <3>1, <3>2
  <2>2. \A j \in DOMAIN new.names : new.names[j] # name
    BY <1>1, NameIsNew DEF name
  <2>3. \A fd \in DOMAIN fds : /\ fds'[fd].event = fds[fd].event
                               /\ fds'[fd].leader = fds[fd].leader
    BY <1>22, Zenon
  <2> QED
    BY <1>22, <1>6, <1>8, <1>9, <1>10, <2>1, <2>2, <2>3, NamedAppended,
       ZenonT(60)
<1> DEFINE Enabling ==
             \A i \in DOMAIN ids :
               \/ fds'[ids[i]].enabled
               \/ \E n \in DOMAIN leaders : new.lead <= n /\ leaders[n] = ids[i]
<1>16. ASSUME new.group_id = 0
       PROVE  /\ Grouped(fds', ids, leaders) /\ Enabling
              /\ leaders # << >> /\ leader = leaders[Len(leaders)]
  <2>1. leader = id /\ leaders = Append(new.leaders, id)
    BY <1>16, Zenon DEF Leads
  <2> HIDE DEF leader, leaders
  <2>2. \A fd \in DOMAIN fds : /\ fds'[fd].group = fds[fd].group
                               /\ fds'[fd].leader = fds[fd].leader
    BY <1>22, <2>1, Zenon
  <2>3. fds'[id].group = <<id>> /\ fds'[id].leader = id
    BY <1>22, <2>1, Zenon
  <2>4. Grouped(fds', ids, leaders)
    BY <1>22, <1>6, <1>8, <2>1, <2>2, <2>3, GroupStarted, Zenon
  <2>5. /\ leaders # << >> /\ leader = leaders[Len(leaders)]
        /\ DOMAIN leaders = DOMAIN new.leaders \cup {Len(new.leaders) + 1}
        /\ \A n \in DOMAIN new.leaders : leaders[n] = new.leaders[n]
        /\ leaders[Len(new.leaders) + 1] = id
    BY <1>22, <1>6, <2>1, AppendFacts, SMTT(30)
  <2> HIDE DEF ids
  <2>6. ASSUME NEW i \in DOMAIN ids
        PROVE  \/ fds'[ids[i]].enabled
               \/ \E n \in DOMAIN leaders : new.lead <= n /\ leaders[n] = ids[i]
    <3>1. CASE i \in DOMAIN new.ids
      <4>1. CASE fds[new.ids[i]].enabled
        BY <1>22, <1>10, <1>13, <3>1, <4>1, Zenon
      <4>2. CASE \E n \in DOMAIN new.leaders :
                   new.lead <= n /\ new.leaders[n] = new.ids[i]
        BY <1>13, <2>5, <3>1, <4>2, Zenon
      <4> QED
        BY <1>9, <3>1, <4>1, <4>2, Zenon
    <3>2. CASE i = Len(new.ids) + 1
      <4>1. new.lead <= Len(new.leaders) + 1
        BY <1>6, <1>9
      <4> QED
        BY <1>13, <2>5, <3>2, <4>1, Zenon
    <3> QED
      BY <1>13, <3>1, <3>2, Zenon
  <2> QED
    BY <2>4, <2>5, <2>6, Zenon
<1>17. ASSUME new.group_id # 0
       PROVE  /\ Grouped(fds', ids, leaders) /\ Enabling
              /\ leaders # << >> /\ leader = leaders[Len(leaders)]
  <2>1. /\ leader = new.group_id /\ leader # id /\ leader \in DOMAIN fds
        /\ leaders = new.leaders /\ ~new.is_first
    BY <1>9, <1>12, <1>17, Zenon DEF Leads
  <2> HIDE DEF leader, leaders
  <2>2. leaders # << >> /\ leader = leaders[Len(leaders)]
    BY <1>9, <1>17, <2>1, Zenon
  <2>3. fds[leader].group \in Seq(Nat)
    <3>1. fds[leader] \in Descriptors
      BY <2>1, Zenon DEF MeasuredInv, NumbersOK
    <3> QED
      BY <3>1, DescriptorFields
  <2>4. /\ fds'[leader].group = Append(fds[leader].group, id) /\ fds'[id].leader = leader
        /\ \A fd \in DOMAIN fds : /\ fd # leader => fds'[fd].group = fds[fd].group
                                  /\ fds'[fd].leader = fds[fd].leader
    BY <1>22, <2>1, Zenon
  <2>5. Grouped(fds, new.ids, leaders) /\ leaders \in Seq(Nat)
    BY <1>6, <1>8, <2>1, Zenon
  <2>6. Grouped(fds', ids, leaders)
    BY <1>22, <1>6, <2>2, <2>3, <2>4, <2>5, GroupJoined, Zenon
  <2>7. fds'[id].enabled
    BY <1>22, <2>1, Zenon
  <2> HIDE DEF ids
  <2>8. ASSUME NEW i \in DOMAIN ids
        PROVE  \/ fds'[ids[i]].enabled
               \/ \E n \in DOMAIN leaders : new.lead <= n /\ leaders[n] = ids[i]
    <3>1. CASE i \in DOMAIN new.ids
      <4>1. ids[i] = new.ids[i] /\ new.ids[i] \in DOMAIN fds
        BY <1>10, <1>13, <3>1, Zenon
      <4>2. CASE fds[new.ids[i]].enabled
        BY <1>22, <4>1, <4>2, Zenon
      <4>3. CASE \E n \in DOMAIN new.leaders :
                   new.lead <= n /\ new.leaders[n] = new.ids[i]
        BY <2>1, <4>1, <4>3, Zenon
      <4> QED
        BY <1>9, <3>1, <4>2, <4>3, Zenon
    <3>2. CASE i = Len(new.ids) + 1
      BY <1>13, <2>7, <3>2, Zenon
    <3> QED
      BY <1>13, <3>1, <3>2, Zenon
  <2> QED
    BY <2>2, <2>6, <2>8, Zenon
<1>18. /\ Grouped(fds', ids, leaders) /\ Enabling
       /\ leaders # << >> /\ leader = leaders[Len(leaders)]
  BY <1>16, <1>17, Zenon
<1> HIDE DEF ids, names, leaders, leader
<1>19. Consistent(new)'
  BY <1>7, <1>15, <1>18, Zenon DEF Consistent
<1>20. ASSUME NEW j \in DOMAIN names
       PROVE  \E x \in 1 .. new'.i - 1 :
                x \in DOMAIN counter_names /\ counter_names[x] = names[j]
  <2>1. new.i \in Nat \ {0} /\ new.i \in DOMAIN counter_names
    <3>1. new.i \in Nat \ {0}
      BY Lists DEF NewType
    <3>2. counter_names \in Seq(STRING) /\ new.i <= Len(counter_names)
      BY <1>1, PerfCountersAssumption DEF MeasuredInv, OwnedInv, Types
    <3> QED
      BY <3>1, <3>2
  <2>2. /\ \A x \in 1 .. new.i - 1 : x \in 1 .. new'.i - 1
        /\ new.i \in 1 .. new'.i - 1
    BY <1>7, <2>1
  <2>3. CASE j \in DOMAIN new.names
    BY <1>9, <1>14, <2>2, <2>3, Zenon
  <2>4. CASE j = Len(new.names) + 1
    BY <1>14, <2>1, <2>2, <2>4, Zenon DEF name
  <2> QED
    BY <1>14, <2>3, <2>4, Zenon
<1>21. Creating'
  <2>1. pc' # "open" /\ new'.lead = 1
    BY <1>1, <1>7, <1>9
  <2>2. \A i \in DOMAIN new'.ids :
          \/ fds'[new'.ids[i]].enabled
          \/ \E n \in DOMAIN new'.leaders : new'.lead <= n /\ new'.leaders[n] = new'.ids[i]
    BY <1>7, <1>18, Zenon
  <2>3. \A j \in DOMAIN new'.names : \E x \in 1 .. new'.i - 1 :
          x \in DOMAIN counter_names' /\ counter_names'[x] = new'.names[j]
    BY <1>1, <1>7, <1>20, Zenon
  <2>4. new'.leaders # << >> /\ new'.group_id = new'.leaders[Len(new'.leaders)]
    BY <1>7, <1>18, Zenon
  <2> QED
    BY <2>1, <2>2, <2>3, <2>4, Zenon DEF Creating
<1> QED
  BY <1>3, <1>4, <1>5, <1>19, <1>21 DEF MeasuredInv

\* The live object has what Create made; it is all enabled.
LEMMA AssignMeasures ==
  ASSUME MeasuredInv, Assign
  PROVE  MeasuredInv'
<1>1. /\ pc = "enable" /\ pc' = "ready" /\ new' = NewCreate
      /\ UNCHANGED <<state_vars, read_vars>>
      /\ counters_' = [names |-> new.names, ids |-> new.ids, leaders |-> new.leaders]
  BY DEF Assign
<1>2. OwnedInv'
  BY PerfCountersInductive DEF MeasuredInv, Next
<1>3. fds \in [DOMAIN fds -> Descriptors]
  BY Zenon DEF MeasuredInv, NumbersOK
<1>4. fds' = fds
  <2>1. counters_ = NoCounters
    BY <1>1 DEF MeasuredInv, OwnedInv, OneOwner
  <2>2. {NoCounters.ids[i] : i \in DOMAIN NoCounters.ids} = {}
    BY EmptyObjects
  <2>3. DOMAIN fds \ {NoCounters.ids[i] : i \in DOMAIN NoCounters.ids} = DOMAIN fds
    BY <2>2
  <2>4. fds' = Closed(NoCounters.ids)
    BY <2>1, Zenon DEF Assign
  <2>5. fds' = [fd \in DOMAIN fds |-> fds[fd]]
    BY <2>3, <2>4, Zenon DEF Closed
  <2> QED
    BY <1>3, <2>5
<1>5. NumbersOK'
  BY <1>1, <1>3, <1>4, NumbersKept DEF MeasuredInv
<1>6. Consistent(new)' /\ Creating'
  BY <1>1, NotCreating
<1>7. /\ counters_'.names = new.names /\ counters_'.ids = new.ids
      /\ counters_'.leaders = new.leaders
  BY <1>1
<1>8. Consistent(counters_)'
  BY <1>4, <1>7, Zenon DEF MeasuredInv, Consistent
<1>9. Live'
  <2>1. ASSUME NEW i \in DOMAIN new.ids
        PROVE  fds[new.ids[i]].enabled
    <3>1. \A n \in DOMAIN new.leaders : ~(new.lead <= n)
      BY Lists, SMTT(30) DEF Assign
    <3> QED
      BY <3>1, Zenon DEF MeasuredInv, Creating
  <2> QED
    BY <1>1, <1>4, <1>7, <2>1, Zenon DEF Live
<1>10. ReadPlace'
  BY <1>1 DEF ReadPlace
<1>11. ASSUME NEW i \in DOMAIN counters_'.names
       PROVE  Measured(i)'
  <2> DEFINE name == counters_'.names[i]
  <2>1. /\ name \in Known
    <3>1. DOMAIN new.names = DOMAIN new.ids
      BY Lists, SMTT(30) DEF MeasuredInv, Consistent, Named
    <3> QED
      BY <1>7, <3>1, Zenon DEF MeasuredInv, Consistent, Named
  <2>2. counters' = Zero /\ spent' = [inside |-> Zero, around |-> Zero]
    BY <1>1 DEF MeasuredInv, Live, state_vars
  <2>3. /\ counters'[name] = 0 /\ spent'.inside[name] = 0 /\ spent'.around[name] = 0
    <3> HIDE DEF name
    <3> QED
      BY <2>1, <2>2 DEF Zero
  <2>4. spent'.inside[name] <= counters'[name] /\ counters'[name] <= spent'.around[name]
    BY <2>3
  <2>5. Within(counters[counters_.names[i]], counters_.names[i])'
    BY <2>4 DEF Within
  <2> QED
    BY <1>1, <2>5 DEF Measured
<1>12. AllMeasured'
  BY <1>11, Zenon DEF AllMeasured
<1> QED
  BY <1>2, <1>5, <1>6, <1>8, <1>9, <1>10, <1>12 DEF MeasuredInv

\* Everything is as at the beginning.
LEMMA DestroyMeasures ==
  ASSUME MeasuredInv, Destroy
  PROVE  MeasuredInv'
<1>1. /\ pc' = "none" /\ new' = NewCreate /\ counters_' = NoCounters
      /\ counters' = Zero /\ spent' = [inside |-> Zero, around |-> Zero]
      /\ start_values_' = Unread /\ end_values_' = Unread /\ valid_read_' = TRUE
      /\ read' = [lead |-> 1, offset |-> 0] /\ sections' = 0
  BY DEF Destroy
<1>2. OwnedInv'
  BY PerfCountersInductive DEF MeasuredInv, Next
<1>3. NumbersOK'
  <2>1. fds' \in [DOMAIN fds' -> Descriptors]
    <3>1. fds \in [DOMAIN fds -> Descriptors]
      BY Zenon DEF MeasuredInv, NumbersOK
    <3> QED
      BY <3>1 DEF Destroy, Closed
  <2>2. /\ Zero \in [Known -> Int] /\ Zero \in [Known -> Nat]
        /\ Unread \in [1 .. kMaxCounters -> Int]
    BY DEF Zero, Unread
  <2>3. spent' \in [inside : [Known -> Nat], around : [Known -> Nat]]
    BY <1>1, <2>2
  <2>4. read' \in [lead : Nat \ {0}, offset : Nat] /\ sections' \in 0 .. MaxSections
    BY <1>1, PerfCountersAssumption
  <2> QED
    BY <1>1, <2>1, <2>2, <2>3, <2>4 DEF NumbersOK
<1>4. Consistent(new)' /\ Creating'
  BY <1>1, NotCreating
<1>5. Consistent(counters_)'
  BY <1>1, EmptyObjects, NothingGrouped, Zenon DEF Consistent
<1>6. Live' /\ ReadPlace'
  BY <1>1 DEF Live, ReadPlace
<1>7. AllMeasured'
  BY <1>1, EmptyObjects DEF AllMeasured
<1> QED
  BY <1>2, <1>3, <1>4, <1>5, <1>6, <1>7 DEF MeasuredInv

-----------------------------------------------------------------------------
\* What a user counter is made of.
LEMMA Amounts ==
  ASSUME MeasuredInv, NEW i \in DOMAIN counters_.names
  PROVE  /\ i \in DOMAIN counters_.ids /\ i \in 1 .. kMaxCounters /\ i \in Nat
         /\ counters_.ids[i] \in DOMAIN fds
         /\ counters_.names[i] \in Known
         /\ counters[counters_.names[i]] \in Int
         /\ spent.inside[counters_.names[i]] \in Nat
         /\ spent.around[counters_.names[i]] \in Nat
         /\ fds[counters_.ids[i]].count \in Nat
         /\ start_values_[i] \in Int /\ end_values_[i] \in Int
<1>1. Named(fds, counters_.ids, counters_.names)
  BY Zenon DEF MeasuredInv, Consistent
<1>2. DOMAIN counters_.names = DOMAIN counters_.ids
  BY <1>1, Lists DEF Named
<1>3. i \in 1 .. kMaxCounters /\ i \in Nat
  <2>1. i \in 1 .. Len(counters_.names) /\ Len(counters_.names) \in Nat
    BY Lists
  <2>2. Len(counters_.names) <= kMaxCounters /\ kMaxCounters \in Nat
    BY <1>1, PerfCountersAssumption, Zenon DEF Named
  <2> QED
    BY <2>1, <2>2
<1>4. counters_.names[i] \in Known
  BY <1>1, <1>2, Zenon DEF Named
<1>5. counters_.ids[i] \in DOMAIN fds
  BY <1>2, Zenon DEF MeasuredInv, Consistent, Grouped
<1>6. fds[counters_.ids[i]] \in Descriptors
  BY <1>5, Zenon DEF MeasuredInv, NumbersOK
<1>7. /\ start_values_[i] \in Int /\ end_values_[i] \in Int
      /\ counters[counters_.names[i]] \in Int
  BY <1>3, <1>4, Zenon DEF MeasuredInv, NumbersOK
<1>8. /\ spent.inside[counters_.names[i]] \in Nat
      /\ spent.around[counters_.names[i]] \in Nat
  <2>1. spent.inside \in [Known -> Nat] /\ spent.around \in [Known -> Nat]
    BY DEF MeasuredInv, NumbersOK
  <2> QED
    BY <1>4, <2>1, Zenon
<1> QED
  BY <1>2, <1>3, <1>4, <1>5, <1>6, <1>7, <1>8, DescriptorFields

\* The object under construction is empty while counters are measured.
LEMMA MeasuringIdle ==
  ASSUME MeasuredInv, pc \in {"ready", "start", "timed", "stop"}, UNCHANGED new, pc' # "open"
  PROVE  Consistent(new)' /\ Creating'
<1>1. new' = NewCreate
  BY DEF MeasuredInv, OwnedInv, OneOwner
<1> QED
  BY <1>1, NotCreating

\* Steps of the measurement that leave the kernel alone.
LEMMA MeasuringSame ==
  ASSUME MeasuredInv, pc \in {"ready", "start", "timed", "stop"},
         pc' \in {"ready", "start", "timed", "stop", "aborted"},
         UNCHANGED <<new, fds, counters_>>
  PROVE  /\ Consistent(new)' /\ Creating' /\ Consistent(counters_)'
         /\ Live'
<1>1. Consistent(new)' /\ Creating'
  BY MeasuringIdle
<1>2. Consistent(counters_)'
  BY Zenon DEF MeasuredInv, Consistent
<1>3. Live'
  BY DEF MeasuredInv, Live
<1> QED
  BY <1>1, <1>2, <1>3

\* Read begins with the first group.
LEMMA ReadBegins ==
  ASSUME MeasuredInv, UNCHANGED counters_, read' = [lead |-> 1, offset |-> 0],
         num_counters # 0
  PROVE  ReadPlace'
<1>1. /\ counters_.ids \in Seq(Nat) /\ counters_.leaders \in Seq(Nat)
      /\ counters_.names \in Seq(STRING)
  BY Lists
<1>2. /\ Grouped(fds, counters_.ids, counters_.leaders)
      /\ Len(counters_.names) = Len(counters_.ids)
  BY Zenon DEF MeasuredInv, Consistent, Named
<1>3. counters_.ids # << >> /\ counters_.leaders # << >>
  <2>1. counters_.ids # << >>
    BY <1>1, <1>2 DEF num_counters
  <2> QED
    BY <1>2, <2>1, Zenon DEF Grouped
<1>4. 1 \in DOMAIN counters_.leaders /\ Len(counters_.leaders) \in Nat
      /\ Len(counters_.leaders) > 0
  BY <1>1, <1>3
<1>5. 1 \in DOMAIN counters_.ids /\ counters_.ids[1] = counters_.leaders[1]
  <2> DEFINE group == fds[counters_.leaders[1]].group
  <2>1. InPlace(fds, counters_.ids, counters_.leaders, 1)
    BY <1>2, <1>4, Zenon DEF Grouped
  <2>2. /\ group # << >> /\ group[1] = counters_.leaders[1]
        /\ \A k \in DOMAIN group : /\ 1 + k - 1 \in DOMAIN counters_.ids
                                  /\ counters_.ids[1 + k - 1] = group[k]
    BY <2>1, Zenon DEF InPlace
  <2>3. group \in Seq(Nat)
    <3>1. counters_.leaders[1] \in DOMAIN fds
      BY <1>2, <1>4, Zenon DEF Grouped
    <3>2. fds[counters_.leaders[1]] \in Descriptors
      BY <3>1, Zenon DEF MeasuredInv, NumbersOK
    <3> QED
      BY <3>2, DescriptorFields
  <2> HIDE DEF group
  <2>4. 1 \in DOMAIN group
    BY <2>2, <2>3
  <2>5. /\ 1 + 1 - 1 \in DOMAIN counters_.ids
        /\ counters_.ids[1 + 1 - 1] = counters_.leaders[1]
    BY <2>2, <2>4, Zenon
  <2>6. 1 + 1 - 1 = 1
    OBVIOUS
  <2> QED
    BY <2>5, <2>6
<1>6. read'.lead = 1 /\ read'.offset + 1 = 1
  OBVIOUS
<1> QED
  BY <1>3, <1>4, <1>5, <1>6 DEF ReadPlace

\* Timing is resumed.
LEMMA StartMeasures ==
  ASSUME MeasuredInv, Start
  PROVE  MeasuredInv'
<1>1. /\ pc = "ready" /\ pc' = IF num_counters = 0 THEN "timed" ELSE "start"
      /\ UNCHANGED <<new, fds, counters_, start_values_, end_values_, valid_read_, counters,
                     spent>>
      /\ read' = [lead |-> 1, offset |-> 0]
      /\ sections' = sections + 1 /\ sections < MaxSections
  BY DEF Start, create_vars
<1>2. OwnedInv'
  BY PerfCountersInductive DEF MeasuredInv, Next
<1>3. NumbersOK'
  <2>1. sections' \in 0 .. MaxSections
    BY <1>1, PerfCountersAssumption DEF MeasuredInv, NumbersOK
  <2>2. read' \in [lead : Nat \ {0}, offset : Nat]
    BY <1>1
  <2>3. pc' \in {"timed", "start"}
    BY <1>1
  <2> QED
    BY <1>1, <2>1, <2>2, <2>3 DEF MeasuredInv, NumbersOK
<1>4. Consistent(new)' /\ Creating' /\ Consistent(counters_)' /\ Live'
  BY <1>1, MeasuringSame
<1>5. ReadPlace'
  <2>1. CASE num_counters = 0
    BY <1>1, <2>1 DEF ReadPlace
  <2>2. CASE num_counters # 0
    BY <1>1, <2>2, ReadBegins
  <2> QED
    BY <2>1, <2>2
<1>6. ASSUME valid_read_, NEW i \in DOMAIN counters_.names
      PROVE  Measured(i)'
  <2>1. Within(counters[counters_.names[i]], counters_.names[i])
    BY <1>1, <1>6, Zenon DEF MeasuredInv, AllMeasured, Measured
  <2>2. pc' = "start"
    <3>1. num_counters # 0
      BY Lists DEF num_counters
    <3> QED
      BY <1>1, <3>1
  <2>3. ~(i <= read'.offset)
    BY <1>1, Amounts
  <2>4. Within(counters[counters_.names[i]], counters_.names[i])'
    BY <1>1, <2>1, Zenon DEF Within
  <2> QED
    BY <2>2, <2>3, <2>4 DEF Measured
<1>7. AllMeasured'
  BY <1>1, <1>6, Zenon DEF AllMeasured
<1> QED
  BY <1>2, <1>3, <1>4, <1>5, <1>7 DEF MeasuredInv

\* Timing is paused.
LEMMA StopMeasures ==
  ASSUME MeasuredInv, Stop
  PROVE  MeasuredInv'
<1>1. /\ pc = "timed" /\ pc' = IF num_counters = 0 THEN "ready" ELSE "stop"
      /\ UNCHANGED <<new, fds, counters_, start_values_, end_values_, valid_read_, counters,
                     spent, sections>>
      /\ read' = [lead |-> 1, offset |-> 0]
  BY DEF Stop, create_vars, state_vars
<1>2. OwnedInv'
  BY PerfCountersInductive DEF MeasuredInv, Next
<1>3. NumbersOK'
  <2>1. read' \in [lead : Nat \ {0}, offset : Nat]
    BY <1>1
  <2>2. pc' \in {"ready", "stop"}
    BY <1>1
  <2> QED
    BY <1>1, <2>1, <2>2 DEF MeasuredInv, NumbersOK
<1>4. Consistent(new)' /\ Creating' /\ Consistent(counters_)' /\ Live'
  BY <1>1, MeasuringSame
<1>5. ReadPlace'
  <2>1. CASE num_counters = 0
    BY <1>1, <2>1 DEF ReadPlace
  <2>2. CASE num_counters # 0
    BY <1>1, <2>2, ReadBegins
  <2> QED
    BY <2>1, <2>2
<1>6. ASSUME valid_read_, NEW i \in DOMAIN counters_.names
      PROVE  Measured(i)'
  <2> DEFINE name == counters_.names[i]
             value == counters[name] + (fds[counters_.ids[i]].count - start_values_[i])
  <2>1. Within(value, name)
    BY <1>1, <1>6, Zenon DEF MeasuredInv, AllMeasured, Measured
  <2>2. pc' = "stop"
    <3>1. num_counters # 0
      BY Lists DEF num_counters
    <3> QED
      BY <1>1, <3>1
  <2>3. ~(i <= read'.offset)
    BY <1>1, Amounts
  <2>4. Within(value, name)'
    BY <1>1, <2>1, Zenon DEF Within
  <2> QED
    BY <2>2, <2>3, <2>4 DEF Measured
<1>7. AllMeasured'
  BY <1>1, <1>6, Zenon DEF AllMeasured
<1> QED
  BY <1>2, <1>3, <1>4, <1>5, <1>7 DEF MeasuredInv

-----------------------------------------------------------------------------
\* A group that Read comes to is next in ids, and is as long as the ids it passes.
LEMMA GroupRead ==
  ASSUME MeasuredInv, pc \in {"start", "stop"}, read.lead <= Len(counters_.leaders),
         NEW group, group = Members(counters_.leaders[read.lead])
  PROVE  /\ group \in Seq(Nat) /\ group # << >>
         /\ \A k \in DOMAIN group : /\ read.offset + k \in DOMAIN counters_.ids
                                    /\ counters_.ids[read.offset + k] = group[k]
         /\ read.offset + Len(group) <= Len(counters_.ids)
         /\ IF read.lead = Len(counters_.leaders)
              THEN read.offset + Len(group) = Len(counters_.ids)
            ELSE /\ read.offset + Len(group) + 1 \in DOMAIN counters_.ids
                 /\ counters_.ids[read.offset + Len(group) + 1] = counters_.leaders[read.lead + 1]
<1> DEFINE ids == counters_.ids
           leaders == counters_.leaders
           lead == read.lead
           offset == read.offset
<1>1. ids \in Seq(Nat) /\ leaders \in Seq(Nat) /\ DOMAIN ids = 1 .. Len(ids) /\ Len(ids) \in Nat
  BY Lists
<1>2. lead \in Nat \ {0} /\ offset \in Nat
  BY DEF MeasuredInv, NumbersOK
<1>3. lead \in DOMAIN leaders
  BY <1>1, <1>2
<1>4. offset + 1 \in DOMAIN ids /\ ids[offset + 1] = leaders[lead]
  <2>1. lead # Len(leaders) + 1
    BY <1>1, <1>2
  <2> QED
    BY <2>1, Zenon DEF MeasuredInv, ReadPlace
<1>5. Grouped(fds, ids, leaders)
  BY Zenon DEF MeasuredInv, Consistent
<1>6. InPlace(fds, ids, leaders, lead)
  BY <1>3, <1>5, Zenon DEF Grouped
<1>7. fds[leaders[lead]].group = group
  BY DEF Members
<1>8. group \in Seq(Nat)
  <2>1. leaders[lead] \in DOMAIN fds
    BY <1>3, <1>5, Zenon DEF Grouped
  <2>2. fds[leaders[lead]] \in Descriptors
    BY <2>1, Zenon DEF MeasuredInv, NumbersOK
  <2> QED
    BY <1>7, <2>2, DescriptorFields
<1>9. PICK i \in DOMAIN ids :
        /\ group # << >> /\ group[1] = leaders[lead]
        /\ \A k \in DOMAIN group : i + k - 1 \in DOMAIN ids /\ ids[i + k - 1] = group[k]
        /\ IF lead = Len(leaders) THEN i + Len(group) = Len(ids) + 1
           ELSE i + Len(group) \in DOMAIN ids /\ ids[i + Len(group)] = leaders[lead + 1]
  <2> HIDE DEF ids, leaders, lead
  <2> QED
    BY <1>6, <1>7, Zenon DEF InPlace
<1>10. \A x, y \in DOMAIN ids : ids[x] = ids[y] => x = y
  BY <1>5, Zenon DEF Grouped
<1> HIDE DEF ids, leaders, lead, offset
<1>11. 1 \in DOMAIN group /\ DOMAIN group = 1 .. Len(group) /\ Len(group) \in Nat
  BY <1>8, <1>9
<1>12. i = offset + 1
  <2>1. i + 1 - 1 \in DOMAIN ids /\ ids[i + 1 - 1] = group[1]
    BY <1>9, <1>11, Zenon
  <2>2. i + 1 - 1 = i
    BY <1>1
  <2>3. ids[i] = ids[offset + 1]
    BY <1>4, <1>9, <2>1, <2>2
  <2> QED
    BY <1>4, <1>10, <2>3, Zenon
<1>13. ASSUME NEW k \in DOMAIN group
       PROVE  offset + k \in DOMAIN ids /\ ids[offset + k] = group[k]
  <2>1. i + k - 1 \in DOMAIN ids /\ ids[i + k - 1] = group[k]
    BY <1>9, Zenon
  <2>2. i + k - 1 = offset + k
    BY <1>2, <1>11, <1>12
  <2> QED
    BY <2>1, <2>2
<1>14. i + Len(group) = offset + Len(group) + 1
  BY <1>2, <1>11, <1>12
<1>15. offset + Len(group) <= Len(ids)
  <2>1. Len(group) \in DOMAIN group
    BY <1>11
  <2> QED
    BY <1>1, <1>13, <2>1
<1>16. IF lead = Len(leaders) THEN offset + Len(group) = Len(ids)
       ELSE /\ offset + Len(group) + 1 \in DOMAIN ids
            /\ ids[offset + Len(group) + 1] = leaders[lead + 1]
  <2>1. CASE lead = Len(leaders)
    <3>1. i + Len(group) = Len(ids) + 1
      BY <1>9, <2>1, Zenon
    <3>2. offset \in Nat /\ Len(group) \in Nat /\ Len(ids) \in Nat
      BY <1>1, <1>2, <1>11, Zenon
    <3>3. offset + Len(group) + 1 = Len(ids) + 1
      BY <1>14, <3>1, Zenon
    <3>4. offset + Len(group) = Len(ids)
      BY <3>2, <3>3
    <3> QED
      BY <2>1, <3>4, Zenon
  <2>2. CASE lead # Len(leaders)
    <3>1. i + Len(group) \in DOMAIN ids /\ ids[i + Len(group)] = leaders[lead + 1]
      BY <1>9, <2>2, Zenon
    <3> QED
      BY <1>14, <2>2, <3>1
  <2> QED
    BY <2>1, <2>2
<1> QED
  BY <1>8, <1>9, <1>13, <1>15, <1>16, Zenon DEF ids, leaders, lead, offset

\* The counts of a group go right behind what has been read; what was there stays.
LEMMA Relocating ==
  ASSUME NEW values \in [1 .. kMaxCounters -> Int], NEW counts, NEW size \in Nat,
         DOMAIN counts = 1 .. size, \A k \in DOMAIN counts : counts[k] \in Int,
         read.offset \in Nat
  PROVE  /\ Relocated(values, counts) \in [1 .. kMaxCounters -> Int]
         /\ \A i \in 1 .. kMaxCounters :
              /\ i <= read.offset => Relocated(values, counts)[i] = values[i]
              /\ read.offset < i /\ i <= read.offset + size =>
                   /\ i - read.offset \in DOMAIN counts
                   /\ Relocated(values, counts)[i] = counts[i - read.offset]
<1>1. Relocated(values, counts)
        = [i \in 1 .. kMaxCounters |-> IF i - read.offset \in DOMAIN counts
                                         THEN counts[i - read.offset] ELSE values[i]]
  BY DEF Relocated
<1>2. kMaxCounters \in Nat
  BY PerfCountersAssumption
<1> QED
  BY <1>1, <1>2

\* The counts of the next user counters have been put behind what was read before.
AreRead(result, values, size) ==
  /\ result \in [1 .. kMaxCounters -> Int]
  /\ \A i \in DOMAIN counters_.names :
       /\ i <= read.offset => result[i] = values[i]
       /\ read.offset < i /\ i <= read.offset + size =>
            result[i] = fds[counters_.ids[i]].count

\* What the values read are, after the next group.
LEMMA GroupValues ==
  ASSUME MeasuredInv, pc \in {"start", "stop"}, read.lead <= Len(counters_.leaders),
         NEW group, group = Members(counters_.leaders[read.lead]),
         NEW values \in [1 .. kMaxCounters -> Int], NEW counts,
         DOMAIN counts = DOMAIN group,
         \A k \in DOMAIN group : counts[k] = fds[group[k]].count
  PROVE  AreRead(Relocated(values, counts), values, Len(group))
<1>1. /\ group \in Seq(Nat)
      /\ \A k \in DOMAIN group : /\ read.offset + k \in DOMAIN counters_.ids
                                 /\ counters_.ids[read.offset + k] = group[k]
  BY GroupRead
<1>2. DOMAIN counts = 1 .. Len(group) /\ Len(group) \in Nat /\ DOMAIN group = 1 .. Len(group)
  BY <1>1
<1>3. read.offset \in Nat
  BY DEF MeasuredInv, NumbersOK
<1>4. ASSUME NEW k \in DOMAIN counts
      PROVE  counts[k] \in Int
  <2>1. k \in DOMAIN group
    BY <1>2, <1>4
  <2>2. group[k] \in DOMAIN fds
    <3>1. Grouped(fds, counters_.ids, counters_.leaders)
      BY Zenon DEF MeasuredInv, Consistent
    <3>2. counters_.ids[read.offset + k] \in DOMAIN fds
      BY <1>1, <2>1, <3>1, Zenon DEF Grouped
    <3> QED
      BY <1>1, <2>1, <3>2, Zenon
  <2>3. fds[group[k]] \in Descriptors
    BY <2>2, Zenon DEF MeasuredInv, NumbersOK
  <2>4. fds[group[k]].count \in Int
    BY <2>3, DescriptorFields
  <2> QED
    BY <2>1, <2>4, Zenon
<1>5. /\ Relocated(values, counts) \in [1 .. kMaxCounters -> Int]
      /\ \A i \in 1 .. kMaxCounters :
           /\ i <= read.offset => Relocated(values, counts)[i] = values[i]
           /\ read.offset < i /\ i <= read.offset + Len(group) =>
                /\ i - read.offset \in DOMAIN counts
                /\ Relocated(values, counts)[i] = counts[i - read.offset]
  BY <1>2, <1>3, <1>4, Relocating, ZenonT(60)
<1>6. ASSUME NEW i \in DOMAIN counters_.names, read.offset < i, i <= read.offset + Len(group)
      PROVE  Relocated(values, counts)[i] = fds[counters_.ids[i]].count
  <2>1. i \in 1 .. kMaxCounters /\ i \in Nat
    BY Amounts
  <2>2. /\ i - read.offset \in DOMAIN counts
        /\ Relocated(values, counts)[i] = counts[i - read.offset]
    BY <1>5, <1>6, <2>1, Zenon
  <2>3. i - read.offset \in DOMAIN group
    BY <1>2, <2>2
  <2>4. counts[i - read.offset] = fds[group[i - read.offset]].count
    BY <2>3, Zenon
  <2>5. counters_.ids[read.offset + (i - read.offset)] = group[i - read.offset]
    BY <1>1, <2>3, Zenon
  <2>6. read.offset + (i - read.offset) = i
    BY <1>3, <2>1
  <2> QED
    BY <2>2, <2>4, <2>5, <2>6
<1>7. \A i \in DOMAIN counters_.names : i \in 1 .. kMaxCounters
  BY Amounts
<1> QED
  BY <1>5, <1>6, <1>7, Zenon DEF AreRead

\* Both ends of a section: a value read now is the count itself.
LEMMA ReadGroupMeasures ==
  ASSUME MeasuredInv, ReadGroup
  PROVE  MeasuredInv'
<1> DEFINE leader == counters_.leaders[read.lead]
           group  == Members(leader)
           counts == [k \in DOMAIN group |-> fds[group[k]].count]
<1>1. /\ pc \in {"start", "stop"} /\ pc' = pc /\ read.lead <= Len(counters_.leaders)
      /\ UNCHANGED <<new, fds, counters_, valid_read_, counters, spent, sections>>
      /\ read' = [lead |-> read.lead + 1, offset |-> read.offset + Len(group)]
      /\ pc = "start" => /\ start_values_' = Relocated(start_values_, counts)
                         /\ UNCHANGED end_values_
      /\ pc = "stop" => /\ end_values_' = Relocated(end_values_, counts)
                        /\ UNCHANGED start_values_
  BY DEF ReadGroup, create_vars, state_vars
<1>2. OwnedInv'
  BY PerfCountersInductive DEF MeasuredInv, Next
<1>3. /\ group \in Seq(Nat) /\ group # << >>
      /\ IF read.lead = Len(counters_.leaders)
           THEN read.offset + Len(group) = Len(counters_.ids)
         ELSE /\ read.offset + Len(group) + 1 \in DOMAIN counters_.ids
              /\ counters_.ids[read.offset + Len(group) + 1] = counters_.leaders[read.lead + 1]
  <2> HIDE DEF group
  <2>1. group = Members(counters_.leaders[read.lead])
    BY DEF group
  <2> QED
    BY <1>1, <2>1, GroupRead
<1>4. /\ start_values_ \in [1 .. kMaxCounters -> Int]
      /\ end_values_ \in [1 .. kMaxCounters -> Int]
      /\ read.lead \in Nat \ {0} /\ read.offset \in Nat
  BY DEF MeasuredInv, NumbersOK
<1>5. ASSUME NEW values \in [1 .. kMaxCounters -> Int]
      PROVE  AreRead(Relocated(values, counts), values, Len(group))
  <2> HIDE DEF group, counts
  <2>1. group = Members(counters_.leaders[read.lead])
    BY DEF group
  <2>2. /\ DOMAIN counts = DOMAIN group
        /\ \A k \in DOMAIN group : counts[k] = fds[group[k]].count
    BY DEF counts
  <2>3. pc \in {"start", "stop"} /\ read.lead <= Len(counters_.leaders)
    BY <1>1
  <2>4. values \in [1 .. kMaxCounters -> Int]
    BY <1>5
  <2> QED
    BY <2>1, <2>2, <2>3, <2>4, GroupValues, Zenon
<1> HIDE DEF group, counts
<1>6. Len(group) \in Nat /\ read'.offset = read.offset + Len(group) /\ read'.lead = read.lead + 1
  BY <1>1, <1>3
<1>7. NumbersOK'
  <2>1. read' \in [lead : Nat \ {0}, offset : Nat]
    BY <1>1, <1>4, <1>6
  <2>2. /\ start_values_' \in [1 .. kMaxCounters -> Int]
        /\ end_values_' \in [1 .. kMaxCounters -> Int]
    BY <1>1, <1>4, <1>5, Zenon DEF AreRead
  <2> QED
    BY <1>1, <2>1, <2>2 DEF MeasuredInv, NumbersOK
<1>8. Consistent(new)' /\ Creating' /\ Consistent(counters_)' /\ Live'
  BY <1>1, MeasuringSame
<1>9. ReadPlace'
  <2>1. Len(counters_.leaders) \in Nat /\ counters_.ids # << >>
    BY <1>1, Lists DEF MeasuredInv, ReadPlace
  <2>2. /\ counters_.ids # << >> /\ read'.lead <= Len(counters_.leaders) + 1
        /\ IF read'.lead = Len(counters_.leaders) + 1 THEN read'.offset = Len(counters_.ids)
           ELSE /\ read'.offset + 1 \in DOMAIN counters_.ids
                /\ counters_.ids[read'.offset + 1] = counters_.leaders[read'.lead]
    <3>1. CASE read.lead = Len(counters_.leaders)
      BY <1>1, <1>3, <1>4, <1>6, <2>1, <3>1
    <3>2. CASE read.lead # Len(counters_.leaders)
      BY <1>1, <1>3, <1>4, <1>6, <2>1, <3>2
    <3> QED
      BY <3>1, <3>2
  <2> QED
    BY <1>1, <2>2 DEF ReadPlace
<1>10. ASSUME valid_read_, NEW i \in DOMAIN counters_.names
       PROVE  Measured(i)'
  <2> DEFINE name  == counters_.names[i]
             count == fds[counters_.ids[i]].count
             begin == start_values_[i]
             end   == end_values_[i]
  <2>1. /\ pc = "start" => Within(counters[name], name)
        /\ pc = "start" /\ i <= read.offset =>
             begin <= count /\ Within(counters[name] + (count - begin), name)
        /\ pc = "stop" /\ i > read.offset => Within(counters[name] + (count - begin), name)
        /\ pc = "stop" /\ i <= read.offset => Within(counters[name] + (end - begin), name)
    BY <1>10, Zenon DEF MeasuredInv, AllMeasured, Measured
  <2>2. /\ i \in Nat /\ count \in Nat /\ begin \in Int /\ end \in Int /\ counters[name] \in Int
    BY Amounts
  <2>3. /\ i <= read.offset => (i <= read'.offset)
        /\ i <= read'.offset /\ ~(i <= read.offset) =>
             read.offset < i /\ i <= read.offset + Len(group)
        /\ ~(i <= read'.offset) => i > read.offset
        /\ i > read'.offset => ~(i <= read'.offset)
    BY <1>4, <1>6, <2>2
  <2>4. \A value \in Int : Within(value, name)' <=> Within(value, name)
    BY <1>1, Zenon DEF Within
  <2>5. counters[name] + (count - count) = counters[name] /\ count <= count
    BY <2>2
  <2>6. CASE pc = "start"
    <3>1. end_values_' = end_values_ /\ start_values_' = Relocated(start_values_, counts)
      BY <1>1, <2>6
    <3>2. i <= read.offset => start_values_'[i] = begin
      BY <1>4, <1>5, <3>1 DEF AreRead
    <3>3. i <= read'.offset /\ ~(i <= read.offset) => start_values_'[i] = count
      BY <1>4, <1>5, <2>3, <3>1 DEF AreRead
    <3>4. Within(counters[name], name)'
      BY <1>1, <2>1, <2>6, Zenon DEF Within
    <3>5. ASSUME i <= read'.offset
          PROVE  /\ start_values_'[i] <= count
                 /\ Within(counters[name] + (count - start_values_'[i]), name)
      <4>1. CASE i <= read.offset
        BY <2>1, <2>6, <3>2, <4>1
      <4>2. CASE ~(i <= read.offset)
        <5>1. start_values_'[i] = count
          BY <3>3, <3>5, <4>2
        <5>2. Within(counters[name] + (count - count), name)
          BY <2>1, <2>5, <2>6
        <5> QED
          BY <2>5, <5>1, <5>2
      <4> QED
        BY <4>1, <4>2
    <3> QED
      BY <1>1, <2>6, <3>4, <3>5 DEF Measured, Within
  <2>7. CASE pc = "stop"
    <3>1. start_values_' = start_values_ /\ end_values_' = Relocated(end_values_, counts)
      BY <1>1, <2>7
    <3>2. i <= read.offset => end_values_'[i] = end
      BY <1>4, <1>5, <3>1 DEF AreRead
    <3>3. i <= read'.offset /\ ~(i <= read.offset) => end_values_'[i] = count
      BY <1>4, <1>5, <2>3, <3>1 DEF AreRead
    <3>4. ASSUME i <= read'.offset
          PROVE  Within(counters[name] + (end_values_'[i] - begin), name)
      <4>1. CASE i <= read.offset
        BY <2>1, <2>7, <3>2, <4>1
      <4>2. CASE ~(i <= read.offset)
        BY <2>1, <2>3, <2>7, <3>3, <3>4, <4>2
      <4> QED
        BY <4>1, <4>2
    <3>5. ASSUME ~(i <= read'.offset)
          PROVE  Within(counters[name] + (count - begin), name)
      BY <2>1, <2>3, <2>7, <3>5
    <3> QED
      BY <1>1, <2>3, <2>7, <3>1, <3>4, <3>5 DEF Measured, Within
  <2> QED
    BY <1>1, <2>6, <2>7
<1>11. AllMeasured'
  BY <1>1, <1>10, Zenon DEF AllMeasured
<1> QED
  BY <1>2, <1>7, <1>8, <1>9, <1>11 DEF MeasuredInv

-----------------------------------------------------------------------------
\* No name is there twice: a user counter gets one difference.
LEMMA Accumulates ==
  ASSUME MeasuredInv
  PROVE  /\ Accumulated \in [Known -> Int]
         /\ \A i \in DOMAIN counters_.names :
              Accumulated[counters_.names[i]]
                = counters[counters_.names[i]] + (end_values_[i] - start_values_[i])
<1> DEFINE at(name) == {i \in DOMAIN counters_.names : counters_.names[i] = name}
           amount(name) ==
             IF at(name) = {} THEN counters[name]
             ELSE counters[name] + (end_values_[CHOOSE i \in at(name) : TRUE]
                                      - start_values_[CHOOSE i \in at(name) : TRUE])
<1>1. Accumulated = [name \in Known |-> amount(name)]
  BY DEF Accumulated
<1>2. ASSUME NEW name \in Known
      PROVE  amount(name) \in Int
  <2>1. counters[name] \in Int
    BY Zenon DEF MeasuredInv, NumbersOK
  <2>2. CASE at(name) = {}
    BY <2>1, <2>2
  <2>3. CASE at(name) # {}
    <3> DEFINE i == CHOOSE i \in at(name) : TRUE
    <3>1. i \in at(name)
      BY <2>3, Zenon
    <3>2. i \in DOMAIN counters_.names
      BY <3>1
    <3>3. amount(name) = counters[name] + (end_values_[i] - start_values_[i])
      BY <2>3
    <3> HIDE DEF i, amount
    <3> QED
      BY <2>1, <3>2, <3>3, Amounts
  <2> QED
    BY <2>2, <2>3
<1>3. ASSUME NEW i \in DOMAIN counters_.names
      PROVE  Accumulated[counters_.names[i]]
               = counters[counters_.names[i]] + (end_values_[i] - start_values_[i])
  <2> DEFINE name == counters_.names[i]
  <2>1. name \in Known
    BY Amounts
  <2>2. \A j \in DOMAIN counters_.names : counters_.names[j] = name => j = i
    BY Zenon DEF MeasuredInv, Consistent, Named
  <2> HIDE DEF name
  <2>3. at(name) = {i}
    BY <2>2 DEF name
  <2>4. (CHOOSE j \in at(name) : TRUE) = i
    BY <2>3
  <2>5. amount(name) = counters[name] + (end_values_[i] - start_values_[i])
    BY <2>3, <2>4
  <2> HIDE DEF amount
  <2> QED
    BY <1>1, <2>1, <2>5, Zenon DEF name
<1> HIDE DEF amount
<1> QED
  BY <1>1, <1>2, <1>3

\* A snapshot is complete, or is known not to be valid.
LEMMA SnapshotMeasures ==
  ASSUME MeasuredInv, OwnedInv', pc \in {"start", "stop"}, NEW values_read,
         EndSnapshot(values_read),
         values_read = Len(counters_.ids) => read.offset = Len(counters_.ids)
  PROVE  MeasuredInv'
<1>1. /\ UNCHANGED <<new, fds, counters_, read, start_values_, end_values_, spent, sections>>
      /\ valid_read_' = (valid_read_ /\ values_read = Len(counters_.ids))
      /\ pc = "start" => pc' = "timed" /\ UNCHANGED counters
      /\ pc = "stop" => \/ pc' = "ready" /\ counters' = Accumulated
                        \/ pc' = "aborted" /\ UNCHANGED counters /\ ~valid_read_'
  BY DEF EndSnapshot, StaysValid, create_vars
<1>2. NumbersOK'
  <2>1. counters' \in [Known -> Int]
    <3>1. counters' = counters \/ counters' = Accumulated
      BY <1>1
    <3>2. counters \in [Known -> Int]
      BY DEF MeasuredInv, NumbersOK
    <3> QED
      BY <3>1, <3>2, Accumulates
  <2>2. pc' \in {"timed", "ready", "aborted"} /\ valid_read_' \in BOOLEAN
    BY <1>1
  <2> QED
    BY <1>1, <2>1, <2>2 DEF MeasuredInv, NumbersOK
<1>3. Consistent(new)' /\ Creating' /\ Consistent(counters_)' /\ Live'
  BY <1>1, MeasuringSame
<1>4. ReadPlace'
  BY <1>1 DEF ReadPlace
<1>5. ASSUME valid_read_', NEW i \in DOMAIN counters_.names
      PROVE  Measured(i)'
  <2> DEFINE name  == counters_.names[i]
             count == fds[counters_.ids[i]].count
  <2>1. valid_read_ /\ read.offset = Len(counters_.ids)
    BY <1>1, <1>5
  <2>2. i <= read.offset
    <3>1. i \in DOMAIN counters_.ids
      BY Amounts
    <3> QED
      BY <2>1, <3>1, Lists
  <2>3. /\ pc = "start" => Within(counters[name] + (count - start_values_[i]), name)
        /\ pc = "stop" => Within(counters[name] + (end_values_[i] - start_values_[i]), name)
    BY <2>1, <2>2, Zenon DEF MeasuredInv, AllMeasured, Measured
  <2>4. CASE pc = "start"
    <3>1. pc' = "timed" /\ counters' = counters
      BY <1>1, <2>4
    <3>2. Within(counters[name] + (count - start_values_[i]), name)'
      BY <1>1, <2>3, <2>4, <3>1, Zenon DEF Within
    <3> QED
      BY <1>1, <3>1, <3>2 DEF Measured
  <2>5. CASE pc = "stop"
    <3>1. pc' = "ready" /\ counters' = Accumulated
      BY <1>1, <1>5, <2>5
    <3>2. counters'[name] = counters[name] + (end_values_[i] - start_values_[i])
      BY <3>1, Accumulates
    <3>3. Within(counters'[name], name)
      BY <2>3, <2>5, <3>2, Zenon
    <3>4. Within(counters[name], name)'
      BY <1>1, <3>3, Zenon DEF Within
    <3> QED
      BY <1>1, <3>1, <3>4 DEF Measured
  <2> QED
    BY <2>4, <2>5
<1>6. AllMeasured'
  BY <1>1, <1>5, Zenon DEF AllMeasured
<1> QED
  BY <1>2, <1>3, <1>4, <1>6 DEF MeasuredInv

\* Read comes to the end of the ids when it has read the last group.
LEMMA ReadDoneMeasures ==
  ASSUME MeasuredInv, ReadDone
  PROVE  MeasuredInv'
<1>1. OwnedInv'
  BY PerfCountersInductive DEF MeasuredInv, Next
<1>2. pc \in {"start", "stop"} /\ read.lead > Len(counters_.leaders) /\ EndSnapshot(read.offset)
  BY DEF ReadDone
<1>3. read.offset = Len(counters_.ids)
  <2>1. read.lead <= Len(counters_.leaders) + 1
    BY <1>2 DEF MeasuredInv, ReadPlace
  <2>2. read.lead \in Nat /\ Len(counters_.leaders) \in Nat
    BY Lists DEF MeasuredInv, NumbersOK
  <2>3. read.lead = Len(counters_.leaders) + 1
    BY <1>2, <2>1, <2>2
  <2> QED
    BY <1>2, <2>3 DEF MeasuredInv, ReadPlace
<1> QED
  BY <1>1, <1>2, <1>3, SnapshotMeasures

\* A read that fails has read 0 values, of which there is at least one.
LEMMA ReadFailsMeasures ==
  ASSUME MeasuredInv, ReadFails
  PROVE  MeasuredInv'
<1>1. OwnedInv'
  BY PerfCountersInductive DEF MeasuredInv, Next
<1>2. pc \in {"start", "stop"} /\ EndSnapshot(0)
  BY DEF ReadFails
<1>3. Len(counters_.ids) # 0
  <2>1. counters_.ids # << >> /\ counters_.ids \in Seq(Nat)
    BY <1>2, Lists DEF MeasuredInv, ReadPlace
  <2> QED
    BY <2>1
<1> QED
  BY <1>1, <1>2, <1>3, SnapshotMeasures

-----------------------------------------------------------------------------
\* What an event adds to a descriptor of the live object.
LEMMA EventCounts ==
  ASSUME MeasuredInv, NEW name \in Known, Event(name)
  PROVE  /\ fds' \in [DOMAIN fds -> Descriptors]
         /\ \A fd \in DOMAIN fds : /\ fds'[fd].event = fds[fd].event
                                   /\ fds'[fd].leader = fds[fd].leader
                                   /\ fds'[fd].group = fds[fd].group
                                   /\ fds'[fd].enabled = fds[fd].enabled
         /\ \A i \in DOMAIN counters_.names :
              fds'[counters_.ids[i]].count
                = IF counters_.names[i] = name THEN fds[counters_.ids[i]].count + 1
                  ELSE fds[counters_.ids[i]].count
<1> DEFINE counted(fd) == fds[fd].event = name /\ Counting(fd)
<1>1. fds' = [fd \in DOMAIN fds |-> IF counted(fd) THEN [fds[fd] EXCEPT !.count = @ + 1]
                                    ELSE fds[fd]]
  BY DEF Event
<1>2. ASSUME NEW fd \in DOMAIN fds
      PROVE  /\ fds[fd] \in Descriptors /\ fds'[fd] \in Descriptors
             /\ fds'[fd].event = fds[fd].event /\ fds'[fd].leader = fds[fd].leader
             /\ fds'[fd].group = fds[fd].group /\ fds'[fd].enabled = fds[fd].enabled
             /\ counted(fd) => fds'[fd].count = fds[fd].count + 1
             /\ ~counted(fd) => fds'[fd].count = fds[fd].count
  <2>1. fds[fd] \in Descriptors
    BY Zenon DEF MeasuredInv, NumbersOK
  <2>2. CASE counted(fd)
    <3>1. fds'[fd] = [fds[fd] EXCEPT !.count = @ + 1]
      BY <1>1, <2>2
    <3> HIDE DEF counted
    <3> QED
      BY <2>1, <2>2, <3>1, DescriptorCounts
  <2>3. CASE ~counted(fd)
    <3>1. fds'[fd] = fds[fd]
      BY <1>1, <2>3
    <3> HIDE DEF counted
    <3> QED
      BY <2>1, <2>3, <3>1
  <2> QED
    BY <2>2, <2>3
<1>3. ASSUME NEW i \in DOMAIN counters_.names
      PROVE  /\ counters_.ids[i] \in DOMAIN fds
             /\ counted(counters_.ids[i]) <=> counters_.names[i] = name
  <2>1. /\ i \in DOMAIN counters_.ids /\ counters_.ids[i] \in DOMAIN fds
    BY Amounts
  <2>2. pc \in {"ready", "start", "timed", "stop"}
    BY DEF Event
  <2>3. \A j \in DOMAIN counters_.ids : fds[counters_.ids[j]].enabled
    BY <2>2, Zenon DEF MeasuredInv, Live
  <2>4. /\ fds[counters_.ids[i]].event = counters_.names[i]
        /\ \E j \in DOMAIN counters_.ids : fds[counters_.ids[i]].leader = counters_.ids[j]
    BY <2>1, Zenon DEF MeasuredInv, Consistent, Named
  <2>5. Counting(counters_.ids[i])
    BY <2>1, <2>3, <2>4, Zenon DEF Counting
  <2> QED
    BY <2>1, <2>4, <2>5
<1>4. ASSUME NEW i \in DOMAIN counters_.names
      PROVE  fds'[counters_.ids[i]].count
               = IF counters_.names[i] = name THEN fds[counters_.ids[i]].count + 1
                 ELSE fds[counters_.ids[i]].count
  <2> HIDE DEF counted
  <2>1. CASE counters_.names[i] = name
    BY <1>2, <1>3, <2>1
  <2>2. CASE counters_.names[i] # name
    BY <1>2, <1>3, <2>2
  <2> QED
    BY <2>1, <2>2
<1>5. fds' \in [DOMAIN fds -> Descriptors]
  <2> HIDE DEF counted
  <2> QED
    BY <1>1, <1>2
<1> QED
  BY <1>2, <1>4, <1>5, Zenon

\* What an event adds to the history.
LEMMA EventSpent ==
  ASSUME MeasuredInv, NEW name \in Known, Event(name)
  PROVE  /\ spent' \in [inside : [Known -> Nat], around : [Known -> Nat]]
         /\ \A other \in Known :
              /\ spent'.inside[other] = IF other = name /\ pc = "timed"
                                          THEN spent.inside[other] + 1 ELSE spent.inside[other]
              /\ spent'.around[other] = IF other = name /\ pc # "ready"
                                          THEN spent.around[other] + 1 ELSE spent.around[other]
<1>1. spent.inside \in [Known -> Nat] /\ spent.around \in [Known -> Nat]
  BY DEF MeasuredInv, NumbersOK
<1>2. /\ spent'.inside = [spent.inside EXCEPT ![name] = IF pc = "timed" THEN @ + 1 ELSE @]
      /\ spent'.around = [spent.around EXCEPT ![name] = IF pc = "ready" THEN @ ELSE @ + 1]
      /\ spent' = [inside |-> spent'.inside, around |-> spent'.around]
  BY DEF Event
<1>3. /\ spent'.inside \in [Known -> Nat]
      /\ \A other \in Known :
           spent'.inside[other] = IF other = name /\ pc = "timed"
                                    THEN spent.inside[other] + 1 ELSE spent.inside[other]
  BY <1>1, <1>2
<1>4. /\ spent'.around \in [Known -> Nat]
      /\ \A other \in Known :
           spent'.around[other] = IF other = name /\ pc # "ready"
                                    THEN spent.around[other] + 1 ELSE spent.around[other]
  BY <1>1, <1>2
<1> QED
  BY <1>2, <1>3, <1>4

\* Whenever an event happens, what a user counter would amount to stays within its bounds:
\* the event counts if it is inside, and may count if it is during a read.
LEMMA EventMeasures ==
  ASSUME MeasuredInv, NEW name \in Known, Event(name)
  PROVE  MeasuredInv'
<1>1. /\ pc \in {"ready", "start", "timed", "stop"}
      /\ UNCHANGED <<pc, new, counters_, read_vars, counters, sections>>
  BY DEF Event
<1>2. OwnedInv'
  BY PerfCountersInductive DEF MeasuredInv, Next
<1>3. NumbersOK'
  <2>1. fds' \in [DOMAIN fds' -> Descriptors]
    <3>1. DOMAIN fds' = DOMAIN fds
      BY DEF Event
    <3> QED
      BY <3>1, EventCounts, Zenon
  <2> QED
    BY <1>1, <2>1, EventSpent DEF MeasuredInv, NumbersOK, read_vars
<1>4. Consistent(new)' /\ Creating'
  BY <1>1, MeasuringIdle
<1>5. Consistent(counters_)'
  <2>1. \A fd \in DOMAIN fds : /\ fd \in DOMAIN fds'
                               /\ fds'[fd].event = fds[fd].event
                               /\ fds'[fd].leader = fds[fd].leader
                               /\ fds'[fd].group = fds[fd].group
    <3>1. DOMAIN fds' = DOMAIN fds
      BY DEF Event
    <3> QED
      BY <3>1, EventCounts, Zenon
  <2>2. Consistent(counters_)
    BY Zenon DEF MeasuredInv
  <2>3. /\ Grouped(fds', counters_.ids, counters_.leaders)
        /\ Named(fds', counters_.ids, counters_.names)
    BY <2>1, <2>2, ConsistentKept
  <2> QED
    BY <1>1, <2>3, Zenon DEF Consistent
<1>6. Live'
  <2>1. ASSUME NEW i \in DOMAIN counters_.ids
        PROVE  fds'[counters_.ids[i]].enabled
    <3>1. fds[counters_.ids[i]].enabled
      BY <1>1, Zenon DEF MeasuredInv, Live
    <3>2. counters_.ids[i] \in DOMAIN fds
      BY Zenon DEF MeasuredInv, Consistent, Grouped
    <3> QED
      BY <3>1, <3>2, EventCounts, Zenon
  <2> QED
    BY <1>1, <2>1 DEF Live
<1>7. ReadPlace'
  BY <1>1 DEF MeasuredInv, ReadPlace, read_vars
<1>8. ASSUME valid_read_, NEW i \in DOMAIN counters_.names
      PROVE  Measured(i)'
  <2> DEFINE own    == counters_.names[i]
             count  == fds[counters_.ids[i]].count
             begin  == start_values_[i]
             end    == end_values_[i]
             value  == counters[own]
             inside == spent.inside[own]
             around == spent.around[own]
             count2  == fds'[counters_.ids[i]].count
             inside2 == spent'.inside[own]
             around2 == spent'.around[own]
  <2>1. /\ pc \in {"ready", "start"} => inside <= value /\ value <= around
        /\ pc = "start" /\ i <= read.offset =>
             /\ begin <= count
             /\ inside <= value + (count - begin) /\ value + (count - begin) <= around
        /\ pc = "timed" \/ (pc = "stop" /\ i > read.offset) =>
             inside <= value + (count - begin) /\ value + (count - begin) <= around
        /\ pc = "stop" /\ i <= read.offset =>
             inside <= value + (end - begin) /\ value + (end - begin) <= around
    BY <1>8, Zenon DEF MeasuredInv, AllMeasured, Measured, Within
  <2>2. /\ value \in Int /\ inside \in Nat /\ around \in Nat /\ count \in Nat
        /\ begin \in Int /\ end \in Int /\ own \in Known
    BY Amounts
  <2>3. count2 = IF own = name THEN count + 1 ELSE count
    BY EventCounts
  <2>4. /\ inside2 = IF own = name /\ pc = "timed" THEN inside + 1 ELSE inside
        /\ around2 = IF own = name /\ pc # "ready" THEN around + 1 ELSE around
    BY <2>2, EventSpent
  <2> HIDE DEF own, count, begin, end, value, inside, around, count2, inside2, around2
  <2>5. /\ pc \in {"ready", "start"} => inside2 <= value /\ value <= around2
        /\ pc = "start" /\ i <= read.offset =>
             /\ begin <= count2
             /\ inside2 <= value + (count2 - begin) /\ value + (count2 - begin) <= around2
        /\ pc = "timed" \/ (pc = "stop" /\ i > read.offset) =>
             inside2 <= value + (count2 - begin) /\ value + (count2 - begin) <= around2
        /\ pc = "stop" /\ i <= read.offset =>
             inside2 <= value + (end - begin) /\ value + (end - begin) <= around2
    <3>1. CASE own # name
      BY <2>1, <2>3, <2>4, <3>1
    <3>2. CASE own = name /\ pc = "ready"
      BY <2>1, <2>2, <2>3, <2>4, <3>2
    <3>3. CASE own = name /\ pc = "start"
      BY <2>1, <2>2, <2>3, <2>4, <3>3
    <3>4. CASE own = name /\ pc = "timed"
      BY <2>1, <2>2, <2>3, <2>4, <3>4
    <3>5. CASE own = name /\ pc = "stop"
      BY <2>1, <2>2, <2>3, <2>4, <3>5
    <3> QED
      BY <1>1, <3>1, <3>2, <3>3, <3>4, <3>5
  <2> QED
    BY <1>1, <2>5
    DEF Measured, Within, read_vars, own, count, begin, end, value, inside, around, count2,
        inside2, around2
<1>9. AllMeasured'
  BY <1>1, <1>8, Zenon DEF AllMeasured, read_vars
<1> QED
  BY <1>2, <1>3, <1>4, <1>5, <1>6, <1>7, <1>9 DEF MeasuredInv

-----------------------------------------------------------------------------
\* Every step keeps the bounds of the user counters.
THEOREM MeasuredInductive == MeasuredInv /\ [Next]_vars => MeasuredInv'
<1> SUFFICES ASSUME MeasuredInv, [Next]_vars
             PROVE  MeasuredInv'
  OBVIOUS
<1>1. CASE Construct
  BY <1>1, ConstructMeasures
<1>2. CASE NextName
  BY <1>2, NextNameMeasures
<1>3. CASE Open
  BY <1>3, OpenedMeasures, NotOpenedMeasures DEF Open
<1>4. CASE Enable
  BY <1>4, EnableMeasures
<1>5. CASE Assign
  BY <1>5, AssignMeasures
<1>6. CASE Destroy
  BY <1>6, DestroyMeasures
<1>7. CASE Start
  BY <1>7, StartMeasures
<1>8. CASE Stop
  BY <1>8, StopMeasures
<1>9. CASE ReadGroup
  BY <1>9, ReadGroupMeasures
<1>10. CASE ReadDone
  BY <1>10, ReadDoneMeasures
<1>11. CASE ReadFails
  BY <1>11, ReadFailsMeasures
<1>12. ASSUME NEW name \in Known, Event(name)
       PROVE  MeasuredInv'
  BY <1>12, EventMeasures
<1>13. CASE UNCHANGED vars
  <2>1. /\ UNCHANGED <<checks, counter_names, pc, fds, new, counters_, read, start_values_>>
        /\ UNCHANGED <<end_values_, valid_read_, counters, spent, sections, events>>
    BY <1>13 DEF vars, build, create_vars, read_vars, state_vars
  <2>2. OwnedInv'
    BY <1>13, PerfCountersInductive DEF MeasuredInv
  <2>3. Consistent(new)' /\ Consistent(counters_)' /\ AllMeasured'
    BY <2>1, Zenon DEF MeasuredInv, Consistent, AllMeasured, Measured, Within
  <2>4. NumbersOK'
    BY <2>1 DEF MeasuredInv, NumbersOK
  <2>5. Creating' /\ Live' /\ ReadPlace'
    BY <2>1 DEF MeasuredInv, Creating, Live, ReadPlace
  <2> QED
    BY <2>2, <2>3, <2>4, <2>5 DEF MeasuredInv
<1> QED
  BY <1>1, <1>2, <1>3, <1>4, <1>5, <1>6, <1>7, <1>8, <1>9, <1>10, <1>11, <1>12, <1>13 DEF Next

\* An object whose groups are in place is consistent, and a group fits into the buffer.
LEMMA MeasuredTypes == MeasuredInv => TypeOK
<1> SUFFICES ASSUME MeasuredInv
             PROVE  TypeOK
  OBVIOUS
<1>1. /\ pc \in {"none", "create", "open", "enable", "ready", "start", "timed", "stop",
                 "aborted"}
      /\ valid_read_ \in BOOLEAN /\ sections \in 0 .. MaxSections
  BY DEF MeasuredInv, NumbersOK
<1>2. ASSUME NEW object, Consistent(object)
      PROVE  /\ Len(object.names) = Len(object.ids) /\ Len(object.names) <= kMaxCounters
             /\ \A i \in DOMAIN object.ids : fds[object.ids[i]].event = object.names[i]
             /\ \A n \in DOMAIN object.leaders : GroupInPlace(object, n)
             /\ object.leaders = << >> => object.ids = << >>
  <2>1. /\ Len(object.names) = Len(object.ids) /\ Len(object.names) <= kMaxCounters
        /\ \A i \in DOMAIN object.ids : fds[object.ids[i]].event = object.names[i]
    BY <1>2, Zenon DEF Consistent, Named
  <2>2. ASSUME NEW n \in DOMAIN object.leaders
        PROVE  GroupInPlace(object, n)
    <3>1. InPlace(fds, object.ids, object.leaders, n)
      BY <1>2, Zenon DEF Consistent, Grouped
    <3> QED
      BY <3>1, Zenon DEF InPlace, GroupInPlace
  <2>3. object.leaders = << >> => object.ids = << >>
    BY <1>2, Zenon DEF Consistent, Grouped
  <2> QED
    BY <2>1, <2>2, <2>3, Zenon
<1>3. ASSUME pc \in {"start", "stop"}, read.lead <= Len(counters_.leaders)
      PROVE  Needed(counters_.leaders[read.lead]) <= Left
  <2> DEFINE group == Members(counters_.leaders[read.lead])
  <2>1. group \in Seq(Nat) /\ read.offset + Len(group) <= Len(counters_.ids)
    BY <1>3, GroupRead
  <2>2. /\ Len(counters_.ids) <= kMaxCounters /\ Len(counters_.ids) \in Nat
        /\ kMaxCounters \in Nat /\ read.offset \in Nat
    BY Lists, PerfCountersAssumption DEF MeasuredInv, Consistent, Named, NumbersOK
  <2>3. Len(group) \in Nat
    BY <2>1
  <2> HIDE DEF group
  <2>4. Len(group) + 1 <= 2 + kMaxCounters - read.offset
    BY <2>1, <2>2, <2>3
  <2> QED
    BY <2>4 DEF Needed, Left, kPadding, group
<1>4. Consistent(new) /\ Consistent(counters_)
  BY DEF MeasuredInv
<1>5. \A object \in {new, counters_} :
        /\ Len(object.names) = Len(object.ids) /\ Len(object.names) <= kMaxCounters
        /\ \A i \in DOMAIN object.ids : fds[object.ids[i]].event = object.names[i]
        /\ \A n \in DOMAIN object.leaders : GroupInPlace(object, n)
        /\ object.leaders = << >> => object.ids = << >>
  BY <1>2, <1>4, Zenon
<1> QED
  BY <1>1, <1>3, <1>5, Zenon DEF TypeOK

\* Create leaves the groups one behind the other, each behind its leader, and the buffer
\* always has room for the next group and the word in front of it.
THEOREM PerfCountersTypeCorrect == Spec => []TypeOK
  BY MeasuredInitial, MeasuredInductive, MeasuredTypes, PTL DEF Spec

\* Where no read has failed, a user counter has all the events of the timed sections and
\* at most those during the reads at their ends besides.
THEOREM MeasuredEventsCorrect == Spec => []MeasuredEvents
<1>1. MeasuredInv => MeasuredEvents
  <2> SUFFICES ASSUME MeasuredInv, pc = "ready", valid_read_, NEW i \in DOMAIN counters_.names
               PROVE  counters[counters_.names[i]]
                        \in spent.inside[counters_.names[i]] .. spent.around[counters_.names[i]]
    BY Zenon DEF MeasuredEvents
  <2> DEFINE name == counters_.names[i]
  <2>1. Within(counters[name], name)
    BY Zenon DEF MeasuredInv, AllMeasured, Measured
  <2>2. counters[name] \in Int /\ spent.inside[name] \in Nat /\ spent.around[name] \in Nat
    BY Amounts
  <2> QED
    BY <2>1, <2>2 DEF Within
<1> QED
  BY <1>1, MeasuredInitial, MeasuredInductive, PTL DEF Spec
===============================================================================
