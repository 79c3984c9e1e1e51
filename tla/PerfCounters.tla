----------------------------- MODULE PerfCounters -----------------------------
(***************************************************************************)
(* Performance counters (perf_counters.cc built with libpfm): Create opens *)
(* a descriptor for each requested counter, in groups that the kernel may  *)
(* refuse to enlarge, and enables the groups; a PerfCountersMeasurement    *)
(* reads them, group by group, whenever a thread resumes or pauses its     *)
(* timer, and the State adds up the differences.                           *)
(*                                                                         *)
(* The kernel is what the code relies on: an open may be interrupted or    *)
(* fail, an enabled group counts the events of all of its descriptors, and *)
(* a read of a group fails or returns a word and the counts of the group.  *)
(* One thread uses the measurement (see the README for several).           *)
(***************************************************************************)
EXTENDS Integers, Sequences, FiniteSets

CONSTANTS
  Requests,             \* lists of names that --benchmark_perf_counters may ask for
  Known,                \* the names libpfm can encode; not the empty one
  kMaxCounters,         \* 32 in the code
  kNrOfSyscallRetries,  \* 5 in the code
  MaxEvents,            \* bound: events in the life of a measurement
  MaxSections           \* bound: its timed sections

\* A name given twice is opened twice and counted twice in one user counter.
ASSUME PerfCountersAssumption ==
  /\ Requests \subseteq Seq(STRING)
  /\ \A names \in Requests : \A i, j \in DOMAIN names :
       i # j /\ names[i] \in Known => names[i] # names[j]
  /\ Known \subseteq STRING
  /\ kMaxCounters \in Nat \ {0} /\ kNrOfSyscallRetries \in Nat \ {0}
  /\ MaxEvents \in Nat /\ MaxSections \in Nat

VARIABLES
  checks,        \* the build has BM_CHECK (no NDEBUG)
  counter_names, \* what was asked for
  pc,            \* none, create, open, enable, ready, start, timed, stop, aborted
  fds,           \* the kernel's: the open descriptors, by number
  new,           \* locals of Create
  counters_,     \* [names, ids, leaders] of the live PerfCounters
  read,          \* Snapshot under way: [lead, offset]
  start_values_, end_values_,
  valid_read_,
  counters,      \* State::counters, by name
  spent,         \* history, by name: events inside of the timed sections, and events
                 \* inside of or during the reads at their ends
  sections, events

build == <<checks, counter_names>>
create_vars == <<new, fds>>
read_vars == <<read, start_values_, end_values_, valid_read_>>
state_vars == <<counters, spent, sections>>
vars == <<pc, build, create_vars, counters_, read_vars, state_vars, events>>

NoCounters == [names |-> << >>, ids |-> << >>, leaders |-> << >>]

NewCreate == [names |-> << >>, ids |-> << >>, leaders |-> << >>, i |-> 1, group_id |-> 0,
              is_first |-> FALSE, retries |-> 0, lead |-> 1]

Zero == [name \in Known |-> 0]

\* Words of the buffer beyond the counters.
kPadding == 2

\* The arrays are not initialized; a first read that fails leaves them so, and a build
\* without checks goes on with them: 0 stands for anything.
Unread == [i \in 1 .. kMaxCounters |-> 0]

Init ==
  /\ checks \in BOOLEAN /\ counter_names \in Requests
  /\ pc = "none"
  /\ fds = << >>
  /\ new = NewCreate
  /\ counters_ = NoCounters
  /\ read = [lead |-> 1, offset |-> 0]
  /\ start_values_ = Unread /\ end_values_ = Unread
  /\ valid_read_ = TRUE
  /\ counters = Zero
  /\ spent = [inside |-> Zero, around |-> Zero]
  /\ sections = 0 /\ events = 0

-----------------------------------------------------------------------------
(* PerfCounters::Create.                                                   *)

\* The values are members, and check their size before Create is called.
Construct ==
  /\ pc = "none"
  /\ pc' = IF checks /\ Len(counter_names) > kMaxCounters THEN "aborted" ELSE "create"
  /\ UNCHANGED <<build, create_vars, counters_, read_vars, state_vars, events>>

\* An empty or unknown name is left out; nothing is added beyond the maximum.
NextName ==
  /\ pc = "create"
  /\ IF new.i > Len(counter_names) \/ Len(new.names) = kMaxCounters
       THEN pc' = "enable" /\ UNCHANGED new
     ELSE IF counter_names[new.i] \notin Known
       THEN new' = [new EXCEPT !.i = @ + 1] /\ UNCHANGED pc
     ELSE /\ pc' = "open"
          /\ new' = [new EXCEPT !.is_first = (new.group_id = 0), !.retries = 0]
  /\ UNCHANGED <<build, fds, counters_, read_vars, state_vars, events>>

\* attr.disabled was set before the group turned out full: the leader of a later group
\* counts from the start (and is not pinned), which a difference of two reads cancels.
\* With a leader the kernel keeps its group, in the order in which they were opened.
Descriptor(name, id, leader) ==
  [event |-> name, leader |-> leader, enabled |-> ~new.is_first, count |-> 0,
   group |-> IF id = leader THEN <<id>> ELSE << >>]

Joined(fd, id, leader) ==
  IF fd = leader THEN [fds[fd] EXCEPT !.group = Append(@, id)] ELSE fds[fd]

\* Bug variant: whether a descriptor leads is decided before its group turned out full.
LeadsIfFirst(id, leader) == new.is_first

Leads(id, leader) == leader = id

\* The smallest number that is free.
NextDescriptor ==
  CHOOSE id \in 1 .. Cardinality(DOMAIN fds) + 1 :
    id \notin DOMAIN fds /\ 1 .. id - 1 \subseteq DOMAIN fds

Opened ==
  LET id     == NextDescriptor
      leader == IF new.group_id = 0 THEN id ELSE new.group_id
  IN /\ pc' = "create"
     /\ fds' = [fd \in DOMAIN fds \cup {id} |->
                  IF fd = id THEN Descriptor(counter_names[new.i], id, leader)
                  ELSE Joined(fd, id, leader)]
     /\ new' = [new EXCEPT !.i = @ + 1, !.group_id = leader,
                           !.names = Append(@, counter_names[new.i]),
                           !.ids = Append(@, id),
                           !.leaders = IF Leads(id, leader) THEN Append(@, id) ELSE @]

\* Interrupted, and not yet for the last time.
Retry ==
  /\ new.retries + 1 < kNrOfSyscallRetries
  /\ new' = [new EXCEPT !.retries = @ + 1]
  /\ UNCHANGED <<pc, fds>>

\* The group may be full: once more as the first of a group of its own, or not at all.
Refused ==
  /\ UNCHANGED fds
  /\ IF new.group_id # 0
       THEN new' = [new EXCEPT !.group_id = 0, !.retries = 0] /\ UNCHANGED pc
       ELSE new' = [new EXCEPT !.i = @ + 1] /\ pc' = "create"

Open ==
  /\ pc = "open"
  /\ Opened \/ Retry \/ Refused
  /\ UNCHANGED <<build, counters_, read_vars, state_vars, events>>

Closed(ids) ==
  [fd \in DOMAIN fds \ {ids[i] : i \in DOMAIN ids} |-> fds[fd]]

\* Bug variant: only the leaders are closed when a group cannot be started.
CloseLeaders(created) == Closed(created.leaders)

CloseAll(created) == Closed(created.ids)

Enable ==
  /\ pc = "enable" /\ new.lead <= Len(new.leaders)
  /\ \/ /\ fds' = [fds EXCEPT ![new.leaders[new.lead]].enabled = TRUE]
        /\ new' = [new EXCEPT !.lead = @ + 1]
     \/ /\ fds' = CloseAll(new)
        /\ new' = NewCreate
  /\ UNCHANGED <<build, pc, counters_, read_vars, state_vars, events>>

\* What Create returned is moved into the measurement, whose own counters, if it has any,
\* are closed.
Assign ==
  /\ pc = "enable" /\ new.lead > Len(new.leaders)
  /\ fds' = Closed(counters_.ids)
  /\ counters_' = [names |-> new.names, ids |-> new.ids, leaders |-> new.leaders]
  /\ new' = NewCreate
  /\ pc' = "ready"
  /\ UNCHANGED <<build, read_vars, state_vars, events>>

\* The next session may make another measurement.
Destroy ==
  /\ pc = "ready"
  /\ fds' = Closed(counters_.ids)
  /\ counters_' = NoCounters
  /\ new' = NewCreate
  /\ pc' = "none"
  /\ read' = [lead |-> 1, offset |-> 0]
  /\ start_values_' = Unread /\ end_values_' = Unread
  /\ valid_read_' = TRUE
  /\ counters' = Zero
  /\ spent' = [inside |-> Zero, around |-> Zero]
  /\ sections' = 0 /\ events' = 0
  /\ UNCHANGED build

-----------------------------------------------------------------------------
(* PerfCountersMeasurement, called by ResumeTiming and PauseTiming.        *)

num_counters == Len(counters_.names)

\* Resuming: nothing looks at what Start returns.
Start ==
  /\ pc = "ready" /\ sections < MaxSections
  /\ sections' = sections + 1
  /\ pc' = IF num_counters = 0 THEN "timed" ELSE "start"
  /\ read' = [lead |-> 1, offset |-> 0]
  /\ UNCHANGED <<build, create_vars, counters_, start_values_, end_values_, valid_read_, counters,
                 spent, events>>

Stop ==
  /\ pc = "timed"
  /\ pc' = IF num_counters = 0 THEN "ready" ELSE "stop"
  /\ read' = [lead |-> 1, offset |-> 0]
  /\ UNCHANGED <<build, create_vars, counters_, start_values_, end_values_, valid_read_, state_vars,
                 events>>

Members(leader) == fds[leader].group

\* The counts of a group go behind those of the groups before it.
Relocated(values, counts) ==
  [i \in DOMAIN values |-> IF i - read.offset \in DOMAIN counts
                             THEN counts[i - read.offset] ELSE values[i]]

\* Words the kernel needs for a group, and words the buffer has left.
Needed(leader) == Len(Members(leader)) + 1

Left == kPadding + kMaxCounters - read.offset

ReadGroup ==
  /\ pc \in {"start", "stop"} /\ read.lead <= Len(counters_.leaders)
  /\ LET leader == counters_.leaders[read.lead]
         ids    == Members(leader)
         counts == [k \in DOMAIN ids |-> fds[ids[k]].count]
     IN /\ Needed(leader) <= Left
        /\ read' = [lead |-> read.lead + 1, offset |-> read.offset + Len(ids)]
        /\ IF pc = "start"
             THEN start_values_' = Relocated(start_values_, counts)
                    /\ UNCHANGED end_values_
             ELSE end_values_' = Relocated(end_values_, counts)
                    /\ UNCHANGED start_values_
  /\ UNCHANGED <<build, pc, create_vars, counters_, valid_read_, state_vars, events>>

\* Bug variant: only the last read counts.
LastValid(valid) == valid

StaysValid(valid) == valid_read_ /\ valid

Accumulated ==
  [name \in Known |->
     LET at == {i \in DOMAIN counters_.names : counters_.names[i] = name}
     IN IF at = {} THEN counters[name]
        ELSE LET i == CHOOSE i \in at : TRUE
             IN counters[name] + (end_values_[i] - start_values_[i])]

\* Read returned the number of values it has read.
EndSnapshot(values_read) ==
  LET valid == StaysValid(values_read = Len(counters_.ids))
  IN /\ valid_read_' = valid
     /\ IF pc = "start"
          THEN pc' = "timed" /\ UNCHANGED counters
        ELSE IF valid \/ ~checks
          THEN pc' = "ready" /\ counters' = Accumulated
        ELSE pc' = "aborted" /\ UNCHANGED counters
     /\ UNCHANGED <<build, create_vars, counters_, read, start_values_, end_values_, spent, sections,
                    events>>

ReadDone ==
  /\ pc \in {"start", "stop"} /\ read.lead > Len(counters_.leaders)
  /\ EndSnapshot(read.offset)

\* A group in error state has nothing to read; 0 is returned whatever was read before.
ReadFails ==
  /\ pc \in {"start", "stop"} /\ read.lead <= Len(counters_.leaders)
  /\ EndSnapshot(0)

-----------------------------------------------------------------------------

Counting(fd) == fds[fd].enabled /\ fds[fds[fd].leader].enabled

\* Something happens that is counted under a name.
Event(name) ==
  /\ pc \in {"ready", "start", "timed", "stop"}
  /\ events < MaxEvents
  /\ events' = events + 1
  /\ fds' = [fd \in DOMAIN fds |->
               IF fds[fd].event = name /\ Counting(fd)
                 THEN [fds[fd] EXCEPT !.count = @ + 1] ELSE fds[fd]]
  /\ spent' = [inside |-> [spent.inside EXCEPT ![name] = IF pc = "timed" THEN @ + 1 ELSE @],
               around |-> [spent.around EXCEPT ![name] = IF pc = "ready" THEN @ ELSE @ + 1]]
  /\ UNCHANGED <<build, pc, new, counters_, read_vars, counters, sections>>

Next ==
  \/ Construct \/ NextName \/ Open \/ Enable \/ Assign \/ Destroy
  \/ Start \/ Stop \/ ReadGroup \/ ReadDone \/ ReadFails
  \/ \E name \in Known : Event(name)

Spec == Init /\ [][Next]_vars

-----------------------------------------------------------------------------
(* Properties.                                                             *)

\* The members of a leader's group stand together among the ids of an object, as the
\* kernel lists them, right before the next group.
GroupInPlace(object, n) ==
  LET group == fds[object.leaders[n]].group
  IN \E i \in DOMAIN object.ids :
       /\ n = 1 => i = 1
       /\ group # << >> /\ group[1] = object.leaders[n]
       /\ \A k \in DOMAIN group : /\ i + k - 1 \in DOMAIN object.ids
                                 /\ object.ids[i + k - 1] = group[k]
                                 /\ fds[group[k]].leader = object.leaders[n]
       /\ IF n = Len(object.leaders) THEN i + Len(group) = Len(object.ids) + 1
          ELSE /\ i + Len(group) \in DOMAIN object.ids
               /\ object.ids[i + Len(group)] = object.leaders[n + 1]

\* A PerfCounters object is consistent: a name for each descriptor, in the order of the
\* request; every group begins with its leader, and the groups follow each other in the
\* order in which Read reads them; the buffer has room for each, the word in front of it
\* included.
TypeOK ==
  /\ pc \in {"none", "create", "open", "enable", "ready", "start", "timed", "stop", "aborted"}
  /\ valid_read_ \in BOOLEAN /\ sections \in 0 .. MaxSections
  /\ \A object \in {new, counters_} :
       /\ Len(object.names) = Len(object.ids) /\ Len(object.names) <= kMaxCounters
       /\ \A i \in DOMAIN object.ids : fds[object.ids[i]].event = object.names[i]
       /\ \A n \in DOMAIN object.leaders : GroupInPlace(object, n)
       /\ object.leaders = << >> => object.ids = << >>
  /\ pc \in {"start", "stop"} /\ read.lead <= Len(counters_.leaders)
       => Needed(counters_.leaders[read.lead]) <= Left

Ids(object) == {object.ids[i] : i \in DOMAIN object.ids}

\* No descriptor leaks, whichever of the opens and enables fail, and none is closed that
\* an object still uses: the open ones are exactly those of the object under construction
\* and of the live one.
DescriptorsOwned == DOMAIN fds = Ids(new) \cup Ids(counters_)

\* The user counter of a name is what was counted under that name, however the counters
\* are split into groups and however often the timing was paused, as long as no read has
\* failed: at least the events of the timed sections, at most those during the reads at
\* their ends besides.
MeasuredEvents ==
  pc = "ready" /\ valid_read_ =>
    \A i \in DOMAIN counters_.names :
      LET name == counters_.names[i]
      IN counters[name] \in spent.inside[name] .. spent.around[name]
=============================================================================
