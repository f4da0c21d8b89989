------------------------ MODULE DeviceRequests_proofs -----------------------
(* What holds of DeviceRequests for any number of requests, devices, steps *)
(* of the configuration and failures.                                      *)
EXTENDS DeviceRequests, TLAPS

----------------------------------------------------------------------------
(* Types *)

\* What a request at an await holds in its frame.
FrameInv ==
    \A r \in Requests :
        /\ Active(r) => host[r] \in Hosts /\ target[r] \in Ids
        /\ pc[r] = "refreshing" => cur[r] \in Ids

TypeInv == TypeOK /\ FrameInv

LEMMA Answers ==
    /\ \A status \in {200, 400, 404} : Failure(status) \in Answer
    /\ \A reading \in Reading \cup {None}, refreshed \in BOOLEAN :
          Success(reading, refreshed) \in Answer
    BY DEF Answer, Failure, Success

LEMMA SampleType == ASSUME TypeOK, NEW h \in Hosts PROVE Sample(h) \in Reading
    BY DEF Sample, Reading, TypeOK

LEMMA UpdateType ==
    ASSUME TypeOK, NEW d \in Ids, NEW reading \in Reading
    PROVE  UpdateState(d, reading) \in [Ids -> Reading \cup {None}]
    BY DEF UpdateState, TypeOK

\* An answer keeps the types of the variables it sets, and so does the next
\* look-up of trigger_refresh.
ReplyTypes ==
    /\ pc' \in [Requests -> {"idle", "commanding", "refreshing", "answered"}]
    /\ cur' \in [Requests -> Ids \cup {None}]
    /\ todo' \in [Requests -> SUBSET Ids]
    /\ host' \in [Requests -> Hosts \cup {None}]
    /\ answer' \in [Requests -> Answer \cup {None}]

\* Those of the others are as before, and so is the invariant of the frames.
ReplyFrames(r) ==
    /\ \A q \in Requests \ {r} :
          /\ pc'[q] = pc[q] /\ cur'[q] = cur[q] /\ todo'[q] = todo[q]
          /\ host'[q] = host[q] /\ answer'[q] = answer[q]
    /\ pc'[r] = "commanding" => host'[r] \in Hosts
    /\ pc'[r] = "refreshing" => host'[r] \in Hosts /\ cur'[r] \in Ids

LEMMA ReplyTyped ==
    ASSUME TypeOK, NEW r \in Requests, NEW reply \in Answer, Reply(r, reply),
           host' = host
    PROVE  ReplyTypes /\ ReplyFrames(r)
    BY DEF Reply, ReplyTypes, ReplyFrames, TypeOK

LEMMA StopTyped ==
    ASSUME TypeOK, NEW r \in Requests, target[r] \in Ids, NEW status \in {400, 404},
           Stop(r, status), host' = host
    PROVE  ReplyTypes /\ ReplyFrames(r)
<1>1. View(job[r], target[r], stored, FALSE) \in Answer
    <2>1. stored[target[r]] \in Reading \cup {None}
        BY DEF TypeOK
    <2>. QED BY <2>1 DEF View, Answer, Failure, Success
<1>2. Failure(status) \in Answer /\ Failure(400) \in Answer
    BY Answers
<1>. QED BY <1>1, <1>2, ReplyTyped DEF Stop

LEMMA EnterTyped ==
    ASSUME TypeOK, NEW r \in Requests, NEW d \in Ids, NEW rest \in SUBSET Ids,
           target[r] \in Ids,
           Enter(r, d, rest)
    PROVE  ReplyTypes /\ ReplyFrames(r)
<1>1. CASE config[d] = None /\ Stop(r, 404) /\ host' = host
    BY <1>1, StopTyped
<1>2. CASE config[d] # None
    <2>1. config[d] \in Hosts
        BY <1>2 DEF TypeOK
    <2>2. /\ pc' = [pc EXCEPT ![r] = "refreshing"]
          /\ cur' = [cur EXCEPT ![r] = d]
          /\ todo' = [todo EXCEPT ![r] = rest]
          /\ host' = [host EXCEPT ![r] = config[d]]
          /\ answer' = answer
        BY <1>2 DEF Enter
    <2>3. ReplyTypes
        BY <2>1, <2>2 DEF ReplyTypes, TypeOK
    <2>. QED BY <2>1, <2>2, <2>3 DEF ReplyFrames, TypeOK
<1>. QED BY <1>1, <1>2 DEF Enter

LEMMA ContinueTyped ==
    ASSUME TypeOK, NEW r \in Requests, target[r] \in Ids, cur[r] \in Ids,
           NEW reading \in Reading, stored' \in [Ids -> Reading \cup {None}],
           Continue(r, reading)
    PROVE  ReplyTypes /\ ReplyFrames(r)
<1>1. CASE Reply(r, Success(Shown(r, reading), FALSE)) /\ host' = host
    <2>1. Success(Shown(r, reading), FALSE) \in Answer
        BY DEF Shown, Answer, Success
    <2>. QED BY <1>1, <2>1, ReplyTyped
<1>2. CASE Reply(r, View(job[r], target[r], stored', job[r] = "refresh_all")) /\ host' = host
    <2>1. View(job[r], target[r], stored', job[r] = "refresh_all") \in Answer
        <3>1. stored'[target[r]] \in Reading \cup {None}
            OBVIOUS
        <3>2. (job[r] = "refresh_all") \in BOOLEAN
            OBVIOUS
        <3>. QED BY <3>1, <3>2 DEF View, Answer, Failure, Success
    <2>. QED BY <1>2, <2>1, ReplyTyped
<1>3. ASSUME NEW d \in todo[r], Enter(r, d, todo[r] \ {d})
      PROVE  ReplyTypes /\ ReplyFrames(r)
    <2>1. d \in Ids /\ todo[r] \ {d} \in SUBSET Ids
        BY DEF TypeOK
    <2>. QED BY <1>3, <2>1, EnterTyped
<1>. QED BY <1>1, <1>2, <1>3 DEF Continue

\* The variables that a step leaves alone or sets together.
LEMMA Conclude ==
    ASSUME TypeInv, NEW r \in Requests, ReplyTypes, ReplyFrames(r),
           config' \in [Ids -> Hosts \cup {None}],
           loops' \in [Ids -> SUBSET (Tasks \X Hosts)],
           changes' \in 0..MaxChanges,
           version' \in [Hosts -> Nat],
           stored' \in [Ids -> Reading \cup {None}],
           job' \in [Requests -> Commands \cup Views],
           target' \in [Requests -> Ids \cup {None}],
           \A q \in Requests \ {r} : target'[q] = target[q],
           pc'[r] \in {"commanding", "refreshing"} => target'[r] \in Ids,
           wrote' \in [Requests -> Reading \cup {None}],
           event' \in [Requests -> {"none", "executed", "failed"}],
           broken' \in [Requests -> BOOLEAN],
           steady' \in [Requests -> SUBSET Ids],
           moved' \in [Requests -> BOOLEAN],
           visited' \in [Requests -> SUBSET Ids],
           asks' \in 0..MaxAsks, failures' \in 0..MaxFailures
    PROVE  TypeInv'
<1>1. TypeOK'
    BY DEF TypeOK, ReplyTypes
<1>2. FrameInv'
    BY DEF TypeInv, FrameInv, ReplyFrames, Active
<1>. QED BY <1>1, <1>2 DEF TypeInv

LEMMA TypeInit == Init => TypeInv
<1> SUFFICES ASSUME Init PROVE TypeInv
    OBVIOUS
<1>1. /\ config \in [Ids -> Hosts \cup {None}] /\ loops \in [Ids -> SUBSET (Tasks \X Hosts)]
      /\ changes \in 0..MaxChanges /\ version \in [Hosts -> Nat]
      /\ stored \in [Ids -> Reading \cup {None}]
    BY BoundsAssumption DEF Init, Polling!Init
<1>2. /\ pc \in [Requests -> {"idle", "commanding", "refreshing", "answered"}]
      /\ job \in [Requests -> Commands \cup Views]
      /\ target \in [Requests -> Ids \cup {None}]
      /\ cur \in [Requests -> Ids \cup {None}]
      /\ todo \in [Requests -> SUBSET Ids]
      /\ host \in [Requests -> Hosts \cup {None}]
      /\ answer \in [Requests -> Answer \cup {None}]
    BY DEF Init, Commands, Views
<1>3. /\ wrote \in [Requests -> Reading \cup {None}]
      /\ event \in [Requests -> {"none", "executed", "failed"}]
      /\ broken \in [Requests -> BOOLEAN]
      /\ steady \in [Requests -> SUBSET Ids]
      /\ moved \in [Requests -> BOOLEAN]
      /\ visited \in [Requests -> SUBSET Ids]
    BY DEF Init
<1>4. asks \in 0..MaxAsks /\ failures \in 0..MaxFailures
    BY BoundsAssumption DEF Init
<1>5. FrameInv
    BY DEF Init, FrameInv, Active
<1>. QED BY <1>1, <1>2, <1>3, <1>4, <1>5 DEF TypeInv, TypeOK

LEMMA PollingType ==
    ASSUME config \in [Ids -> Hosts \cup {None}], loops \in [Ids -> SUBSET (Tasks \X Hosts)],
           Polling!Next
    PROVE  /\ config' \in [Ids -> Hosts \cup {None}]
           /\ loops' \in [Ids -> SUBSET (Tasks \X Hosts)]
<1>1. PICK d \in Ids : Polling!Stop(d) \/ Polling!Drop(d) \/ \E h \in Hosts : Polling!Start(d, h)
    BY DEF Polling!Next
<1>2. CASE Polling!Stop(d) \/ Polling!Drop(d)
    BY <1>2 DEF Polling!Stop, Polling!Drop
<1>3. ASSUME NEW h \in Hosts, Polling!Start(d, h)
      PROVE  /\ config' \in [Ids -> Hosts \cup {None}]
             /\ loops' \in [Ids -> SUBSET (Tasks \X Hosts)]
    <2>1. PICK t \in Tasks : loops' = [loops EXCEPT ![d] = {<<t, h>>}]
        BY <1>3 DEF Polling!Start
    <2>2. {<<t, h>>} \in SUBSET (Tasks \X Hosts)
        OBVIOUS
    <2>. QED BY <1>3, <2>1, <2>2 DEF Polling!Start
<1>. QED BY <1>1, <1>2, <1>3

LEMMA ConfigureTyped == TypeInv /\ Configure => TypeInv'
<1> SUFFICES ASSUME TypeInv, Configure PROVE TypeInv'
    OBVIOUS
<1>1. config' \in [Ids -> Hosts \cup {None}] /\ loops' \in [Ids -> SUBSET (Tasks \X Hosts)]
    BY PollingType DEF TypeInv, TypeOK, Configure
<1>2. changes' \in 0..MaxChanges
    BY BoundsAssumption DEF TypeInv, TypeOK, Configure
<1>3. stored' \in [Ids -> Reading \cup {None}]
    BY DEF TypeInv, TypeOK, Configure
<1>4. steady' \in [Requests -> SUBSET Ids]
    BY DEF TypeInv, TypeOK, Configure
<1>5. moved' \in [Requests -> BOOLEAN]
    BY DEF TypeInv, TypeOK, Configure
<1>6. UNCHANGED <<version, pc, job, target, host, cur, todo, answer, wrote, event, broken,
                  visited, asks, failures>>
    BY DEF Configure, frameVars, countVars
<1>. QED BY <1>1, <1>2, <1>3, <1>4, <1>5, <1>6 DEF TypeInv, TypeOK, FrameInv, Active

LEMMA PollTyped ==
    ASSUME TypeInv, NEW d \in Ids, NEW h \in Hosts, Poll(d, h) PROVE TypeInv'
<1>1. stored' \in [Ids -> Reading \cup {None}]
    BY SampleType, UpdateType DEF TypeInv, Poll
<1>. QED BY <1>1 DEF TypeInv, TypeOK, FrameInv, Active, Poll, configVars, frameVars,
                     histVars, countVars

LEMMA BreakType ==
    ASSUME TypeOK, NEW r \in Requests, Break(r)
    PROVE  /\ broken' \in [Requests -> BOOLEAN]
           /\ failures' \in 0..MaxFailures
           /\ asks' \in 0..MaxAsks
<1>1. failures' \in 0..MaxFailures
    BY BoundsAssumption DEF Break, TypeOK
<1>. QED BY <1>1 DEF Break, TypeOK

\* Types of what Ask sets.
LEMMA AskType ==
    ASSUME TypeOK, NEW r \in Requests, NEW j \in Commands \cup Views, NEW d \in Ids \cup {None},
           Ask(r, j, d)
    PROVE  /\ asks' \in 0..MaxAsks
           /\ job' \in [Requests -> Commands \cup Views]
           /\ target' \in [Requests -> Ids \cup {None}]
           /\ steady' \in [Requests -> SUBSET Ids]
<1>1. asks' \in 0..MaxAsks
    BY BoundsAssumption DEF Ask, TypeOK
<1>2. Configured \in SUBSET Ids
    BY DEF Configured
<1>. QED BY <1>1, <1>2 DEF Ask, TypeOK

\* A request that begins: it is answered at once or looks up an entry.
LEMMA BeginTyped ==
    ASSUME TypeInv, NEW r \in Requests, NEW j \in Commands \cup Views,
           NEW d \in Ids \cup {None}, Ask(r, j, d),
           ReplyTypes, ReplyFrames(r), pc'[r] # "answered" => d \in Ids
    PROVE  TypeInv'
<1>1. /\ asks' \in 0..MaxAsks
      /\ job' \in [Requests -> Commands \cup Views]
      /\ target' \in [Requests -> Ids \cup {None}]
      /\ steady' \in [Requests -> SUBSET Ids]
    BY AskType DEF TypeInv
<1>2. /\ UNCHANGED <<config, loops, changes, version, stored, wrote, event, broken, moved,
                     visited, failures>>
      /\ target' = [target EXCEPT ![r] = d]
    BY DEF Ask, configVars
<1>3. pc'[r] \in {"commanding", "refreshing"} => target'[r] \in Ids
    BY <1>2 DEF TypeInv, TypeOK
<1>. QED BY <1>1, <1>2, <1>3, Conclude DEF TypeInv, TypeOK

LEMMA ImmediateTyped ==
    ASSUME TypeInv, NEW r \in Requests, NEW j \in Commands \cup Views,
           NEW d \in Ids \cup {None}, Ask(r, j, d),
           NEW reply \in Answer, Reply(r, reply), host' = host
    PROVE  TypeInv'
<1>1. ReplyTypes /\ ReplyFrames(r) /\ pc'[r] = "answered"
    BY ReplyTyped DEF TypeInv, Reply, TypeOK
<1>. QED BY <1>1, BeginTyped

\* The look-up of a configured device.
LEMMA LookUpTyped ==
    ASSUME TypeInv, NEW r \in Requests, NEW j \in Commands \cup Views, NEW d \in Ids,
           Ask(r, j, d), NEW c \in Ids, NEW rest \in SUBSET Ids, config[c] # None,
           Enter(r, c, rest)
    PROVE  TypeInv'
<1>1. config[c] \in Hosts
    BY DEF TypeInv, TypeOK
<1>2. /\ pc' = [pc EXCEPT ![r] = "refreshing"]
      /\ cur' = [cur EXCEPT ![r] = c]
      /\ todo' = [todo EXCEPT ![r] = rest]
      /\ host' = [host EXCEPT ![r] = config[c]]
      /\ answer' = answer
    BY DEF Enter
<1>3. ReplyTypes
    BY <1>1, <1>2 DEF TypeInv, ReplyTypes, TypeOK
<1>4. ReplyFrames(r)
    BY <1>1, <1>2 DEF TypeInv, ReplyFrames, TypeOK
<1>. QED BY <1>3, <1>4, BeginTyped

LEMMA RejectTyped ==
    ASSUME TypeInv, NEW r \in Requests, NEW j \in Commands \cup Views, Reject(r, j)
    PROVE  TypeInv'
    BY Answers, ImmediateTyped DEF Reject

LEMMA CommandTyped ==
    ASSUME TypeInv, NEW r \in Requests, NEW j \in Commands, NEW d \in Ids, Command(r, j, d)
    PROVE  TypeInv'
<1>1. CASE Reply(r, Failure(404)) /\ host' = host
    BY <1>1, Answers, ImmediateTyped DEF Command
<1>2. CASE /\ config[d] # None
           /\ pc' = [pc EXCEPT ![r] = "commanding"]
           /\ host' = [host EXCEPT ![r] = config[d]]
           /\ UNCHANGED <<cur, todo, answer>>
    <2>1. config[d] \in Hosts
        BY <1>2 DEF TypeInv, TypeOK
    <2>2. ReplyTypes
        BY <1>2, <2>1 DEF ReplyTypes, TypeInv, TypeOK
    <2>3. ReplyFrames(r)
        BY <1>2, <2>1 DEF ReplyFrames, TypeInv, TypeOK
    <2>. QED BY <2>2, <2>3, BeginTyped DEF Command
<1>. QED BY <1>1, <1>2 DEF Command

LEMMA ViewTyped ==
    ASSUME TypeInv, NEW d \in Ids
    PROVE  \A j \in Views : View(j, d, stored, FALSE) \in Answer /\ View(j, d, stored, TRUE) \in Answer
<1>1. stored[d] \in Reading \cup {None}
    BY DEF TypeInv, TypeOK
<1>. QED BY <1>1 DEF View, Answer, Failure, Success

LEMMA StateTyped ==
    ASSUME TypeInv, NEW r \in Requests, NEW d \in Ids,
           \/ RefreshAll(r, d) \/ RefuseRefresh(r, d)
           \/ \E j \in Views : Show(r, j, d)
    PROVE  TypeInv'
<1>1. {"refresh_all", "bad_view"} \subseteq Views /\ Views \subseteq Commands \cup Views
    BY DEF Views
<1>2. ASSUME NEW j \in Views, Show(r, j, d) PROVE TypeInv'
    <2>1. CASE Reply(r, View(j, d, stored, FALSE)) /\ host' = host
        <3>1. View(j, d, stored, FALSE) \in Answer
            BY ViewTyped
        <3>. QED BY <1>1, <1>2, <2>1, <3>1, ImmediateTyped DEF Show
    <2>2. CASE config[d] # None /\ Enter(r, d, {})
        BY <1>1, <1>2, <2>2, LookUpTyped DEF Show
    <2>. QED BY <1>2, <2>1, <2>2 DEF Show
<1>3. CASE RefreshAll(r, d)
    <2>1. CASE Reply(r, View("refresh_all", d, stored, TRUE)) /\ host' = host
        <3>1. View("refresh_all", d, stored, TRUE) \in Answer
            BY <1>1, ViewTyped
        <3>. QED BY <1>1, <1>3, <2>1, <3>1, ImmediateTyped DEF RefreshAll
    <2>2. ASSUME NEW c \in Configured, Enter(r, c, Configured \ {c}) PROVE TypeInv'
        <3>1. c \in Ids /\ config[c] # None /\ Configured \ {c} \in SUBSET Ids
            BY DEF Configured
        <3>. QED BY <1>1, <1>3, <2>2, <3>1, LookUpTyped DEF RefreshAll
    <2>. QED BY <1>3, <2>1, <2>2 DEF RefreshAll
<1>4. CASE RefuseRefresh(r, d)
    BY <1>1, <1>4, Answers, ImmediateTyped DEF RefuseRefresh
<1>. QED BY <1>2, <1>3, <1>4

LEMMA ActTyped ==
    ASSUME TypeInv, NEW r \in Requests, Act(r) PROVE TypeInv'
<1>1. host[r] \in Hosts
    BY DEF TypeInv, FrameInv, Active, Act
<1>2. version' \in [Hosts -> Nat] /\ wrote' \in [Requests -> Reading \cup {None}]
    BY <1>1 DEF TypeInv, TypeOK, Act, Reading
<1>. QED BY <1>2 DEF TypeInv, TypeOK, FrameInv, Active, Act, configVars, frameVars,
                     countVars

LEMMA ReturnTyped ==
    ASSUME TypeInv, NEW r \in Requests, Return(r) PROVE TypeInv'
<1>1. target[r] \in Ids
    BY DEF TypeInv, FrameInv, Active, Return
<1>2. ReplyTypes /\ ReplyFrames(r)
    BY <1>1, EnterTyped DEF TypeInv, Return
<1>3. event' \in [Requests -> {"none", "executed", "failed"}]
    BY DEF Return, Announce, TypeInv, TypeOK
<1>4. UNCHANGED <<config, loops, changes, version, stored, job, target, wrote, broken, steady,
                  moved, visited, asks, failures>>
    BY DEF Return, configVars, countVars
<1>. QED BY <1>1, <1>2, <1>3, <1>4, Conclude DEF TypeInv, TypeOK

LEMMA RaiseTyped ==
    ASSUME TypeInv, NEW r \in Requests, Raise(r) PROVE TypeInv'
<1>1. /\ broken' \in [Requests -> BOOLEAN]
      /\ failures' \in 0..MaxFailures
      /\ asks' \in 0..MaxAsks
    BY BreakType DEF TypeInv, TypeOK, Raise, countVars
<1>2. event' \in [Requests -> {"none", "executed", "failed"}]
    BY DEF Raise, TypeInv, TypeOK
<1>3. ReplyTypes /\ ReplyFrames(r)
    BY Answers, ReplyTyped DEF TypeInv, Raise
<1>4. UNCHANGED <<config, loops, changes, version, stored, job, target, wrote, steady,
                  moved, visited>> /\ pc'[r] = "answered"
    BY DEF Raise, Reply, configVars, TypeInv, TypeOK
<1>. QED BY <1>1, <1>2, <1>3, <1>4, Conclude DEF TypeInv, TypeOK

LEMMA RefreshTyped ==
    ASSUME TypeInv, NEW r \in Requests, Refresh(r) PROVE TypeInv'
<1>1. host[r] \in Hosts /\ target[r] \in Ids /\ cur[r] \in Ids
    BY DEF TypeInv, FrameInv, Active, Refresh
<1>2. Sample(host[r]) \in Reading /\ stored' \in [Ids -> Reading \cup {None}]
    BY <1>1, SampleType, UpdateType DEF TypeInv, Refresh
<1>3. visited' \in [Requests -> SUBSET Ids]
    BY <1>1 DEF TypeInv, TypeOK, Refresh
<1>4. ReplyTypes /\ ReplyFrames(r)
    BY <1>1, <1>2, ContinueTyped DEF TypeInv, Refresh
<1>5. UNCHANGED <<config, loops, changes, version, job, target, wrote, event, broken, steady,
                  moved, asks, failures>>
    BY DEF Refresh, configVars, countVars
<1>. QED BY <1>1, <1>2, <1>3, <1>4, <1>5, Conclude DEF TypeInv, TypeOK

LEMMA RefreshFailsTyped ==
    ASSUME TypeInv, NEW r \in Requests, RefreshFails(r) PROVE TypeInv'
<1>1. target[r] \in Ids
    BY DEF TypeInv, FrameInv, Active, RefreshFails
<1>2. /\ broken' \in [Requests -> BOOLEAN]
      /\ failures' \in 0..MaxFailures
      /\ asks' \in 0..MaxAsks
    BY BreakType DEF TypeInv, RefreshFails
<1>3. ReplyTypes /\ ReplyFrames(r)
    BY <1>1, StopTyped DEF TypeInv, RefreshFails
<1>4. UNCHANGED <<config, loops, changes, version, stored, job, target, wrote, event, steady,
                  moved, visited>>
    BY DEF RefreshFails, configVars
<1>. QED BY <1>1, <1>2, <1>3, <1>4, Conclude DEF TypeInv, TypeOK

LEMMA CloseTyped ==
    ASSUME TypeInv, NEW r \in Requests, Close(r) PROVE TypeInv'
<1>1. ReplyTypes
    BY DEF TypeInv, TypeOK, Close, ReplyTypes
<1>2. ReplyFrames(r)
    BY DEF TypeInv, TypeOK, Close, ReplyFrames
<1>3. /\ job' \in [Requests -> Commands \cup Views]
      /\ target' \in [Requests -> Ids \cup {None}]
      /\ wrote' \in [Requests -> Reading \cup {None}]
      /\ event' \in [Requests -> {"none", "executed", "failed"}]
      /\ broken' \in [Requests -> BOOLEAN]
      /\ steady' \in [Requests -> SUBSET Ids]
      /\ moved' \in [Requests -> BOOLEAN]
      /\ visited' \in [Requests -> SUBSET Ids]
    BY DEF TypeInv, TypeOK, Close, Views
<1>4. UNCHANGED <<config, loops, changes, version, stored, asks, failures>>
    BY DEF Close, configVars, countVars
<1>5. pc'[r] = "idle" /\ \A q \in Requests \ {r} : target'[q] = target[q]
    BY DEF Close, TypeInv, TypeOK
<1>. QED BY <1>1, <1>2, <1>3, <1>4, <1>5, Conclude DEF TypeInv, TypeOK

LEMMA TypeStep == TypeInv /\ [Next]_vars => TypeInv'
<1> SUFFICES ASSUME TypeInv, [Next]_vars PROVE TypeInv'
    OBVIOUS
<1>1. CASE UNCHANGED vars
    BY <1>1 DEF vars, configVars, frameVars, histVars, countVars, TypeInv, TypeOK, FrameInv,
                Active
<1>2. CASE Configure
    BY <1>2, ConfigureTyped
<1>3. ASSUME NEW d \in Ids, NEW h \in Hosts, Poll(d, h) PROVE TypeInv'
    BY <1>3, PollTyped
<1>4. ASSUME NEW r \in Requests, NEW d \in Ids, Begin(r, d) PROVE TypeInv'
    BY <1>4, StateTyped, CommandTyped DEF Begin
<1>5. ASSUME NEW r \in Requests, NEW j \in Commands \cup Views, Reject(r, j) PROVE TypeInv'
    BY <1>5, RejectTyped
<1>6. ASSUME NEW r \in Requests, Serve(r) \/ Close(r) PROVE TypeInv'
    BY <1>6, ActTyped, ReturnTyped, RaiseTyped, RefreshTyped, RefreshFailsTyped, CloseTyped
       DEF Serve
<1>7. \A named \in Ids \cup {None} : Resolve(named) \subseteq Ids
    BY DEF Resolve, Configured
<1>. QED BY <1>1, <1>2, <1>3, <1>4, <1>5, <1>6, <1>7 DEF Next

LEMMA TypeInvariant == Spec => []TypeInv
    BY TypeInit, TypeStep, PTL DEF Spec

\* Frames, answers, registry and history keep their types for any requests,
\* devices and bounds.
THEOREM TypeCorrect == Spec => []TypeOK
<1>1. TypeInv => TypeOK
    BY DEF TypeInv
<1>. QED BY <1>1, TypeInvariant, PTL

----------------------------------------------------------------------------
(* What is answered *)

\* Between requests there is no history.
Fresh(r) ==
    pc[r] = "idle" => wrote[r] = None /\ event[r] = "none" /\ visited[r] = {} /\ ~moved[r]

\* Only a command writes, and nothing takes a write back.
Written(r) ==
    wrote[r] # None =>
        job[r] \in {"write", "half"} /\ wrote[r].version <= version[wrote[r].host]

\* Every write has its event, and the event tells what became of the command.
Told(r) ==
    /\ wrote[r] # None => event[r] # "none"
    /\ event[r] = "executed" =>
          job[r] = "read" \/ (job[r] = "write" /\ wrote[r] # None)
    /\ event[r] = "failed" => broken[r] \/ job[r] \in Faulty

\* What is known at an await: a command was announced before its refresh, and
\* only a refresh of all ids is at another id than its target.
AtAwait(r) ==
    /\ pc[r] = "commanding" => job[r] \in Commands /\ event[r] = "none"
    /\ pc[r] = "refreshing" =>
          /\ Told(r)
          /\ job[r] \in Commands => event[r] = "executed"
          /\ job[r] # "refresh_all" => cur[r] = target[r] /\ todo[r] = {}

\* The host of the command is still that of its target, unless the entry was
\* replaced.
SameHost(r) ==
    Active(r) /\ job[r] \in Commands /\ target[r] \in steady[r] =>
        /\ config[target[r]] = host[r]
        /\ wrote[r] # None => wrote[r].host = host[r]

\* Every id that was configured all the time was visited or will be.
Covered(r) ==
    pc[r] = "refreshing" /\ job[r] = "refresh_all" =>
        steady[r] \subseteq visited[r] \cup {cur[r]} \cup todo[r]

\* As long as no entry moves, all ids of the request stay configured, and what
\* it has read is stored.
Calm(r) ==
    Active(r) /\ ~moved[r] =>
        /\ steady[r] = Configured
        /\ pc[r] = "refreshing" => cur[r] \in steady[r] /\ todo[r] \subseteq steady[r]
        /\ \A d \in visited[r] : stored[d] # None

\* The four properties, for one request.
Sound(r) ==
    Answered(r) =>
        /\ job[r] = "write" /\ answer[r].status = 200 =>
              /\ wrote[r] # None /\ event[r] = "executed"
              /\ target[r] \in steady[r] =>
                    /\ answer[r].state.host = wrote[r].host
                    /\ answer[r].state.version >= wrote[r].version
        /\ Told(r)
        /\ answer[r].status # 200 \/ (job[r] = "refresh_all" /\ ~answer[r].refreshed) =>
              broken[r] \/ moved[r] \/ job[r] \in Faulty \/ target[r] \notin steady[r]
        /\ answer[r].refreshed => steady[r] \subseteq visited[r]

ReqInv(r) ==
    Fresh(r) /\ Written(r) /\ AtAwait(r) /\ SameHost(r) /\ Covered(r) /\ Calm(r) /\ Sound(r)

AnswerInv == TypeInv /\ \A r \in Requests : ReqInv(r)

\* Other requests write, store and are answered without changing what is true
\* of this one.
LEMMA Others ==
    ASSUME TypeInv, NEW q \in Requests, ReqInv(q),
           config' = config,
           \A h \in Hosts : version'[h] >= version[h] /\ version'[h] \in Nat,
           \A d \in Ids : stored[d] # None => stored'[d] # None,
           pc'[q] = pc[q], job'[q] = job[q], target'[q] = target[q], host'[q] = host[q],
           cur'[q] = cur[q], todo'[q] = todo[q], answer'[q] = answer[q],
           wrote'[q] = wrote[q], event'[q] = event[q], broken'[q] = broken[q],
           steady'[q] = steady[q], moved'[q] = moved[q], visited'[q] = visited[q]
    PROVE  ReqInv(q)'
<1> USE DEF ReqInv
<1>1. Fresh(q)' /\ AtAwait(q)' /\ Covered(q)'
    BY DEF Fresh, AtAwait, Told, Covered
<1>2. Written(q)'
    <2>1. wrote[q] # None => wrote[q].host \in Hosts /\ wrote[q].version \in Nat
        BY DEF TypeInv, TypeOK, Reading
    <2>2. \A h \in Hosts : version[h] \in Nat
        BY DEF TypeInv, TypeOK
    <2>. QED BY <2>1, <2>2 DEF Written
<1>3. SameHost(q)'
    BY DEF SameHost, Active
<1>4. Calm(q)'
    <2>1. visited[q] \subseteq Ids /\ Configured' = Configured
        BY DEF TypeInv, TypeOK, Configured
    <2>. QED BY <2>1 DEF Calm, Active
<1>5. Sound(q)'
    BY DEF Sound, Told, Answered
<1>. QED BY <1>1, <1>2, <1>3, <1>4, <1>5

\* A reading that is stored is never taken back by storing another.
LEMMA StoredKept ==
    ASSUME TypeInv, NEW d \in Ids, NEW reading \in Reading,
           stored' = UpdateState(d, reading)
    PROVE  /\ \A e \in Ids : stored[e] # None => stored'[e] # None
           /\ config[d] # None => stored'[d] # None
    BY NoneAssumption DEF UpdateState, TypeInv, TypeOK

LEMMA ConfigureAnswers ==
    ASSUME AnswerInv, NEW r \in Requests, Configure PROVE ReqInv(r)'
<1> USE DEF AnswerInv, ReqInv
<1>1. /\ UNCHANGED <<version, pc, job, target, host, cur, todo, answer, wrote, event, broken,
                     visited>>
      /\ steady'[r] = IF Active(r) THEN {d \in steady[r] : ~Replaced(d)} ELSE steady[r]
      /\ moved'[r] = (moved[r] \/ (Active(r) /\ \E d \in Ids : Replaced(d)))
      /\ \A d \in Ids : stored'[d] = IF Replaced(d) THEN None ELSE stored[d]
      /\ \A d \in Ids : ~Replaced(d) => config'[d] = config[d]
      /\ steady[r] \subseteq Ids /\ visited[r] \subseteq Ids
    BY DEF Configure, frameVars, countVars, Replaced, TypeInv, TypeOK
<1>2. Active(r)' <=> Active(r)
    BY <1>1 DEF Active
<1>3. Fresh(r)' /\ Written(r)' /\ AtAwait(r)'
    BY <1>1 DEF Fresh, Written, AtAwait, Told, Active
<1>4. SameHost(r)'
    BY <1>1, <1>2 DEF SameHost
<1>5. Covered(r)'
    BY <1>1 DEF Covered, Active
<1>6. Calm(r)'
    <2> SUFFICES ASSUME Active(r), ~moved'[r] PROVE Calm(r)'
        BY <1>2 DEF Calm
    <2>1. ~moved[r] /\ \A d \in Ids : ~Replaced(d)
        BY <1>1
    <2>2. steady'[r] = steady[r] /\ Configured' = Configured
        BY <1>1, <2>1 DEF Configured
    <2>3. \A d \in visited[r] : stored'[d] # None
        BY <1>1, <2>1 DEF Calm
    <2>. QED BY <1>1, <1>2, <2>1, <2>2, <2>3 DEF Calm
<1>7. Sound(r)'
    BY <1>1 DEF Sound, Told, Answered, Active
<1>. QED BY <1>3, <1>4, <1>5, <1>6, <1>7

\* The step of one request leaves the rest of the others alone.
OnlyOf(r) ==
    \A q \in Requests \ {r} :
        /\ job'[q] = job[q] /\ target'[q] = target[q]
        /\ wrote'[q] = wrote[q] /\ event'[q] = event[q] /\ broken'[q] = broken[q]
        /\ steady'[q] = steady[q] /\ moved'[q] = moved[q] /\ visited'[q] = visited[q]

Kept ==
    /\ config' = config
    /\ \A h \in Hosts : version'[h] >= version[h] /\ version'[h] \in Nat
    /\ \A d \in Ids : stored[d] # None => stored'[d] # None

LEMMA OthersKept ==
    ASSUME AnswerInv, NEW r \in Requests, ReplyFrames(r), OnlyOf(r), Kept, ReqInv(r)'
    PROVE  \A q \in Requests : ReqInv(q)'
<1> SUFFICES ASSUME NEW q \in Requests \ {r} PROVE ReqInv(q)'
    OBVIOUS
<1>. QED BY Others DEF AnswerInv, ReplyFrames, OnlyOf, Kept

\* With the version unchanged, the registry keeps what is known of it.
LEMMA SameVersion ==
    ASSUME TypeInv, version' = version
    PROVE  \A h \in Hosts : version'[h] >= version[h] /\ version'[h] \in Nat
    BY DEF TypeInv, TypeOK

LEMMA AnsweredInv ==
    ASSUME NEW r \in Requests, pc'[r] = "answered", Written(r)', Sound(r)'
    PROVE  ReqInv(r)'
    BY DEF ReqInv, Fresh, AtAwait, SameHost, Covered, Calm, Active

\* An exception is an excused answer.
LEMMA StopSound ==
    ASSUME TypeInv, NEW r \in Requests, NEW status \in {400, 404}, Stop(r, status),
           job'[r] = job[r],
           broken'[r] \/ moved'[r] \/ target'[r] \notin steady'[r],
           Told(r)'
    PROVE  Sound(r)' /\ pc'[r] = "answered"
<1>1. \A reply : Reply(r, reply) => pc'[r] = "answered" /\ answer'[r] = reply
    BY DEF Reply, TypeInv, TypeOK
<1>2. ASSUME NEW code \in {400, 404}, Reply(r, Failure(code))
      PROVE  Sound(r)' /\ pc'[r] = "answered"
    <2>1. /\ answer'[r].status = code /\ answer'[r].refreshed = FALSE
          /\ pc'[r] = "answered" /\ code # 200
        BY <1>1, <1>2 DEF Failure
    <2>. QED BY <2>1 DEF Sound, Answered
<1>3. CASE job[r] = "refresh_all" /\ Reply(r, View(job[r], target[r], stored, FALSE))
    <2>1. pc'[r] = "answered" /\ answer'[r].refreshed = FALSE
        BY <1>1, <1>3 DEF View, Failure, Success
    <2>. QED BY <1>3, <2>1 DEF Sound, Answered
<1>. QED BY <1>2, <1>3 DEF Stop

\* The answers of requests that go no further than their first look.
LEMMA AskFacts ==
    ASSUME AnswerInv, NEW r \in Requests, NEW j \in Commands \cup Views,
           NEW d \in Ids \cup {None}, Ask(r, j, d)
    PROVE  /\ job'[r] = j /\ target'[r] = d /\ steady'[r] = Configured
           /\ wrote'[r] = None /\ event'[r] = "none" /\ visited'[r] = {} /\ ~moved'[r]
           /\ OnlyOf(r) /\ Kept
           /\ Configured' = Configured /\ stored' = stored /\ config' = config
<1>1. /\ pc[r] = "idle"
      /\ job' = [job EXCEPT ![r] = j]
      /\ target' = [target EXCEPT ![r] = d]
      /\ steady' = [steady EXCEPT ![r] = Configured]
      /\ UNCHANGED <<config, version, stored, wrote, event, broken, moved, visited>>
    BY DEF Ask, configVars
<1>2. wrote[r] = None /\ event[r] = "none" /\ visited[r] = {} /\ ~moved[r]
    BY <1>1 DEF AnswerInv, ReqInv, Fresh
<1>3. OnlyOf(r) /\ Kept
    BY <1>1, SameVersion DEF OnlyOf, Kept, AnswerInv
<1>. QED BY <1>1, <1>2, <1>3 DEF AnswerInv, TypeInv, TypeOK, Configured

LEMMA RefusalAnswers ==
    ASSUME AnswerInv, NEW r \in Requests, NEW j \in Commands \cup Views,
           NEW d \in Ids \cup {None}, Ask(r, j, d),
           NEW status \in {400, 404}, Reply(r, Failure(status)), host' = host,
           j \in Faulty \/ d \notin Configured
    PROVE  AnswerInv'
<1>1. TypeInv' /\ ReplyFrames(r)
    BY Answers, ImmediateTyped, ReplyTyped DEF AnswerInv, TypeInv
<1>2. pc'[r] = "answered" /\ answer'[r] = Failure(status)
    BY DEF Reply, AnswerInv, TypeInv, TypeOK
<1>3. /\ job'[r] = j /\ target'[r] = d /\ steady'[r] = Configured
      /\ wrote'[r] = None /\ event'[r] = "none"
      /\ OnlyOf(r) /\ Kept
    BY AskFacts
<1>4. Sound(r)'
    BY <1>2, <1>3 DEF Sound, Told, Answered, Failure
<1>5. ReqInv(r)'
    BY <1>2, <1>3, <1>4, AnsweredInv DEF Written
<1>. QED BY <1>1, <1>3, <1>5, OthersKept DEF AnswerInv

\* A look-up that finds its entry.
LEMMA LookUpInv ==
    ASSUME AnswerInv, NEW r \in Requests, NEW j \in Views, NEW d \in Ids,
           Ask(r, j, d), NEW c \in Configured, NEW rest \in SUBSET Configured,
           Enter(r, c, rest),
           j # "refresh_all" => c = d /\ rest = {},
           j = "refresh_all" => rest = Configured \ {c}
    PROVE  AnswerInv'
<1>1. c \in Ids /\ config[c] # None /\ rest \in SUBSET Ids
    BY DEF Configured
<1>2. TypeInv'
    BY <1>1, LookUpTyped DEF AnswerInv
<1>3. /\ pc' = [pc EXCEPT ![r] = "refreshing"]
      /\ cur' = [cur EXCEPT ![r] = c]
      /\ todo' = [todo EXCEPT ![r] = rest]
      /\ host' = [host EXCEPT ![r] = config[c]]
      /\ answer' = answer
    BY <1>1 DEF Enter
<1>4. /\ pc'[r] = "refreshing" /\ cur'[r] = c /\ todo'[r] = rest
      /\ \A q \in Requests \ {r} :
            /\ pc'[q] = pc[q] /\ cur'[q] = cur[q] /\ todo'[q] = todo[q]
            /\ host'[q] = host[q] /\ answer'[q] = answer[q]
    BY <1>3 DEF AnswerInv, TypeInv, TypeOK
<1>5. ReplyFrames(r)
    BY <1>2, <1>4 DEF ReplyFrames, TypeInv, FrameInv, Active
<1>6. /\ job'[r] = j /\ target'[r] = d /\ steady'[r] = Configured
      /\ wrote'[r] = None /\ event'[r] = "none" /\ visited'[r] = {} /\ ~moved'[r]
      /\ OnlyOf(r) /\ Kept /\ Configured' = Configured
    BY AskFacts
<1>7. j \notin Commands
    BY DEF Commands, Views
<1>8. Fresh(r)' /\ Written(r)' /\ AtAwait(r)' /\ SameHost(r)' /\ Covered(r)' /\ Sound(r)'
    BY <1>4, <1>6, <1>7
       DEF Fresh, Written, AtAwait, Told, SameHost, Covered, Sound, Answered
<1>9. Calm(r)'
    BY <1>4, <1>6 DEF Calm
<1>. QED BY <1>2, <1>5, <1>6, <1>8, <1>9, OthersKept DEF AnswerInv, ReqInv

LEMMA RejectAnswers ==
    ASSUME AnswerInv, NEW r \in Requests, NEW j \in Commands \cup Views, Reject(r, j)
    PROVE  AnswerInv'
<1>1. None \notin Configured
    BY NoneAssumption DEF Configured
<1>. QED BY <1>1, RefusalAnswers DEF Reject, Faulty

LEMMA CommandAnswers ==
    ASSUME AnswerInv, NEW r \in Requests, NEW j \in Commands, NEW d \in Ids, Command(r, j, d)
    PROVE  AnswerInv'
<1>1. CASE config[d] = None /\ Reply(r, Failure(404)) /\ host' = host
    <2>1. d \notin Configured
        BY <1>1 DEF Configured
    <2>. QED BY <1>1, <2>1, RefusalAnswers DEF Command
<1>2. CASE /\ config[d] # None
           /\ pc' = [pc EXCEPT ![r] = "commanding"]
           /\ host' = [host EXCEPT ![r] = config[d]]
           /\ UNCHANGED <<cur, todo, answer>>
    <2>1. TypeInv'
        BY CommandTyped DEF AnswerInv
    <2>2. /\ pc'[r] = "commanding" /\ host'[r] = config[d]
          /\ \A q \in Requests \ {r} :
                /\ pc'[q] = pc[q] /\ cur'[q] = cur[q] /\ todo'[q] = todo[q]
                /\ host'[q] = host[q] /\ answer'[q] = answer[q]
        BY <1>2 DEF AnswerInv, TypeInv, TypeOK
    <2>3. ReplyFrames(r)
        BY <2>1, <2>2 DEF ReplyFrames, TypeInv, FrameInv, Active
    <2>4. /\ job'[r] = j /\ target'[r] = d /\ steady'[r] = Configured
          /\ wrote'[r] = None /\ event'[r] = "none" /\ visited'[r] = {} /\ ~moved'[r]
          /\ OnlyOf(r) /\ Kept /\ Configured' = Configured /\ config' = config
        BY AskFacts DEF Command
    <2>5. Fresh(r)' /\ Written(r)' /\ AtAwait(r)' /\ SameHost(r)' /\ Covered(r)' /\ Sound(r)'
        BY <2>2, <2>4 DEF Fresh, Written, AtAwait, SameHost, Covered, Sound, Answered
    <2>6. Calm(r)'
        BY <2>2, <2>4 DEF Calm
    <2>. QED BY <2>1, <2>3, <2>4, <2>5, <2>6, OthersKept DEF AnswerInv, ReqInv
<1>. QED BY <1>1, <1>2 DEF Command

\* An answer of /state that needs no reading.
LEMMA ViewAnswers ==
    ASSUME AnswerInv, NEW r \in Requests, NEW j \in Views, NEW d \in Ids, Ask(r, j, d),
           NEW b \in BOOLEAN, b <=> j = "refresh_all",
           Reply(r, View(j, d, stored, b)), host' = host,
           stored[d] = None => d \notin Configured,
           b => Configured = {}
    PROVE  AnswerInv'
<1>1. View(j, d, stored, b) \in Answer
    <2>1. stored[d] \in Reading \cup {None}
        BY DEF AnswerInv, TypeInv, TypeOK
    <2>. QED BY <2>1 DEF View, Answer, Failure, Success
<1>2. TypeInv' /\ ReplyFrames(r)
    BY <1>1, ImmediateTyped, ReplyTyped DEF AnswerInv, TypeInv
<1>3. pc'[r] = "answered" /\ answer'[r] = View(j, d, stored, b)
    BY DEF Reply, AnswerInv, TypeInv, TypeOK
<1>4. /\ job'[r] = j /\ target'[r] = d /\ steady'[r] = Configured
      /\ wrote'[r] = None /\ event'[r] = "none"
      /\ OnlyOf(r) /\ Kept
    BY AskFacts
<1>5. Sound(r)'
    <2>1. j # "write"
        BY DEF Views
    <2>2. Told(r)'
        BY <1>4 DEF Told
    <2>3. CASE j = "bad_view"
        <3>1. answer'[r].status = 400 /\ answer'[r].refreshed = FALSE
            BY <1>3, <2>3 DEF View, Failure
        <3>. QED BY <1>3, <1>4, <2>1, <2>2, <2>3, <3>1 DEF Sound, Answered, Faulty
    <2>4. CASE j # "bad_view" /\ stored[d] = None
        <3>1. answer'[r].status = 404 /\ answer'[r].refreshed = FALSE
            BY <1>3, <2>4 DEF View, Failure
        <3>. QED BY <1>3, <1>4, <2>1, <2>2, <2>4, <3>1 DEF Sound, Answered
    <2>5. CASE j # "bad_view" /\ stored[d] # None
        <3>1. answer'[r].status = 200 /\ (answer'[r].refreshed <=> b)
            BY <1>3, <2>5 DEF View, Success
        <3>. QED BY <1>3, <1>4, <2>1, <2>2, <3>1 DEF Sound, Answered
    <2>. QED BY <2>3, <2>4, <2>5
<1>6. ReqInv(r)'
    BY <1>3, <1>4, <1>5, AnsweredInv DEF Written
<1>. QED BY <1>2, <1>4, <1>6, OthersKept DEF AnswerInv

LEMMA StateAnswers ==
    ASSUME AnswerInv, NEW r \in Requests, NEW d \in Ids,
           \/ RefreshAll(r, d) \/ RefuseRefresh(r, d)
           \/ \E j \in Views : Show(r, j, d)
    PROVE  AnswerInv'
<1>1. {"refresh_all", "bad_view"} \subseteq Views
    BY DEF Views
<1>2. ASSUME NEW j \in Views, Show(r, j, d) PROVE AnswerInv'
    <2>0. Ask(r, j, d) /\ j # "refresh_all"
        BY <1>2 DEF Show
    <2>1. CASE /\ stored[d] # None \/ config[d] = None
               /\ Reply(r, View(j, d, stored, FALSE)) /\ host' = host
        <3>1. stored[d] = None => d \notin Configured
            BY <2>1 DEF Configured
        <3>. QED BY <2>0, <2>1, <3>1, ViewAnswers
    <2>2. CASE config[d] # None /\ Enter(r, d, {})
        <3>1. d \in Configured /\ {} \in SUBSET Configured
            BY <2>2 DEF Configured
        <3>. QED BY <2>0, <2>2, <3>1, LookUpInv
    <2>. QED BY <1>2, <2>1, <2>2 DEF Show
<1>3. CASE RefreshAll(r, d)
    <2>1. CASE Configured = {} /\ Reply(r, View("refresh_all", d, stored, TRUE)) /\ host' = host
        BY <1>1, <1>3, <2>1, ViewAnswers DEF RefreshAll
    <2>2. ASSUME NEW c \in Configured, Enter(r, c, Configured \ {c}) PROVE AnswerInv'
        <3>1. Configured \ {c} \in SUBSET Configured
            OBVIOUS
        <3>. QED BY <1>1, <1>3, <2>2, <3>1, LookUpInv DEF RefreshAll
    <2>. QED BY <1>3, <2>1, <2>2 DEF RefreshAll
<1>4. CASE RefuseRefresh(r, d)
    BY <1>1, <1>4, RefusalAnswers DEF RefuseRefresh, Faulty
<1>. QED BY <1>2, <1>3, <1>4

LEMMA ActAnswers ==
    ASSUME AnswerInv, NEW r \in Requests, Act(r) PROVE AnswerInv'
<1> USE DEF AnswerInv
<1>1. TypeInv'
    BY ActTyped
<1>2. host[r] \in Hosts /\ version[host[r]] \in Nat
    BY DEF TypeInv, FrameInv, Active, Act, TypeOK
<1>3. /\ pc[r] = "commanding" /\ job[r] \in {"write", "half"}
      /\ wrote'[r] = [host |-> host[r], version |-> version[host[r]] + 1]
      /\ version' = [version EXCEPT ![host[r]] = @ + 1]
      /\ \A q \in Requests \ {r} : wrote'[q] = wrote[q]
      /\ UNCHANGED <<config, stored, pc, job, target, host, cur, todo, answer, event, broken,
                     steady, moved, visited>>
    BY DEF Act, configVars, frameVars, countVars, TypeInv, TypeOK
<1>4. Kept
    BY <1>2, <1>3 DEF Kept, TypeInv, TypeOK
<1>5. OnlyOf(r) /\ ReplyFrames(r)
    BY <1>1, <1>3 DEF OnlyOf, ReplyFrames, TypeInv, FrameInv, Active
<1>6. Written(r)'
    BY <1>2, <1>3 DEF Written, TypeInv, TypeOK
<1>7. ReqInv(r)
    OBVIOUS
<1>8. Fresh(r)' /\ AtAwait(r)' /\ SameHost(r)' /\ Covered(r)' /\ Sound(r)'
    BY <1>3, <1>7 DEF ReqInv, Fresh, AtAwait, SameHost, Active, Covered, Sound, Answered
<1>9. Calm(r)'
    BY <1>3, <1>7 DEF ReqInv, Calm, Active, Configured
<1>. QED BY <1>1, <1>4, <1>5, <1>6, <1>8, <1>9, OthersKept DEF ReqInv

LEMMA ReturnAnswers ==
    ASSUME AnswerInv, NEW r \in Requests, Return(r) PROVE AnswerInv'
<1> USE DEF AnswerInv
<1>1. /\ TypeInv' /\ ReqInv(r) /\ pc[r] = "commanding"
      /\ target[r] \in Ids /\ target[r] # None
    BY ReturnTyped, NoneAssumption DEF Return, TypeInv, FrameInv, Active
<1>2. ReplyFrames(r)
    BY <1>1, EnterTyped DEF TypeInv, Return
<1>3. /\ UNCHANGED <<config, version, stored, job, target, wrote, broken, steady, moved,
                     visited>>
      /\ event'[r] = "executed"
      /\ \A q \in Requests \ {r} : event'[q] = event[q]
    BY DEF Return, Announce, configVars, countVars, TypeInv, TypeOK
<1>4. OnlyOf(r) /\ Kept
    BY <1>3, SameVersion DEF OnlyOf, Kept
<1>5. Written(r)'
    BY <1>1, <1>3 DEF ReqInv, Written
<1>5a. Told(r)'
    BY <1>3 DEF Told, Return
<1>6. CASE config[target[r]] = None /\ Stop(r, 404)
    <2>1. moved'[r] \/ target'[r] \notin steady'[r]
        BY <1>1, <1>3, <1>6 DEF ReqInv, Calm, Active, Configured
    <2>2. Sound(r)' /\ pc'[r] = "answered"
        BY <1>3, <1>5a, <1>6, <2>1, StopSound
    <2>3. ReqInv(r)'
        BY <1>5, <2>2, AnsweredInv
    <2>. QED BY <1>1, <1>2, <1>4, <2>3, OthersKept
<1>7. CASE /\ config[target[r]] # None
           /\ pc' = [pc EXCEPT ![r] = "refreshing"]
           /\ cur' = [cur EXCEPT ![r] = target[r]]
           /\ todo' = [todo EXCEPT ![r] = {}]
           /\ host' = [host EXCEPT ![r] = config[target[r]]]
    <2>1. /\ pc'[r] = "refreshing" /\ cur'[r] = target[r] /\ todo'[r] = {}
          /\ host'[r] = config[target[r]]
        BY <1>7 DEF TypeInv, TypeOK
    <2>2. job[r] \in Commands /\ job[r] # "refresh_all"
        BY <1>1 DEF Return, ReqInv, AtAwait
    <2>4. Fresh(r)' /\ AtAwait(r)' /\ Covered(r)' /\ Sound(r)'
        BY <1>3, <1>5a, <2>1, <2>2 DEF Fresh, AtAwait, Covered, Sound, Answered
    <2>5. SameHost(r)'
        BY <1>1, <1>3, <2>1, <2>2 DEF ReqInv, SameHost, Active
    <2>6. Calm(r)'
        <3> SUFFICES ASSUME ~moved[r] PROVE Calm(r)'
            BY <1>3 DEF Calm
        <3>1. steady[r] = Configured /\ \A d \in visited[r] : stored[d] # None
            BY <1>1 DEF ReqInv, Calm, Active
        <3>2. target[r] \in Configured
            BY <1>1, <1>7 DEF Configured
        <3>3. Configured' = Configured
            BY <1>3 DEF Configured
        <3>. QED BY <1>3, <2>1, <3>1, <3>2, <3>3 DEF Calm
    <2>. QED BY <1>1, <1>2, <1>4, <1>5, <2>4, <2>5, <2>6, OthersKept DEF ReqInv
<1>. QED BY <1>6, <1>7 DEF Return, Enter

LEMMA RaiseAnswers ==
    ASSUME AnswerInv, NEW r \in Requests, Raise(r) PROVE AnswerInv'
<1> USE DEF AnswerInv
<1>1. TypeInv' /\ ReqInv(r) /\ pc[r] = "commanding"
    BY RaiseTyped DEF Raise
<1>2. ReplyFrames(r)
    BY Answers, ReplyTyped DEF TypeInv, Raise
<1>3. UNCHANGED <<config, version, stored, job, target, host, wrote, steady, moved, visited>>
    BY DEF Raise, configVars
<1>4. /\ pc'[r] = "answered" /\ answer'[r] = Failure(400)
      /\ job[r] \in Faulty \/ broken'[r]
      /\ event'[r] = "failed"
      /\ \A q \in Requests \ {r} : broken'[q] = broken[q] /\ event'[q] = event[q]
    BY DEF Raise, Reply, Break, Faulty, TypeInv, TypeOK
<1>5. OnlyOf(r) /\ Kept
    BY <1>3, <1>4, SameVersion DEF OnlyOf, Kept
<1>6. Written(r)'
    BY <1>1, <1>3 DEF ReqInv, Written
<1>7. Sound(r)'
    BY <1>3, <1>4 DEF Sound, Told, Answered, Failure
<1>8. ReqInv(r)'
    BY <1>4, <1>6, <1>7, AnsweredInv
<1>. QED BY <1>1, <1>2, <1>5, <1>8, OthersKept

LEMMA RefreshFailsAnswers ==
    ASSUME AnswerInv, NEW r \in Requests, RefreshFails(r) PROVE AnswerInv'
<1> USE DEF AnswerInv
<1>1. TypeInv' /\ ReqInv(r) /\ target[r] \in Ids /\ pc[r] = "refreshing"
    BY RefreshFailsTyped DEF RefreshFails, TypeInv, FrameInv, Active
<1>2. ReplyFrames(r)
    BY <1>1, StopTyped DEF TypeInv, RefreshFails
<1>3. UNCHANGED <<config, version, stored, job, target, host, wrote, event, steady, moved,
                  visited>>
    BY DEF RefreshFails, configVars
<1>4. broken'[r] /\ \A q \in Requests \ {r} : broken'[q] = broken[q]
    BY DEF RefreshFails, Break, TypeInv, TypeOK
<1>5. OnlyOf(r) /\ Kept
    BY <1>3, <1>4, SameVersion DEF OnlyOf, Kept
<1>6. Written(r)'
    BY <1>1, <1>3 DEF ReqInv, Written
<1>7. Sound(r)' /\ pc'[r] = "answered"
    <2>1. Told(r)'
        BY <1>1, <1>3, <1>4 DEF ReqInv, AtAwait, Told
    <2>. QED BY <1>3, <1>4, <2>1, StopSound DEF RefreshFails
<1>8. ReqInv(r)'
    BY <1>6, <1>7, AnsweredInv
<1>. QED BY <1>1, <1>2, <1>5, <1>8, OthersKept

LEMMA CloseAnswers ==
    ASSUME AnswerInv, NEW r \in Requests, Close(r) PROVE AnswerInv'
<1> USE DEF AnswerInv
<1>1. TypeInv'
    BY CloseTyped
<1>2. UNCHANGED <<config, version, stored, cur, todo>>
    BY DEF Close, configVars
<1>3. /\ pc'[r] = "idle" /\ wrote'[r] = None /\ event'[r] = "none" /\ visited'[r] = {} /\ ~moved'[r]
      /\ \A q \in Requests \ {r} :
            /\ pc'[q] = pc[q] /\ job'[q] = job[q] /\ target'[q] = target[q]
            /\ host'[q] = host[q] /\ answer'[q] = answer[q] /\ wrote'[q] = wrote[q]
            /\ event'[q] = event[q] /\ broken'[q] = broken[q] /\ steady'[q] = steady[q]
            /\ moved'[q] = moved[q] /\ visited'[q] = visited[q]
    BY DEF Close, TypeInv, TypeOK
<1>4. OnlyOf(r) /\ Kept /\ ReplyFrames(r)
    BY <1>2, <1>3, SameVersion DEF OnlyOf, Kept, ReplyFrames
<1>5. ReqInv(r)'
    BY <1>3 DEF ReqInv, Fresh, Written, AtAwait, SameHost, Covered, Calm, Sound, Active, Answered
<1>. QED BY <1>1, <1>4, <1>5, OthersKept

LEMMA RefreshAnswers ==
    ASSUME AnswerInv, NEW r \in Requests, Refresh(r) PROVE AnswerInv'
<1> USE DEF AnswerInv
<1>1. /\ TypeInv' /\ ReqInv(r) /\ pc[r] = "refreshing"
      /\ host[r] \in Hosts /\ target[r] \in Ids /\ cur[r] \in Ids
    BY RefreshTyped DEF Refresh, TypeInv, FrameInv, Active
<1>2. Sample(host[r]) \in Reading
    BY <1>1, SampleType DEF TypeInv
<1>3. /\ \A d \in Ids : stored[d] # None => stored'[d] # None
      /\ config[cur[r]] # None => stored'[cur[r]] # None
    BY <1>1, <1>2, StoredKept DEF Refresh
<1>4. /\ UNCHANGED <<config, version, job, target, wrote, event, broken, steady, moved>>
      /\ visited'[r] = visited[r] \cup {cur[r]}
      /\ \A q \in Requests \ {r} : visited'[q] = visited[q]
      /\ visited[r] \subseteq Ids /\ todo[r] \subseteq Ids
    BY DEF Refresh, configVars, countVars, TypeInv, TypeOK
<1>5. OnlyOf(r) /\ Kept
    BY <1>3, <1>4, SameVersion DEF OnlyOf, Kept
<1>6. Written(r)'
    BY <1>1, <1>4 DEF ReqInv, Written
<1>7. ReplyFrames(r)
    <2>1. stored' \in [Ids -> Reading \cup {None}]
        BY <1>1 DEF TypeInv, TypeOK
    <2>. QED BY <1>1, <1>2, <2>1, ContinueTyped DEF TypeInv, Refresh
<1>8. ~moved[r] => \A d \in visited'[r] : stored'[d] # None
    BY <1>1, <1>3, <1>4 DEF ReqInv, Calm, Active, Configured
<1>9. \A reply : Reply(r, reply) => pc'[r] = "answered" /\ answer'[r] = reply
    BY DEF Reply, TypeInv, TypeOK
<1>9a. Told(r)'
    BY <1>1, <1>4 DEF ReqInv, AtAwait, Told
<1>10. CASE job[r] \in Commands /\ Reply(r, Success(Shown(r, Sample(host[r])), FALSE))
    <2>1. /\ pc'[r] = "answered" /\ answer'[r].status = 200 /\ answer'[r].refreshed = FALSE
          /\ answer'[r].state.host = host[r] /\ answer'[r].state.version = version[host[r]]
          /\ job[r] # "refresh_all"
        BY <1>9, <1>10 DEF Success, Shown, Sample, Commands
    <2>2. job[r] = "write" => wrote[r] # None /\ event[r] = "executed"
        BY <1>1, <1>10 DEF ReqInv, AtAwait, Told
    <2>3. wrote[r] # None =>
              /\ event[r] = "executed"
              /\ target[r] \in steady[r] =>
                    wrote[r].host = host[r] /\ version[host[r]] >= wrote[r].version
        <3>1. wrote[r] # None => wrote[r].version \in Nat /\ wrote[r].host \in Hosts
            BY DEF TypeInv, TypeOK, Reading
        <3>2. version[host[r]] \in Nat
            BY <1>1 DEF TypeInv, TypeOK
        <3>. QED BY <1>1, <1>10, <3>1, <3>2 DEF ReqInv, AtAwait, SameHost, Written, Active
    <2>4. Sound(r)'
        BY <1>4, <1>9a, <2>1, <2>2, <2>3 DEF Sound, Answered
    <2>5. ReqInv(r)'
        BY <1>6, <2>1, <2>4, AnsweredInv
    <2>. QED BY <1>1, <1>5, <1>7, <2>5, OthersKept
<1>11. CASE /\ job[r] \in Views /\ todo[r] = {}
            /\ Reply(r, View(job[r], target[r], stored', job[r] = "refresh_all"))
    <2>1. pc'[r] = "answered" /\ answer'[r] = View(job[r], target[r], stored', job[r] = "refresh_all")
        BY <1>9, <1>11
    <2>2. job[r] # "write" /\ Told(r)'
        BY <1>9a, <1>11 DEF Views
    <2>3. job[r] = "refresh_all" => steady[r] \subseteq visited'[r]
        BY <1>1, <1>4, <1>11 DEF ReqInv, Covered
    <2>3a. CASE job[r] = "bad_view"
        <3>1. answer'[r].status = 400 /\ answer'[r].refreshed = FALSE
            BY <2>1, <2>3a DEF View, Failure
        <3>. QED BY <1>1, <1>4, <1>5, <1>6, <1>7, <2>1, <2>2, <2>3a, <3>1, AnsweredInv, OthersKept
                 DEF Sound, Answered, Faulty
    <2>4. CASE job[r] # "bad_view" /\ stored'[target[r]] = None
        <3>1. answer'[r].status = 404 /\ answer'[r].refreshed = FALSE
            BY <2>1, <2>4 DEF View, Failure
        <3>2. moved[r] \/ target[r] \notin steady[r]
            BY <1>1, <1>4, <1>8, <1>11, <2>3, <2>4 DEF ReqInv, AtAwait, Commands
        <3>. QED BY <1>1, <1>4, <1>5, <1>6, <1>7, <2>1, <2>2, <3>1, <3>2, AnsweredInv, OthersKept
                 DEF Sound, Answered
    <2>5. CASE job[r] # "bad_view" /\ stored'[target[r]] # None
        <3>0. answer'[r] = Success(stored'[target[r]], job[r] = "refresh_all")
            BY <2>1, <2>5, Zenon DEF View
        <3>1. answer'[r].status = 200 /\ (answer'[r].refreshed <=> job[r] = "refresh_all")
            <4>1. CASE job[r] = "refresh_all"
                <5>1. (job[r] = "refresh_all") = TRUE
                    BY <4>1
                <5>2. answer'[r] = Success(stored'[target[r]], TRUE)
                    BY <3>0, <5>1, Zenon
                <5>. QED BY <4>1, <5>2 DEF Success
            <4>2. CASE job[r] # "refresh_all"
                <5>1. (job[r] = "refresh_all") = FALSE
                    BY <4>2
                <5>2. answer'[r] = Success(stored'[target[r]], FALSE)
                    BY <3>0, <5>1, Zenon
                <5>. QED BY <4>2, <5>2 DEF Success
            <4>. QED BY <4>1, <4>2
        <3>. QED BY <1>1, <1>4, <1>5, <1>6, <1>7, <2>1, <2>2, <2>3, <3>1, AnsweredInv, OthersKept
                 DEF Sound, Answered
    <2>. QED BY <2>3a, <2>4, <2>5
<1>12. ASSUME job[r] \in Views, NEW d \in todo[r], Enter(r, d, todo[r] \ {d}) PROVE AnswerInv'
    <2>1. job[r] = "refresh_all" /\ wrote[r] = None /\ d \in Ids
        BY <1>1, <1>4, <1>12 DEF ReqInv, AtAwait, Written, Views
    <2>2. CASE config[d] = None /\ Stop(r, 404)
        <3>1. moved[r]
            BY <1>1, <1>12, <2>2 DEF ReqInv, Calm, Active, Configured
        <3>2. Sound(r)' /\ pc'[r] = "answered"
            BY <1>4, <1>9a, <2>1, <2>2, <3>1, StopSound
        <3>. QED BY <1>1, <1>5, <1>6, <1>7, <3>2, AnsweredInv, OthersKept
    <2>3. CASE /\ config[d] # None
               /\ pc' = [pc EXCEPT ![r] = "refreshing"]
               /\ cur' = [cur EXCEPT ![r] = d]
               /\ todo' = [todo EXCEPT ![r] = todo[r] \ {d}]
        <3>1. pc'[r] = "refreshing" /\ cur'[r] = d /\ todo'[r] = todo[r] \ {d}
            BY <2>3 DEF TypeInv, TypeOK
        <3>2. Fresh(r)' /\ AtAwait(r)' /\ SameHost(r)' /\ Sound(r)'
            BY <1>4, <1>9a, <2>1, <3>1 DEF Fresh, AtAwait, SameHost, Sound, Answered, Commands
        <3>3. Covered(r)'
            BY <1>1, <1>4, <2>1, <3>1 DEF ReqInv, Covered
        <3>4. Calm(r)'
            <4> SUFFICES ASSUME ~moved[r] PROVE Calm(r)'
                BY <1>4 DEF Calm
            <4>1. Configured' = Configured /\ steady[r] = Configured /\ todo[r] \subseteq steady[r]
                BY <1>1, <1>4 DEF Configured, ReqInv, Calm, Active
            <4>. QED BY <1>4, <1>8, <1>12, <3>1, <4>1 DEF Calm
        <3>. QED BY <1>1, <1>5, <1>6, <1>7, <3>2, <3>3, <3>4, OthersKept DEF ReqInv
    <2>. QED BY <1>12, <2>2, <2>3 DEF Enter
<1>. QED BY <1>10, <1>11, <1>12 DEF Refresh, Continue

LEMMA AnswerStep == AnswerInv /\ [Next]_vars => AnswerInv'
<1> SUFFICES ASSUME AnswerInv, [Next]_vars PROVE AnswerInv'
    OBVIOUS
<1>1. CASE UNCHANGED vars
    <2>1. TypeInv'
        BY <1>1, TypeStep DEF AnswerInv
    <2>2. ASSUME NEW r \in Requests PROVE ReqInv(r)'
        BY <1>1, Others, SameVersion
           DEF AnswerInv, vars, configVars, frameVars, histVars, countVars
    <2>. QED BY <2>1, <2>2 DEF AnswerInv
<1>2. CASE Configure
    BY <1>2, ConfigureTyped, ConfigureAnswers DEF AnswerInv
<1>3. ASSUME NEW d \in Ids, NEW h \in Hosts, Poll(d, h) PROVE AnswerInv'
    <2>1. TypeInv'
        BY <1>3, PollTyped DEF AnswerInv
    <2>2. \A e \in Ids : stored[e] # None => stored'[e] # None
        BY <1>3, SampleType, StoredKept DEF AnswerInv, TypeInv, Poll
    <2>3. ASSUME NEW r \in Requests PROVE ReqInv(r)'
        BY <1>3, <2>2, Others, SameVersion
           DEF AnswerInv, Poll, configVars, frameVars, histVars, countVars
    <2>. QED BY <2>1, <2>3 DEF AnswerInv
<1>4. ASSUME NEW r \in Requests, NEW d \in Ids, Begin(r, d) PROVE AnswerInv'
    BY <1>4, StateAnswers, CommandAnswers DEF Begin
<1>5. ASSUME NEW r \in Requests, NEW j \in Commands \cup Views, Reject(r, j) PROVE AnswerInv'
    BY <1>5, RejectAnswers
<1>6. ASSUME NEW r \in Requests, Serve(r) \/ Close(r) PROVE AnswerInv'
    BY <1>6, ActAnswers, ReturnAnswers, RaiseAnswers, RefreshAnswers, RefreshFailsAnswers,
       CloseAnswers DEF Serve
<1>7. \A named \in Ids \cup {None} : Resolve(named) \subseteq Ids
    BY DEF Resolve, Configured
<1>. QED BY <1>1, <1>2, <1>3, <1>4, <1>5, <1>6, <1>7 DEF Next

LEMMA AnswerInit == Init => AnswerInv
<1> SUFFICES ASSUME Init PROVE AnswerInv
    OBVIOUS
<1>1. TypeInv
    BY TypeInit
<1>2. ASSUME NEW r \in Requests PROVE ReqInv(r)
    BY DEF Init, ReqInv, Fresh, Written, AtAwait, SameHost, Covered, Calm, Sound, Active, Answered
<1>. QED BY <1>1, <1>2 DEF AnswerInv

LEMMA AnswersSound == Spec => []AnswerInv
    BY AnswerInit, AnswerStep, PTL DEF Spec

\* A command that is answered with success was executed and announced, and a
\* device that kept its configuration is shown after the write, however polls,
\* other requests and reconfigurations interleave (command/router.py:66-90).
THEOREM SuccessIsEffect == Spec => []SuccessShowsEffect
<1>1. AnswerInv => SuccessShowsEffect
    BY DEF AnswerInv, ReqInv, Sound, SuccessShowsEffect
<1>. QED BY <1>1, AnswersSound, PTL

\* A command that wrote to a device is announced, whatever its refresh brings:
\* as executed only when it was performed as a whole, as failed only when the
\* device failed it or the client refuses its arguments, also those it looks at
\* after the first write (routes.py:293-323, kasa_client.py:724-725).
THEOREM EffectsAreAnnounced == Spec => []EffectIsAnnounced
<1>1. AnswerInv => EffectIsAnnounced
    BY DEF AnswerInv, ReqInv, Sound, Told, EffectIsAnnounced
<1>. QED BY <1>1, AnswersSound, PTL

\* Requests are not failed by other requests, only by their own arguments and
\* target, their device or a change of the configuration
\* (state/router.py:11-49, routes.py:308-323).
THEOREM FailuresAreExcused == Spec => []FailureIsExcused
<1>1. AnswerInv => FailureIsExcused
    BY DEF AnswerInv, ReqInv, Sound, FailureIsExcused
<1>. QED BY <1>1, AnswersSound, PTL

\* A refresh of all states that is claimed covers every device that stayed
\* configured, for any number of devices (state/router.py:11-13).
THEOREM RefreshesCoverAll == Spec => []RefreshCoversAll
<1>1. AnswerInv => RefreshCoversAll
    BY DEF AnswerInv, ReqInv, Sound, RefreshCoversAll
<1>. QED BY <1>1, AnswersSound, PTL
=============================================================================
