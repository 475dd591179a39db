------------------------------ MODULE LiveUpdates ------------------------------
(***************************************************************************)
(* How a results page stays current: handlers commit and then publish, the *)
(* broker puts a message into the channel of every registered stream or    *)
(* drops it when the channel is full, the stream's handler forwards it,    *)
(* and the page refetches on whatever it hears.  Messages carry no state.  *)
(*                                                                         *)
(* One page of one event is modelled; a page shares nothing with another   *)
(* but the broker's lock, under which every broker operation is one step.  *)
(* The event's state is a version number: two versions differ in what      *)
(* getEvent and solve return.                                              *)
(***************************************************************************)
EXTENDS Naturals, Sequences, SequencesExt

CONSTANTS
    Streams,      \* connections; one is used again when both ends are done
    NoStream,
    Buffer,       \* subscriberBuffer, 8 in the code
    MaxVersion,   \* bound: changes of the event
    MaxFaults,    \* bound: joins, restarts, severed and rejected connections, and
                  \* loads that fail while the server is up
    MaxLoads      \* bound: loads under way at once

ASSUME StreamsAssumption == Streams # {} /\ NoStream \notin Streams
ASSUME BoundsAssumption ==
    /\ Buffer \in Nat \ {0} /\ MaxVersion \in Nat \ {0} /\ MaxLoads \in Nat \ {0}
    /\ MaxFaults \in Nat

VARIABLES
    version,      \* the committed state of the event
    owed,         \* commits whose handler has not published yet
    registered,   \* Broker.subs: the streams that receive messages
    channel,      \* messages in a stream's channel
    phase,        \* how far a stream's handler is
    link,         \* whether bytes get from the handler to the page
    wire,         \* notices under way to the page
    mounted,      \* whether somebody is on the page
    current,      \* the page's EventSource
    loads,        \* load() calls under way, oldest first, and the solve of a
                  \* lock() or unlock()
    busy,         \* whether a lock() or unlock() is under way
    shown,        \* what the page displays
    missed,       \* history: see below
    faults        \* counter for the bound

server == <<version, owed>>
streams == <<registered, channel, phase, link, wire>>
page == <<mounted, current, loads, busy, shown, missed>>
vars == <<server, streams, page, faults>>

Asked == 0                       \* not answered yet; on display, nothing yet
Versions == 1 .. MaxVersion
Broken == MaxVersion + 1         \* never will be answered
Kept == MaxVersion + 2           \* not asked for: what is displayed stays
AskedBoth == [ev |-> Asked, res |-> Asked]
OwnSolve == [ev |-> Kept, res |-> Asked]

Own(l) == l.ev = Kept
Answered(l) == l.ev # Asked /\ l.res \notin {Asked, Broken}

\* The page has just been opened: it loads, and its first stream is dialled.
Init ==
    /\ version = 1 /\ owed = 0
    /\ registered = {} /\ channel = [s \in Streams |-> 0]
    /\ current = CHOOSE s \in Streams : TRUE
    /\ phase = [s \in Streams |-> IF s = current THEN "dialled" ELSE "gone"]
    /\ link = [s \in Streams |-> s = current]
    /\ wire = [s \in Streams |-> 0]
    /\ mounted = TRUE /\ loads = <<AskedBoth>> /\ busy = FALSE
    /\ shown = AskedBoth /\ missed = FALSE
    /\ faults = 0

-----------------------------------------------------------------------------
(* The server. *)

\* Answers saved, a calendar connected or disconnected, a slot locked, the
\* event reopened: the handler publishes once the change is committed.
Commit ==
    /\ version < MaxVersion
    /\ version' = version + 1 /\ owed' = owed + 1
    /\ UNCHANGED <<streams, page, faults>>

\* Somebody joins, or claims a seat from a group: nothing is published.
Join ==
    /\ version < MaxVersion /\ faults < MaxFaults /\ faults' = faults + 1
    /\ version' = version + 1
    /\ missed' = TRUE
    /\ UNCHANGED <<owed, streams, mounted, current, loads, busy, shown>>

\* Mutant: the channel takes every message.
DeliverAlways(n) == n + 1

\* Broker.Publish to one channel: when it is full the message is dropped.
Deliver(n) == IF n = Buffer THEN n ELSE n + 1

Publish ==
    /\ owed > 0 /\ owed' = owed - 1
    /\ channel' = [s \in Streams |->
                      IF s \in registered THEN Deliver(channel[s]) ELSE channel[s]]
    /\ UNCHANGED <<version, registered, phase, link, wire, page, faults>>

Subscribe(s) ==
    /\ phase[s] # "gone" /\ s \notin registered
    /\ registered' = registered \cup {s}
    /\ channel' = [channel EXCEPT ![s] = 0]
    /\ UNCHANGED <<server, phase, link, wire, page, faults>>

\* Mutant: the stream is opened before it is registered.
GreetEarly(s) ==
    /\ phase[s] = "dialled"
    /\ phase' = [phase EXCEPT ![s] = "streaming"]
    /\ wire' = [wire EXCEPT ![s] = IF link[s] THEN 1 ELSE 0]
    /\ UNCHANGED <<server, registered, channel, link, page, faults>>

\* The first flush, after the subscription, opens the page's EventSource.
Greet(s) ==
    /\ phase[s] = "dialled" /\ s \in registered
    /\ phase' = [phase EXCEPT ![s] = "streaming"]
    /\ wire' = [wire EXCEPT ![s] = IF link[s] THEN 1 ELSE 0]
    /\ UNCHANGED <<server, registered, channel, link, page, faults>>

\* The handler's loop takes a message and writes it; into a severed connection
\* the first writes succeed and get nowhere.
Forward(s) ==
    /\ phase[s] = "streaming" /\ channel[s] > 0
    /\ channel' = [channel EXCEPT ![s] = @ - 1]
    /\ wire' = [wire EXCEPT ![s] = IF link[s] THEN @ + 1 ELSE 0]
    /\ UNCHANGED <<server, registered, phase, link, page, faults>>

\* Mutant: the subscription is not cancelled.
ReturnUncancelled(s) ==
    /\ phase[s] # "gone" /\ ~link[s]
    /\ phase' = [phase EXCEPT ![s] = "gone"]
    /\ UNCHANGED <<server, registered, channel, link, wire, page, faults>>

\* The request's context ends or a write (at the latest of a ping) fails, and
\* the deferred cancel takes the stream out of the broker.
Return(s) ==
    /\ phase[s] # "gone" /\ ~link[s]
    /\ phase' = [phase EXCEPT ![s] = "gone"]
    /\ registered' = registered \ {s}
    /\ channel' = [channel EXCEPT ![s] = 0]
    /\ UNCHANGED <<server, link, wire, page, faults>>

\* The event lookup fails, and the handler answers 500 before it subscribes.
Reject(s) ==
    /\ phase[s] = "dialled" /\ s \notin registered
    /\ faults < MaxFaults /\ faults' = faults + 1
    /\ phase' = [phase EXCEPT ![s] = "gone"]
    /\ UNCHANGED <<server, registered, channel, link, wire, page>>

\* The process dies and is started again: what is committed stays, broker,
\* handlers and the requests they were serving do not.
Crash ==
    /\ faults < MaxFaults /\ faults' = faults + 1
    /\ owed' = 0
    /\ registered' = {} /\ channel' = [s \in Streams |-> 0]
    /\ phase' = [s \in Streams |-> "gone"]
    /\ loads' = [i \in DOMAIN loads |-> IF Answered(loads[i]) THEN loads[i]
                                        ELSE [loads[i] EXCEPT !.res = Broken]]
    /\ UNCHANGED <<version, link, wire, mounted, current, busy, shown, missed>>

-----------------------------------------------------------------------------
(* The network. *)

\* A connection is severed without either end noticing.
Sever(s) ==
    /\ link[s] /\ faults < MaxFaults /\ faults' = faults + 1
    /\ link' = [link EXCEPT ![s] = FALSE]
    /\ wire' = [wire EXCEPT ![s] = 0]
    /\ UNCHANGED <<server, registered, channel, phase, page>>

-----------------------------------------------------------------------------
(* The page. *)

\* Mutant: without a watchdog, a severed stream is never missed.
SilentToBrowser == current \in Streams => phase[current] = "gone" /\ link[current]

\* No ping will come: the browser reports it, or the watchdog times it out.
Silent == current \in Streams => phase[current] = "gone" \/ ~link[current]

\* connect and reconnect: a new EventSource, the old one closed.
Dial ==
    /\ mounted /\ Silent
    /\ \E s \in Streams \ {current} :
        /\ phase[s] = "gone"
        /\ current' = s
        /\ phase' = [phase EXCEPT ![s] = "dialled"]
        /\ link' = [t \in Streams |-> IF t = current THEN FALSE
                                      ELSE IF t = s THEN TRUE ELSE link[t]]
        /\ wire' = [t \in Streams |-> IF t \in {s, current} THEN 0 ELSE wire[t]]
    /\ UNCHANGED <<server, registered, channel, mounted, loads, busy, shown, missed, faults>>

\* A load begins, which will show whatever was missed.
BeginLoad ==
    /\ Len(loads) < MaxLoads
    /\ loads' = Append(loads, AskedBoth) /\ missed' = FALSE

\* onChange: an "open" and a named message alike start a load.
Hear ==
    /\ current # NoStream /\ wire[current] > 0
    /\ wire' = [wire EXCEPT ![current] = @ - 1]
    /\ BeginLoad
    /\ UNCHANGED <<server, registered, channel, phase, link, mounted, current, busy,
                   shown, faults>>

\* onVisible: the tab becomes visible again, whatever is under way.
Glance ==
    /\ mounted /\ BeginLoad
    /\ UNCHANGED <<server, streams, mounted, current, busy, shown, faults>>

\* lock or unlock, by whoever is on the page: handleDecide or handleReopen
\* commits, and owes its message as any other.
Lock ==
    /\ mounted /\ ~busy /\ version < MaxVersion
    /\ version' = version + 1 /\ owed' = owed + 1 /\ busy' = TRUE
    /\ UNCHANGED <<streams, mounted, current, loads, shown, missed, faults>>

AwaitsLock == busy /\ \A i \in DOMAIN loads : ~Own(loads[i])

\* The answer is there, and the page asks for a ranking of its own.
LockAnswered ==
    /\ AwaitsLock /\ Len(loads) < MaxLoads
    /\ loads' = Append(loads, OwnSolve)
    /\ UNCHANGED <<server, streams, mounted, current, busy, shown, missed, faults>>

\* Or it never comes: the error is shown.
LockLost ==
    /\ AwaitsLock /\ busy' = FALSE
    /\ UNCHANGED <<server, streams, mounted, current, loads, shown, missed, faults>>

\* getEvent or solve of the i-th load is answered from the current version.
AnswerEvent(i) ==
    /\ loads[i].ev = Asked /\ loads[i].res # Broken
    /\ loads' = [loads EXCEPT ![i].ev = version]
    /\ UNCHANGED <<server, streams, mounted, current, busy, shown, missed, faults>>

AnswerSolve(i) ==
    /\ loads[i].res = Asked
    /\ loads' = [loads EXCEPT ![i].res = version]
    /\ UNCHANGED <<server, streams, mounted, current, busy, shown, missed, faults>>

\* The i-th load is over; a lock() or unlock() with it.
EndLoad(i) ==
    /\ loads' = RemoveAt(loads, i)
    /\ busy' = (busy /\ ~Own(loads[i]))

\* Older answers are under way, and no younger load() that would replace them.
Overtakes(i) == i # 1 /\ \A j \in i + 1 .. Len(loads) : Own(loads[j])

\* The answers are in and are assigned, whatever is shown already.
Arrive(i) ==
    /\ Answered(loads[i]) /\ EndLoad(i)
    /\ shown' = [ev  |-> IF Own(loads[i]) THEN shown.ev ELSE loads[i].ev,
                 res |-> loads[i].res]
    /\ missed' = (missed \/ Overtakes(i))
    /\ UNCHANGED <<server, streams, mounted, current, faults>>

\* A request that the process took down with it: the error is shown, and that is
\* all.
Abandon(i) ==
    /\ loads[i].res = Broken /\ EndLoad(i)
    /\ UNCHANGED <<server, streams, mounted, current, shown, missed, faults>>

\* A request fails while the server is up.
LoseLoad(i) ==
    /\ loads[i].res # Broken /\ faults < MaxFaults /\ faults' = faults + 1
    /\ EndLoad(i) /\ missed' = TRUE
    /\ UNCHANGED <<server, streams, mounted, current, shown>>

\* The page is left: the teardown of subscribe closes the EventSource.
Leave ==
    /\ mounted /\ mounted' = FALSE
    /\ current' = NoStream /\ loads' = <<>> /\ busy' = FALSE
    /\ shown' = AskedBoth /\ missed' = FALSE
    /\ link' = [s \in Streams |-> IF s = current THEN FALSE ELSE link[s]]
    /\ wire' = [s \in Streams |-> IF s = current THEN 0 ELSE wire[s]]
    /\ UNCHANGED <<server, registered, channel, phase, faults>>

-----------------------------------------------------------------------------

Handle(s) == Subscribe(s) \/ Greet(s) \/ Forward(s) \/ Return(s)
Load(i) == AnswerEvent(i) \/ AnswerSolve(i) \/ Arrive(i) \/ Abandon(i)

Next ==
    \/ Commit \/ Join \/ Publish \/ Crash
    \/ \E s \in Streams : Handle(s) \/ Reject(s) \/ Sever(s)
    \/ Dial \/ Hear \/ Glance \/ Lock \/ LockAnswered \/ LockLost \/ Leave
    \/ \E i \in DOMAIN loads : Load(i) \/ LoseLoad(i)

Spec == Init /\ [][Next]_vars

\* Handlers go on, requests are answered, the watchdog runs.  Nobody has to
\* change the event, look at the page or leave it.  That a notice may have to
\* wait for a place among the loads is the bound's doing, not the page's: hence
\* strong fairness of Hear.
FairSpec ==
    /\ Spec
    /\ WF_vars(Publish) /\ WF_vars(Dial) /\ SF_vars(Hear)
    /\ \A s \in Streams : WF_vars(Handle(s))
    /\ WF_vars(\E i \in DOMAIN loads : Load(i))

-----------------------------------------------------------------------------
(* Properties. *)

Display == [ev : Versions \cup {Asked}, res : Versions \cup {Asked}]

\* The types; and the broker holds no subscriber whose handler has returned.
TypeOK ==
    /\ version \in Versions /\ owed \in 0 .. MaxVersion
    /\ registered \subseteq Streams
    /\ \A s \in registered : phase[s] # "gone"
    /\ channel \in [Streams -> 0 .. Buffer]
    /\ phase \in [Streams -> {"gone", "dialled", "streaming"}]
    /\ link \in [Streams -> BOOLEAN]
    /\ wire \in [Streams -> Nat]
    /\ mounted \in BOOLEAN /\ current \in Streams \cup {NoStream}
    /\ loads \in Seq([ev : Versions \cup {Asked, Kept}, res : Versions \cup {Asked, Broken}])
    /\ Len(loads) <= MaxLoads
    /\ \A i, j \in DOMAIN loads : Own(loads[i]) /\ Own(loads[j]) => i = j /\ busy
    /\ shown \in Display /\ busy \in BOOLEAN /\ missed \in BOOLEAN
    /\ faults \in 0 .. MaxFaults

\* The page hears its stream, and nothing is under way to it: no commit waits
\* to be published, no message or notice waits on the stream, no load runs.
Settled ==
    /\ current # NoStream /\ phase[current] = "streaming" /\ link[current]
    /\ owed = 0 /\ channel[current] = 0 /\ wire[current] = 0 /\ loads = <<>>

\* What no message tells a page, until the next load begins (missed): somebody
\* has joined, a load has failed, or an older load was slower than the youngest
\* and has replaced what that showed.  The next two properties are about the rest.
Fresh == shown = [ev |-> version, res |-> version]

\* A page to which nothing is under way shows what is committed: neither a
\* dropped message, nor a crash between a commit and its publication, nor the
\* gap between two streams, nor the page's own solve leaves it behind; nor do
\* answers that come in any other order than the one named above.
SettledPageIsFresh == Settled /\ ~missed => Fresh

\* When the event and the network come to rest, whoever is on the page ends up
\* seeing the committed state.
EventuallyFresh == <>[](mounted /\ ~missed => Fresh)
=============================================================================
