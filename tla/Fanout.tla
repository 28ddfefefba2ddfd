------------------------------- MODULE Fanout -------------------------------
(***************************************************************************)
(* The data channels of one session (rsfu/src/sfu/session.rs, subscriber.rs). *)
(*                                                                         *)
(* A client opens a data channel on its publisher's connection.  The       *)
(* session makes a channel of that label on every other subscriber's       *)
(* connection, a peer that joins later is given one for each label of the  *)
(* list, and each channel gets a handler that passes its messages to the   *)
(* channels that were collected when the handler was made.  Several owners *)
(* may bring one label at once, while others join.                         *)
(*                                                                         *)
(* A lock taken around one access is part of the step that makes it; one   *)
(* that is held over an await has a holder here.  What subscribe does for  *)
(* the media is in Room, and the offers are in Negotiation.                *)
(***************************************************************************)
EXTENDS Naturals, Sequences

CONSTANTS
    Peers,   \* all of them publish and subscribe
    Opens,   \* pairs <<p, l>>: p opens a channel of label l
    Early,   \* the peers that have joined when the model begins
    None

Labels == {o[2] : o \in Opens}

Join(p)   == <<"join", p>>
Add(p, l) == <<"add", p, l>>

Joins == {Join(p) : p \in Peers}
Adds  == {Add(o[1], o[2]) : o \in Opens}
Tasks == Joins \cup Adds

\* A channel is known by its connection's peer, its label and the task that made
\* it: an Add brings its owner's, on the publisher's connection.
Channel == [at : Peers, label : Labels, by : Tasks]

ASSUME FanoutAssumption ==
    /\ Opens \subseteq Peers \X Labels
    /\ Early \subseteq Peers
    /\ None \notin Tasks \cup Channel

VARIABLES
    at,                    \* where each task stands
    todo,                  \* the peers a task has still to go through
    left,                  \* the labels a join has still to go through
    chan,                  \* the channel a task is about to give a handler
    data_channels_out,     \* what get_data_channels has collected for a task
    due,                   \* history: what it could collect when it began
    provider_lock,         \* held by join
    fanout_lock,           \* held by subscribe to its end
    peers_lock,            \* held by get_data_channels and the end of subscribe
    peers,                 \* the session's peers
    fanout_data_channels,  \* the labels that have been brought
    channels,              \* of each subscriber: the channel of each label
    negotiated,            \* the subscribers whose channels have been offered
    open,                  \* of those channels, the ones whose ready_state is Open
    on_message             \* of each channel with a handler: whom it passes to

vars == <<at, todo, left, chan, data_channels_out, due, provider_lock, fanout_lock,
          peers_lock, peers, fanout_data_channels, channels, negotiated,
          open, on_message>>

locals == <<todo, left, chan, data_channels_out, due>>
locks  == <<provider_lock, fanout_lock, peers_lock>>
shared == <<peers, fanout_data_channels, channels, negotiated, open,
            on_message>>

Init ==
    /\ at = [k \in Tasks |-> IF k \in {Join(p) : p \in Early} THEN "joined" ELSE "idle"]
    /\ todo = [k \in Tasks |-> {}]
    /\ left = [k \in Tasks |-> <<>>]
    /\ chan = [k \in Tasks |-> None]
    /\ data_channels_out = [k \in Tasks |-> {}]
    /\ due = [k \in Tasks |-> {}]
    /\ provider_lock = None
    /\ fanout_lock = None
    /\ peers_lock = None
    /\ peers = Early
    /\ fanout_data_channels = <<>>
    /\ channels = [p \in Peers |-> [l \in Labels |-> None]]
    /\ negotiated = Early
    /\ open = {}
    /\ on_message = [c \in {} |-> {}]

Goes(k, from, to) ==
    /\ at[k] = from
    /\ at' = [at EXCEPT ![k] = to]

\* What a task keeps for one label is dropped with the handler it is used for.
Forget(k) ==
    /\ chan' = [chan EXCEPT ![k] = None]
    /\ data_channels_out' = [data_channels_out EXCEPT ![k] = {}]
    /\ due' = [due EXCEPT ![k] = {}]

LabelOf(k) == IF k \in Adds THEN k[3] ELSE Head(left[k])

HasLabel(l) == \E i \in DOMAIN fanout_data_channels : fanout_data_channels[i] = l

Handled(c, targets) ==
    [d \in DOMAIN on_message \cup {c} |-> IF d = c THEN targets ELSE on_message[d]]
-----------------------------------------------------------------------------
(* get_data_channels(peer_id, label), called by both tasks, with the        *)
(* session's peers locked.                                                  *)

CanHear(s, l) == channels[s][l] # None /\ channels[s][l] \in open

Heard(k, S) == {channels[s][LabelOf(k)] : s \in {s \in S : CanHear(s, LabelOf(k))}}

\* The peers that are still to be looked at; after the last the lock is given back.
Collecting(k, rest) ==
    /\ todo' = [todo EXCEPT ![k] = rest]
    /\ peers_lock' = IF rest = {} THEN None ELSE k
    /\ at' = [at EXCEPT ![k] = IF rest # {} THEN "collecting"
                              ELSE IF k \in Joins THEN "handler" ELSE "find"]

\* Slip: the peer that asks is not left out.
BeginCollectAll(k) ==
    /\ at[k] = "collect"
    /\ peers_lock = None
    /\ Collecting(k, peers)
    /\ data_channels_out' = [data_channels_out EXCEPT ![k] = {}]
    /\ due' = [due EXCEPT ![k] = Heard(k, peers \ {k[2]})]
    /\ UNCHANGED <<left, chan, provider_lock, fanout_lock, shared>>

BeginCollect(k) ==
    /\ at[k] = "collect"
    /\ peers_lock = None
    /\ Collecting(k, peers \ {k[2]})
    /\ data_channels_out' = [data_channels_out EXCEPT ![k] = {}]
    /\ due' = [due EXCEPT ![k] = Heard(k, peers \ {k[2]})]
    /\ UNCHANGED <<left, chan, provider_lock, fanout_lock, shared>>

\* Slip: collecting stops at the first peer that has no open channel.
CollectFromFirst(k) ==
    /\ at[k] = "collecting"
    /\ \E s \in todo[k] :
          /\ Collecting(k, IF CanHear(s, LabelOf(k)) THEN todo[k] \ {s} ELSE {})
          /\ data_channels_out' = [data_channels_out EXCEPT ![k] = @ \cup Heard(k, {s})]
    /\ UNCHANGED <<left, chan, due, provider_lock, fanout_lock, shared>>

CollectFrom(k) ==
    /\ at[k] = "collecting"
    /\ \E s \in todo[k] :
          /\ Collecting(k, todo[k] \ {s})
          /\ data_channels_out' = [data_channels_out EXCEPT ![k] = @ \cup Heard(k, {s})]
    /\ UNCHANGED <<left, chan, due, provider_lock, fanout_lock, shared>>
-----------------------------------------------------------------------------
(* add_data_channel_2(label) on the subscriber of s: the map is looked at,   *)
(* and written once the channel is made, with awaits between.                *)

Lookup(k, s, then) ==
    LET c == channels[s][LabelOf(k)]
    IN  /\ at' = [at EXCEPT ![k] = IF c = None THEN "create" ELSE then]
        /\ chan' = [chan EXCEPT ![k] =
                        IF c # None THEN c
                        ELSE [at |-> s, label |-> LabelOf(k), by |-> k]]

Create(k) ==
    LET c == chan[k]
    IN  /\ Goes(k, "create", IF k \in Joins THEN "collect" ELSE "handler")
        /\ channels' = [channels EXCEPT ![c.at][c.label] = c]
        /\ open' = open \ {channels[c.at][c.label]}
        /\ UNCHANGED <<locals, locks, peers, fanout_data_channels, negotiated, on_message>>
-----------------------------------------------------------------------------
(* join and subscribe.                                                       *)

BeginJoin(p) ==
    /\ Goes(Join(p), "idle", "add_peer")
    /\ provider_lock = None
    /\ provider_lock' = Join(p)
    /\ UNCHANGED <<locals, fanout_lock, peers_lock, shared>>

AddPeer(p) ==
    /\ Goes(Join(p), "add_peer", "subscribe")
    /\ peers_lock = None
    /\ peers' = peers \cup {p}
    /\ UNCHANGED <<locals, locks, fanout_data_channels, channels, negotiated,
                   open, on_message>>

Subscribe(p) ==
    /\ Goes(Join(p), "subscribe", "labels")
    /\ fanout_lock = None
    /\ fanout_lock' = Join(p)
    /\ left' = [left EXCEPT ![Join(p)] = fanout_data_channels]
    /\ UNCHANGED <<todo, chan, data_channels_out, due, provider_lock, peers_lock, shared>>

SubscribeToLabel(p) ==
    /\ at[Join(p)] = "labels"
    /\ left[Join(p)] # <<>>
    /\ Lookup(Join(p), p, "collect")
    /\ UNCHANGED <<todo, left, data_channels_out, due, locks, shared>>

HandlerOfJoin(p) ==
    LET k == Join(p)
    IN  /\ Goes(k, "handler", "labels")
        /\ on_message' = Handled(chan[k], data_channels_out[k])
        /\ left' = [left EXCEPT ![k] = Tail(@)]
        /\ Forget(k)
        /\ UNCHANGED <<todo, locks, peers, fanout_data_channels, channels,
                       negotiated, open>>

\* The peers are locked while the media is subscribed to (Room).
SubscribeToMedia(p) ==
    /\ left[Join(p)] = <<>>
    /\ Goes(Join(p), "labels", "media")
    /\ peers_lock = None
    /\ peers_lock' = Join(p)
    /\ UNCHANGED <<locals, provider_lock, fanout_lock, shared>>

\* Slip: the list of labels is not unlocked.
EndJoinLocked(p) ==
    /\ Goes(Join(p), "media", "joined")
    /\ negotiated' = negotiated \cup {p}
    /\ provider_lock' = None
    /\ peers_lock' = None
    /\ UNCHANGED <<locals, fanout_lock, peers, fanout_data_channels, channels, open,
                   on_message>>

EndJoin(p) ==
    /\ Goes(Join(p), "media", "joined")
    /\ negotiated' = negotiated \cup {p}
    /\ provider_lock' = None
    /\ fanout_lock' = None
    /\ peers_lock' = None
    /\ UNCHANGED <<locals, peers, fanout_data_channels, channels, open, on_message>>
-----------------------------------------------------------------------------
(* add_data_channel(owner, dc), called when a client's channel comes.        *)

Own(k) == [at |-> k[2], label |-> k[3], by |-> k]

OnDataChannel(k) ==
    /\ at[Join(k[2])] = "joined"
    /\ Goes(k, "idle", "collect")
    /\ UNCHANGED <<locals, locks, peers, fanout_data_channels, channels, negotiated,
                   open, on_message>>

\* A label of the list: its own channel is given a handler, and that is all.
LateOpener(k) ==
    /\ Goes(k, "find", "done")
    /\ fanout_lock = None
    /\ HasLabel(k[3])
    /\ on_message' = Handled(Own(k), data_channels_out[k])
    /\ Forget(k)
    /\ UNCHANGED <<todo, left, locks, peers, fanout_data_channels, channels,
                   negotiated, open>>

NewLabel(k) ==
    /\ Goes(k, "find", "push")
    /\ fanout_lock = None
    /\ ~HasLabel(k[3])
    /\ due' = [due EXCEPT ![k] = {}]
    /\ UNCHANGED <<todo, left, chan, data_channels_out, locks, shared>>

PushLabel(k) ==
    /\ Goes(k, "push", "get_peer")
    /\ fanout_lock = None
    /\ fanout_data_channels' = Append(fanout_data_channels, k[3])
    /\ UNCHANGED <<locals, locks, peers, channels, negotiated, open, on_message>>

\* get_peer(owner).await.unwrap().
GetPeer(k) ==
    /\ Goes(k, "get_peer", "register")
    /\ peers_lock = None
    /\ k[2] \in peers
    /\ UNCHANGED <<locals, locks, shared>>

\* Slip: the owner's channel is registered with everybody.
RegisterOwnWithAll(k) ==
    /\ Goes(k, "register", "copy_peers")
    /\ channels' = [p \in Peers |-> [channels[p] EXCEPT ![k[3]] = Own(k)]]
    /\ open' = open \ {channels[k[2]][k[3]]}
    /\ on_message' = Handled(Own(k), data_channels_out[k])
    /\ UNCHANGED <<locals, locks, peers, fanout_data_channels, negotiated>>

RegisterOwn(k) ==
    /\ Goes(k, "register", "copy_peers")
    /\ channels' = [channels EXCEPT ![k[2]][k[3]] = Own(k)]
    /\ open' = open \ {channels[k[2]][k[3]]}
    /\ on_message' = Handled(Own(k), data_channels_out[k])
    /\ UNCHANGED <<locals, locks, peers, fanout_data_channels, negotiated>>

CopyPeers(k) ==
    /\ Goes(k, "copy_peers", "peers")
    /\ peers_lock = None
    /\ todo' = [todo EXCEPT ![k] = peers \ {k[2]}]
    /\ UNCHANGED <<left, chan, data_channels_out, due, locks, shared>>

\* Slip: the loop ends with the first peer.
AddToOnePeer(k) ==
    /\ at[k] = "peers"
    /\ \E s \in todo[k] : Lookup(k, s, "handler")
    /\ todo' = [todo EXCEPT ![k] = {}]
    /\ UNCHANGED <<left, data_channels_out, due, locks, shared>>

AddToPeer(k) ==
    /\ at[k] = "peers"
    /\ \E s \in todo[k] :
          /\ Lookup(k, s, "handler")
          /\ todo' = [todo EXCEPT ![k] = @ \ {s}]
    /\ UNCHANGED <<left, data_channels_out, due, locks, shared>>

\* The channel of the other peer is given what was collected for the owner.
HandlerOfPeer(k) ==
    /\ Goes(k, "handler", "peers")
    /\ on_message' = Handled(chan[k], data_channels_out[k])
    /\ negotiated' = negotiated \cup {chan[k].at}
    /\ chan' = [chan EXCEPT ![k] = None]
    /\ UNCHANGED <<todo, left, data_channels_out, due, locks, peers, fanout_data_channels,
                   channels, open>>

EndAdd(k) ==
    /\ todo[k] = {}
    /\ Goes(k, "peers", "done")
    /\ Forget(k)
    /\ UNCHANGED <<todo, left, locks, shared>>
-----------------------------------------------------------------------------
\* A channel opens some time after it has come, or has been offered. Only those in the
\* maps matter: nobody looks at the state of one that has been replaced.
Open(p, l) ==
    LET c == channels[p][l]
    IN  /\ c \notin open \cup {None}
        /\ (c.by \in Adds /\ c.by[2] = p) \/ p \in negotiated
        /\ open' = open \cup {c}
    /\ UNCHANGED <<at, locals, locks, peers, fanout_data_channels, channels,
                   negotiated, on_message>>

CollectStep(k) == BeginCollect(k) \/ CollectFrom(k)

JoinStep(p) ==
    \/ AddPeer(p)
    \/ Subscribe(p)
    \/ SubscribeToLabel(p)
    \/ CollectStep(Join(p))
    \/ Create(Join(p))
    \/ HandlerOfJoin(p)
    \/ SubscribeToMedia(p)
    \/ EndJoin(p)

AddStep(k) ==
    \/ CollectStep(k)
    \/ LateOpener(k)
    \/ NewLabel(k)
    \/ PushLabel(k)
    \/ GetPeer(k)
    \/ RegisterOwn(k)
    \/ CopyPeers(k)
    \/ AddToPeer(k)
    \/ Create(k)
    \/ HandlerOfPeer(k)
    \/ EndAdd(k)

Working ==
    \/ \E p \in Peers : JoinStep(p)
    \/ \E k \in Adds : AddStep(k)

Next ==
    \/ Working
    \/ \E p \in Peers : BeginJoin(p)
    \/ \E k \in Adds : OnDataChannel(k)
    \/ \E p \in Peers, l \in Labels : Open(p, l)

Spec == Init /\ [][Next]_vars
-----------------------------------------------------------------------------
(* Properties.                                                             *)

JoinSteps == {"idle", "add_peer", "subscribe", "labels", "create", "collect",
              "collecting", "handler", "media", "joined"}
AddSteps  == {"idle", "collect", "collecting", "find", "push", "get_peer", "register",
              "copy_peers", "peers", "create", "handler", "done"}

\* The map of a subscriber holds channels of its own, the handlers are those of
\* channels that exist, and what opens exists.
TypeOK ==
    /\ at \in [Tasks -> JoinSteps \cup AddSteps]
    /\ \A k \in Joins : at[k] \in JoinSteps
    /\ \A k \in Adds : at[k] \in AddSteps
    /\ todo \in [Tasks -> SUBSET peers] /\ left \in [Tasks -> Seq(Labels)]
    /\ chan \in [Tasks -> Channel \cup {None}]
    /\ data_channels_out \in [Tasks -> SUBSET Channel]
    /\ due \in [Tasks -> SUBSET Channel]
    /\ provider_lock \in Joins \cup {None} /\ fanout_lock \in Joins \cup {None}
    /\ peers_lock \in Tasks \cup {None}
    /\ peers \subseteq Peers /\ negotiated \subseteq peers
    /\ fanout_data_channels \in Seq(Labels)
    /\ channels \in [Peers -> [Labels -> Channel \cup {None}]]
    /\ \A p \in Peers, l \in Labels :
          channels[p][l] # None => channels[p][l].at = p /\ channels[p][l].label = l
    /\ open \subseteq {c \in Channel : channels[c.at][c.label] = c}
    /\ DOMAIN on_message \subseteq Channel
    /\ on_message \in [DOMAIN on_message -> SUBSET Channel]

\* Whoever has joined has a channel, with a handler, for every label that has been
\* brought, unless somebody who brings it is still at work: the peer is in the map
\* before it reads the list, and the label in the list before the map is read.
NobodyMissesALabel ==
    \A p \in Peers, l \in Labels :
        /\ at[Join(p)] = "joined" /\ HasLabel(l)
        /\ \A k \in Adds : k[3] = l => at[k] \in {"idle", "done"}
        => channels[p][l] \in DOMAIN on_message

\* No message comes back to the peer that sent it. The owner's list is given to the
\* channels of the others too, and would hold their own channels if the label were
\* not known to be new when it is used.
NoEcho ==
    \A c \in DOMAIN on_message : \A d \in on_message[c] : d.at # c.at

\* Who brings a label that is there already reaches everybody whose channel was open
\* when it came, but for channels that were replaced meanwhile.
LateOpenerIsHeard ==
    [][\A k \in Adds :
          at[k] = "find" /\ at'[k] = "done" =>
              \A c \in due[k] : channels[c.at][c.label] = c => c \in on_message'[Own(k)]]_vars

\* While somebody is at work somebody can go on: the lock of the list and that of the
\* peers are taken in one order, and a task has but a bounded number of steps.
NobodyIsStuck ==
    (\E k \in Tasks : at[k] \notin {"idle", "joined", "done"}) => ENABLED Working
=============================================================================
