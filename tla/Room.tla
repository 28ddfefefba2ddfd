-------------------------------- MODULE Room --------------------------------
(***************************************************************************)
(* One session: its peers join and publish tracks, and every track is to   *)
(* reach every other peer (rsfu/src/sfu/sfu.rs, session.rs, router.rs,     *)
(* peer.rs, publisher.rs, receiver.rs).                                    *)
(*                                                                         *)
(* A peer that joins subscribes to the tracks the others have published, a *)
(* track that comes is published to the peers that have joined, and the    *)
(* two tasks meet in the session's map of peers and in the map of          *)
(* receivers of the publisher's router.  Both go through add_down_track,   *)
(* which several awaits interrupt.  A lock the code takes and gives back   *)
(* around one access of a map is part of the step that makes the access; a *)
(* lock that is held longer has a holder here.                             *)
(***************************************************************************)
EXTENDS Naturals

CONSTANTS
    Peers,
    Tracks,     \* the receivers: the layers of a simulcast track are one
    Owner,      \* Owner[t]: the peer that publishes t
    Stream,     \* Stream[t]: the media stream of t
    Simulcast,  \* the tracks sent in several layers
    None        \* nobody holds the lock

Tasks == {"join", "publish"} \X Peers

Streams == {Stream[t] : t \in Tracks}

ASSUME RoomAssumption ==
    /\ Owner \in [Tracks -> Peers]
    /\ Simulcast \subseteq Tracks
    /\ None \notin Tasks

VARIABLES
    at,              \* where each task stands
    todo,            \* the peers a task has still to go through
    recs,            \* the receivers a join has still to subscribe to
    job,             \* the subscriber and the receiver of the add_down_track under way
    provider_lock,   \* held by join
    sessions,        \* how many have been made for the id that all join by
    peers_lock,      \* the session's peers: held by subscribe
    receivers_lock,  \* of each router: held by add_receiver
    peers,           \* the session's peers
    receivers,       \* of each peer's router
    published,       \* the tracks whose on_track has returned
    transceivers,    \* of each subscriber's connection: how many carry each track
    negotiated,      \* transceivers, when negotiate was last called
    tracks,          \* of each subscriber: its down tracks by stream
    down_tracks      \* of each receiver: how many down tracks it feeds each peer

vars == <<at, todo, recs, job, provider_lock, peers_lock, receivers_lock,
          sessions, peers, receivers, published, transceivers, negotiated,
          tracks, down_tracks>>

loops == <<todo, recs, job>>
locks == <<provider_lock, peers_lock, receivers_lock>>
room  == <<sessions, peers, receivers, published>>
media == <<transceivers, negotiated, tracks, down_tracks>>

Join(p)    == <<"join", p>>
Publish(p) == <<"publish", p>>
Who(k)     == k[2]

Init ==
    /\ at = [k \in Tasks |-> "idle"]
    /\ todo = [k \in Tasks |-> {}]
    /\ recs = [k \in Tasks |-> {}]
    /\ job = [k \in Tasks |-> None]
    /\ provider_lock = None
    /\ sessions = 0
    /\ peers_lock = None
    /\ receivers_lock = [p \in Peers |-> None]
    /\ peers = {}
    /\ receivers = [p \in Peers |-> {}]
    /\ published = {}
    /\ transceivers = [p \in Peers |-> [t \in Tracks |-> 0]]
    /\ negotiated = [p \in Peers |-> [t \in Tracks |-> 0]]
    /\ tracks = [p \in Peers |-> [s \in {} |-> {}]]
    /\ down_tracks = [t \in Tracks |-> [p \in Peers |-> 0]]

\* The peers that subscribe and publish go through.
Others(p) == peers \ {p}

Goes(k, from, to) ==
    /\ at[k] = from
    /\ at' = [at EXCEPT ![k] = to]
-----------------------------------------------------------------------------
(* add_down_track(s, r), called by both tasks with job[k] = <<s, r>>.       *)

Sub(k) == job[k][1]
Rec(k) == job[k][2]

\* Slip: a publication takes the next peer without negotiating.
ReturnToLoop(k) == IF k[1] = "join" THEN "receivers" ELSE "peers"

\* Where the caller goes on: add_down_tracks of a join takes the next receiver,
\* that of a publication negotiates.
Return(k) == IF k[1] = "join" THEN "receivers" ELSE "negotiate"

Registered(s, r) ==
    Stream[r] \in DOMAIN tracks[s] /\ r \in tracks[s][Stream[r]]

\* The subscriber's own list is looked at first.
CheckRegistered(k) ==
    /\ Goes(k, "check", IF Registered(Sub(k), Rec(k)) THEN Return(k) ELSE "connect")
    /\ UNCHANGED <<loops, locks, room, media>>

AddTransceiver(k) ==
    /\ Goes(k, "connect", "register")
    /\ transceivers' = [transceivers EXCEPT ![Sub(k)][Rec(k)] = @ + 1]
    /\ UNCHANGED <<loops, locks, room, negotiated, tracks, down_tracks>>

\* Subscriber::add_down_track: the first track of a stream makes its list, empty.
Register(k) ==
    LET s      == Sub(k)
        stream == Stream[Rec(k)]
        lists  == tracks[s]
    IN  /\ Goes(k, "register", "subscribed")
        /\ tracks' =
              [tracks EXCEPT ![s] =
                  IF stream \in DOMAIN lists
                  THEN [lists EXCEPT ![stream] = lists[stream] \cup {Rec(k)}]
                  ELSE [i \in DOMAIN lists \cup {stream} |->
                            IF i = stream THEN {} ELSE lists[i]]]
        /\ UNCHANGED <<loops, locks, room, transceivers, negotiated, down_tracks>>

\* Slip: a subscriber that has some track of the receiver's owner is passed over.
CheckSubscribedAny(k) ==
    /\ Goes(k, "subscribed",
            IF \E t \in Tracks : Owner[t] = Owner[Rec(k)] /\ down_tracks[t][Sub(k)] > 0
            THEN Return(k) ELSE "store")
    /\ UNCHANGED <<loops, locks, room, media>>

\* Receiver::add_down_track: down_track_subscribed, then store_down_track.
CheckSubscribed(k) ==
    /\ Goes(k, "subscribed",
            IF down_tracks[Rec(k)][Sub(k)] > 0 THEN Return(k) ELSE "store")
    /\ UNCHANGED <<loops, locks, room, media>>

Store(k) ==
    /\ Goes(k, "store", Return(k))
    /\ down_tracks' = [down_tracks EXCEPT ![Rec(k)][Sub(k)] = @ + 1]
    /\ UNCHANGED <<loops, locks, room, transceivers, negotiated, tracks>>

\* negotiate, whose offers Negotiation describes, by the task at step from.
Negotiates(k, s, from, to) ==
    /\ Goes(k, from, to)
    /\ negotiated' = [negotiated EXCEPT ![s] = transceivers[s]]
    /\ UNCHANGED <<loops, room, transceivers, tracks, down_tracks>>
-----------------------------------------------------------------------------
(* join, which holds the lock of the session provider from get_session on.  *)

BeginJoin(p) ==
    /\ Goes(Join(p), "idle", "get_session")
    /\ UNCHANGED <<loops, locks, room, media>>

SessionStep == IF sessions = 0 THEN "new_session" ELSE "add_peer"

\* Slip: the provider is not locked while the session is looked for.
GetSessionUnlocked(p) ==
    /\ Goes(Join(p), "get_session", SessionStep)
    /\ UNCHANGED <<loops, locks, room, media>>

\* get_session looks for a session of that id, and makes one where there is none.
GetSession(p) ==
    /\ Goes(Join(p), "get_session", SessionStep)
    /\ provider_lock = None
    /\ provider_lock' = Join(p)
    /\ UNCHANGED <<loops, peers_lock, receivers_lock, room, media>>

\* new_session inserts the one it made in any case.
NewSession(p) ==
    /\ Goes(Join(p), "new_session", "add_peer")
    /\ sessions' = sessions + 1
    /\ UNCHANGED <<loops, locks, peers, receivers, published, media>>

AddPeer(p) ==
    /\ Goes(Join(p), "add_peer", "subscribe")
    /\ peers_lock = None
    /\ peers' = peers \cup {p}
    /\ UNCHANGED <<loops, locks, sessions, receivers, published, media>>

\* subscribe holds the lock of the peers to its end.
Subscribe(p) ==
    /\ Goes(Join(p), "subscribe", "peers")
    /\ peers_lock = None
    /\ peers_lock' = Join(p)
    /\ todo' = [todo EXCEPT ![Join(p)] = Others(p)]
    /\ UNCHANGED <<recs, job, provider_lock, receivers_lock, room, media>>

\* add_down_tracks(s, None): the receivers of one peer's router are copied.
CopyReceivers(p) ==
    \E q \in todo[Join(p)] :
        /\ Goes(Join(p), "peers", IF receivers[q] = {} THEN "peers" ELSE "receivers")
        /\ receivers_lock[q] = None
        /\ todo' = [todo EXCEPT ![Join(p)] = @ \ {q}]
        /\ recs' = [recs EXCEPT ![Join(p)] = receivers[q]]
        /\ UNCHANGED <<job, locks, room, media>>

SubscribeTo(p) ==
    \E r \in recs[Join(p)] :
        /\ Goes(Join(p), "receivers", "check")
        /\ recs' = [recs EXCEPT ![Join(p)] = @ \ {r}]
        /\ job' = [job EXCEPT ![Join(p)] = <<p, r>>]
        /\ UNCHANGED <<todo, locks, room, media>>

SubscribedToPeer(p) ==
    /\ recs[Join(p)] = {}
    /\ Negotiates(Join(p), p, "receivers", "peers")
    /\ UNCHANGED locks

EndJoin(p) ==
    /\ todo[Join(p)] = {}
    /\ Negotiates(Join(p), p, "peers", "joined")
    /\ provider_lock' = None
    /\ peers_lock' = None
    /\ UNCHANGED receivers_lock
-----------------------------------------------------------------------------
(* on_track, called for one track of a connection after the other, once the *)
(* peer has joined and its first offer is answered.                         *)

OnTrack(t) ==
    LET p == Owner[t]
        k == Publish(p)
    IN  /\ at[Join(p)] = "joined"
        /\ t \notin receivers[p]
        /\ Goes(k, "idle", "add_receiver")
        /\ job' = [job EXCEPT ![k] = <<p, t>>]
        /\ UNCHANGED <<todo, recs, locks, room, media>>

\* The track's receiver is made, and entered in the map of its router.
EnterReceiver(p) ==
    receivers' = [receivers EXCEPT ![p] = @ \cup {Rec(Publish(p))}]

\* Slip: the receivers are unlocked as soon as the receiver is entered.
AddReceiverUnlocked(p) ==
    /\ Goes(Publish(p), "add_receiver", "add_up_track")
    /\ receivers_lock[p] = None
    /\ EnterReceiver(p)
    /\ UNCHANGED <<loops, locks, sessions, peers, published, media>>

\* The receiver is entered under the lock of the receivers, which add_receiver
\* holds until it returns.
AddReceiver(p) ==
    /\ Goes(Publish(p), "add_receiver", "add_up_track")
    /\ receivers_lock[p] = None
    /\ receivers_lock' = [receivers_lock EXCEPT ![p] = Publish(p)]
    /\ EnterReceiver(p)
    /\ UNCHANGED <<loops, provider_lock, peers_lock, sessions, peers, published,
                   media>>

\* Slip: the receivers stay locked while the track is published.
AddUpTrackLocked(p) ==
    LET k == Publish(p)
    IN  /\ Goes(k, "add_up_track", "peers_of_session")
        /\ Rec(k) \notin Simulcast
        /\ UNCHANGED <<loops, locks, room, media>>

\* add_up_track takes the lock of available and, for a simulcast track, takes it
\* again before it gives it back: it waits for itself.
AddUpTrack(p) ==
    LET k == Publish(p)
    IN  /\ Goes(k, "add_up_track", "peers_of_session")
        /\ Rec(k) \notin Simulcast
        /\ receivers_lock' = [receivers_lock EXCEPT ![p] = None]
        /\ UNCHANGED <<loops, provider_lock, peers_lock, room, media>>

AddSimulcastUpTrack(p) ==
    LET k == Publish(p)
    IN  /\ Goes(k, "add_up_track", "stuck")
        /\ Rec(k) \in Simulcast
        /\ UNCHANGED <<loops, locks, room, media>>

\* publish: the session's peers are copied.
CopyPeers(p) ==
    LET k == Publish(p)
    IN  /\ Goes(k, "peers_of_session", "peers")
        /\ peers_lock = None
        /\ todo' = [todo EXCEPT ![k] = Others(p)]
        /\ UNCHANGED <<recs, job, locks, room, media>>

\* Slip: the loop does not leave the peer behind.
PublishToAgain(p) ==
    LET k == Publish(p)
    IN  \E s \in todo[k] :
            /\ Goes(k, "peers", "check")
            /\ job' = [job EXCEPT ![k] = <<s, Rec(k)>>]
            /\ UNCHANGED <<todo, recs, locks, room, media>>

PublishTo(p) ==
    LET k == Publish(p)
    IN  \E s \in todo[k] :
            /\ Goes(k, "peers", "check")
            /\ todo' = [todo EXCEPT ![k] = @ \ {s}]
            /\ job' = [job EXCEPT ![k] = <<s, Rec(k)>>]
            /\ UNCHANGED <<recs, locks, room, media>>

PublishedTo(p) ==
    /\ Negotiates(Publish(p), Sub(Publish(p)), "negotiate", "peers")
    /\ UNCHANGED locks

EndPublish(p) ==
    LET k == Publish(p)
    IN  /\ todo[k] = {}
        /\ Goes(k, "peers", "idle")
        /\ published' = published \cup {Rec(k)}
        /\ UNCHANGED <<loops, locks, sessions, peers, receivers, media>>
-----------------------------------------------------------------------------
AddDownTrackStep(k) ==
    \/ CheckRegistered(k)
    \/ AddTransceiver(k)
    \/ Register(k)
    \/ CheckSubscribed(k)
    \/ Store(k)

JoinStep(p) ==
    \/ GetSession(p)
    \/ NewSession(p)
    \/ AddPeer(p)
    \/ Subscribe(p)
    \/ CopyReceivers(p)
    \/ SubscribeTo(p)
    \/ SubscribedToPeer(p)
    \/ EndJoin(p)
    \/ AddDownTrackStep(Join(p))

PublishStep(p) ==
    \/ AddReceiver(p)
    \/ AddUpTrack(p)
    \/ AddSimulcastUpTrack(p)
    \/ CopyPeers(p)
    \/ PublishTo(p)
    \/ PublishedTo(p)
    \/ EndPublish(p)
    \/ AddDownTrackStep(Publish(p))

Next ==
    \/ \E p \in Peers : BeginJoin(p) \/ JoinStep(p) \/ PublishStep(p)
    \/ \E t \in Tracks : OnTrack(t)

\* Every task the runtime polls goes on, and a lock given back is had by the next.
Fairness == \A p \in Peers : WF_vars(JoinStep(p)) /\ WF_vars(PublishStep(p))

Spec == Init /\ [][Next]_vars /\ Fairness
-----------------------------------------------------------------------------
(* Properties.                                                             *)

AddSteps == {"check", "connect", "register", "subscribed", "store"}

JoinSteps == {"idle", "get_session", "new_session", "add_peer", "subscribe",
              "peers", "receivers", "joined"}

PublishSteps == {"idle", "add_receiver", "add_up_track", "stuck",
                 "peers_of_session", "peers", "negotiate"}

\* The holder of each lock is a task at a step of the part that holds it.
TypeOK ==
    /\ \A p \in Peers : /\ at[Join(p)] \in JoinSteps \cup AddSteps
                        /\ at[Publish(p)] \in PublishSteps \cup AddSteps
    /\ todo \in [Tasks -> SUBSET Peers]
    /\ recs \in [Tasks -> SUBSET Tracks]
    /\ job \in [Tasks -> (Peers \X Tracks) \cup {None}]
    /\ provider_lock \in {Join(p) : p \in Peers} \cup {None}
    /\ peers_lock \in {Join(p) : p \in Peers} \cup {None}
    /\ \A p \in Peers : receivers_lock[p] \in {Publish(p), None}
    /\ sessions \in Nat
    /\ peers \subseteq Peers
    /\ \A p \in Peers : receivers[p] \subseteq {t \in Tracks : Owner[t] = p}
    /\ published \subseteq UNION {receivers[p] : p \in Peers}
    /\ transceivers \in [Peers -> [Tracks -> 0 .. 2]]
    /\ negotiated \in [Peers -> [Tracks -> 0 .. 2]]
    /\ \A p \in Peers : tracks[p] \in [DOMAIN tracks[p] -> SUBSET Tracks]
    /\ down_tracks \in [Tracks -> [Peers -> 0 .. 2]]

\* However a join and a publication are interleaved, a peer that has joined gets
\* each track that has been published: it is fed and has been negotiated (add_peer
\* before subscribe, the receiver entered before publish).
NobodyIsMissed ==
    \A s \in Peers, t \in published :
        at[Join(s)] = "joined" /\ s # Owner[t]
            => down_tracks[t][s] > 0 /\ negotiated[s][t] > 0

\* No peer is subscribed to a receiver whose up track is still being added
\* (add_receiver keeps the receivers locked).
UpBeforeDown ==
    \A k \in Tasks, p \in Peers :
        at[k] \in AddSteps /\ at[Publish(p)] \in {"add_up_track", "stuck"}
            => Rec(k) # Rec(Publish(p))

\* Peers that join by one id, however their joins overlap, are in one session: the
\* search for it and its entry are awaits apart (get_session, new_session), but
\* join keeps the provider locked.  Nobody is sent a track before it is in it.
OneSession ==
    /\ sessions <= 1
    /\ \A p \in peers : sessions = 1
    /\ \A s \in Peers, t \in Tracks : transceivers[s][t] > 0 => s \in peers

SomeoneIsStuck == \E p \in Peers : at[Publish(p)] = "stuck"

\* Joins and publications end: the locks they wait for, one while holding another,
\* are given back, unless a simulcast track comes.
EveryTaskEnds ==
    []<>(SomeoneIsStuck \/ \A k \in Tasks : at[k] \in {"idle", "joined"})

\* A peer that joins gets into the room, whatever tracks the others publish.
EveryoneJoins ==
    \A p \in Peers : at[Join(p)] = "get_session" ~> at[Join(p)] = "joined"
=============================================================================
