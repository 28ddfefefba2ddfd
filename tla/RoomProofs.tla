----------------------------- MODULE RoomProofs -----------------------------
(***************************************************************************)
(* What TLAPS proves of Room, for any number of peers and tracks: all are  *)
(* in one session, nobody is subscribed to a receiver before its up track  *)
(* is set, nobody who has joined misses what has been published, and a     *)
(* track is added to a connection at most twice.                           *)
(***************************************************************************)
EXTENDS Room, TLAPS

Steps == JoinSteps \cup PublishSteps \cup AddSteps

\* The shape of the variables.
ShapeInv ==
    /\ at \in [Tasks -> Steps]
    /\ todo \in [Tasks -> SUBSET Peers]
    /\ recs \in [Tasks -> SUBSET Tracks]
    /\ job \in [Tasks -> (Peers \X Tracks) \cup {None}]
    /\ receivers_lock \in [Peers -> Tasks \cup {None}]
    /\ sessions \in Nat
    /\ peers \subseteq Peers
    /\ receivers \in [Peers -> SUBSET Tracks]
    /\ published \subseteq Tracks
    /\ transceivers \in [Peers -> [Tracks -> Nat]]
    /\ negotiated \in [Peers -> [Tracks -> Nat]]
    /\ DOMAIN tracks = Peers
    /\ down_tracks \in [Tracks -> [Peers -> Nat]]

BeforeSession == {"idle", "get_session", "new_session"}
BeforePeer    == BeforeSession \cup {"add_peer"}
BeforeLoop    == BeforePeer \cup {"subscribe"}
InJoin        == (JoinSteps \cup AddSteps) \ {"idle", "get_session", "joined"}
WithReceivers == AddSteps \cup {"receivers"}
UpSteps       == {"add_receiver", "add_up_track", "stuck"}
PublishLoop   == AddSteps \cup {"peers", "negotiate"}

\* Whoever is in a session has come through the one that join made of the id, the
\* provider being locked from the search for it on.
SessionInv ==
    /\ \A p \in Peers : at[Join(p)] \in InJoin => provider_lock = Join(p)
    /\ sessions \in {0, 1}
    /\ \A p \in Peers : at[Join(p)] = "new_session" => sessions = 0
    /\ \A p \in Peers : at[Join(p)] \notin BeforeSession => sessions = 1
    /\ \A p \in Peers : at[Join(p)] \notin BeforePeer => p \in peers
    /\ \A p \in peers : sessions = 1

\* A join works on receivers that were entered, for its own peer.
JoinJobs ==
    \A p \in Peers :
        /\ at[Join(p)] \in AddSteps => /\ job[Join(p)] \in Peers \X Tracks
                                      /\ Sub(Join(p)) = p
                                      /\ Rec(Join(p)) \in receivers[Owner[Rec(Join(p))]]
        /\ at[Join(p)] \notin WithReceivers => recs[Join(p)] = {}
        /\ \A t \in recs[Join(p)] : t \in receivers[Owner[t]]

\* A publication works on a track of its own peer, which is not published yet.
PublishJobs ==
    \A p \in Peers :
        at[Publish(p)] # "idle" =>
            /\ p \in peers
            /\ job[Publish(p)] \in Peers \X Tracks
            /\ Owner[Rec(Publish(p))] = p
            /\ Rec(Publish(p)) \notin published
            /\ at[Publish(p)] = "add_receiver" <=> Rec(Publish(p)) \notin receivers[p]

\* Only peers of the session are subscribed, and only they have receivers.
MemberInv ==
    /\ \A k \in Tasks : todo[k] \subseteq peers
    /\ \A k \in Tasks : at[k] \in AddSteps => Sub(k) \in peers
    /\ \A p \in Peers : \A t \in receivers[p] : Owner[t] = p /\ p \in peers
    /\ \A t \in published : t \in receivers[Owner[t]]

JobInv == JoinJobs /\ PublishJobs /\ MemberInv

\* A receiver whose up track is being added is in nobody's hands but add_receiver's.
UpInv ==
    \A p \in Peers : at[Publish(p)] \in UpSteps =>
        /\ at[Publish(p)] # "add_receiver" => receivers_lock[p] = Publish(p)
        /\ \A s \in Peers :
              /\ Rec(Publish(p)) \notin recs[Join(s)]
              /\ at[Join(s)] \in AddSteps => Rec(Join(s)) # Rec(Publish(p))

\* Task k has the pair in hand.
Open(k, s, t) == at[k] \in AddSteps /\ job[k] = <<s, t>>

\* It has registered it, and feeds it unless it is fed.
Feeds(k, s, t) == at[k] \in {"subscribed", "store"} /\ job[k] = <<s, t>>

\* A pair that is registered is fed, or one of the two tasks is about to feed it: the
\* other may rely on it.
FedInv ==
    /\ \A k \in Tasks : at[k] \in {"register", "subscribed", "store"} =>
           transceivers[Sub(k)][Rec(k)] > 0
    /\ \A s \in Peers, t \in Tracks : transceivers[s][t] > 0 => s \in peers
    /\ \A s \in Peers, t \in Tracks : down_tracks[t][s] > 0 => transceivers[s][t] > 0
    /\ \A s \in Peers, t \in Tracks :
           Registered(s, t) => \/ down_tracks[t][s] > 0
                               \/ Feeds(Join(s), s, t)
                               \/ Feeds(Publish(Owner[t]), s, t)

\* The join of s has t still before it, or in hand.
JoinHas(s, t) ==
    \/ at[Join(s)] \in BeforeLoop
    \/ at[Join(s)] \in WithReceivers \cup {"peers"} /\ Owner[t] \in todo[Join(s)]
    \/ t \in recs[Join(s)]
    \/ Open(Join(s), s, t)

\* The publication of t has s still before it, or in hand, or has not begun.
PublicationHas(s, t) ==
    LET k == Publish(Owner[t])
    IN  \/ t \notin receivers[Owner[t]]
        \/ Rec(k) = t /\ at[k] \in UpSteps \cup {"peers_of_session"}
        \/ Rec(k) = t /\ at[k] \in PublishLoop /\ s \in todo[k]
        \/ Open(k, s, t)

\* Nobody lets go of a pair that is not fed, unless the other has it.
CoverInv ==
    \A s \in Peers, t \in Tracks :
        s # Owner[t] => \/ down_tracks[t][s] > 0
                        \/ JoinHas(s, t)
                        \/ PublicationHas(s, t)

\* What was added to a connection is negotiated, or a task is about to.
NegotiatedInv ==
    \A s \in Peers, t \in Tracks : transceivers[s][t] > 0 =>
        \/ negotiated[s][t] > 0
        \/ at[Join(s)] \in WithReceivers \cup {"peers"}
        \/ /\ at[Publish(Owner[t])] \in AddSteps \cup {"negotiate"}
           /\ job[Publish(Owner[t])] = <<s, t>>
-----------------------------------------------------------------------------
(* The tasks.                                                              *)

LEMMA TaskFacts ==
    /\ \A p \in Peers : Join(p) \in Tasks /\ Publish(p) \in Tasks
    /\ \A p, q \in Peers : Join(p) # Publish(q)
    /\ \A p, q \in Peers : Join(p) = Join(q) => p = q
    /\ \A p, q \in Peers : Publish(p) = Publish(q) => p = q
    /\ \A k \in Tasks : \E p \in Peers : k = Join(p) \/ k = Publish(p)
BY DEF Tasks, Join, Publish

LEMMA NobodyIsNoTask == None \notin Tasks
BY RoomAssumption

LEMMA ReturnFacts ==
    /\ \A p \in Peers : Return(Join(p)) = "receivers"
    /\ \A p \in Peers : Return(Publish(p)) = "negotiate"
    /\ \A k \in Tasks : Return(k) \in {"receivers", "negotiate"}
BY DEF Return, Join, Publish

\* A counter of a pair that goes up by one.
LEMMA CountUp ==
    ASSUME NEW S, NEW T, NEW f \in [S -> [T -> Nat]], NEW s \in S, NEW t \in T,
           NEW g, g = [f EXCEPT ![s][t] = @ + 1]
    PROVE  /\ g \in [S -> [T -> Nat]]
           /\ \A q \in S, r \in T : g[q][r] > 0 <=> f[q][r] > 0 \/ (q = s /\ r = t)
<1> DEFINE h == [f[s] EXCEPT ![t] = @ + 1]
<1>1. f[s] \in [T -> Nat] /\ f[s][t] \in Nat /\ f[s][t] + 1 \in Nat /\ f[s][t] + 1 > 0
  OBVIOUS
<1>2. h \in [T -> Nat] /\ h[t] > 0 /\ \A r \in T : r # t => h[r] = f[s][r]
  BY <1>1
<1> HIDE DEF h
<1>3. g = [f EXCEPT ![s] = h]
  BY <1>1 DEF h
<1>4. /\ g \in [S -> [T -> Nat]]
      /\ \A q \in S : g[q] = IF q = s THEN h ELSE f[q]
  BY <1>2, <1>3
<1>5. \A q \in S, r \in T : g[q][r] > 0 <=> f[q][r] > 0 \/ (q = s /\ r = t)
  BY <1>2, <1>4
<1> QED
  BY <1>4, <1>5

LEMMA CountTransceiver ==
    ASSUME ShapeInv, NEW s \in Peers, NEW t \in Tracks,
           transceivers' = [transceivers EXCEPT ![s][t] = @ + 1]
    PROVE  /\ transceivers' \in [Peers -> [Tracks -> Nat]]
           /\ \A q \in Peers, r \in Tracks :
                 transceivers'[q][r] > 0 <=> transceivers[q][r] > 0 \/ (q = s /\ r = t)
<1>1. transceivers \in [Peers -> [Tracks -> Nat]]
  BY DEF ShapeInv
<1> QED
  BY <1>1, CountUp

LEMMA CountDownTrack ==
    ASSUME ShapeInv, NEW s \in Peers, NEW t \in Tracks,
           down_tracks' = [down_tracks EXCEPT ![t][s] = @ + 1]
    PROVE  /\ down_tracks' \in [Tracks -> [Peers -> Nat]]
           /\ \A r \in Tracks, q \in Peers :
                 down_tracks'[r][q] > 0 <=> down_tracks[r][q] > 0 \/ (r = t /\ q = s)
<1>1. down_tracks \in [Tracks -> [Peers -> Nat]]
  BY DEF ShapeInv
<1> QED
  BY <1>1, CountUp

-----------------------------------------------------------------------------
(* What a task has in hand.                                                *)

LEMMA InHand ==
    ASSUME ShapeInv, JobInv, NEW k \in Tasks, at[k] \in AddSteps
    PROVE  /\ job[k] \in Peers \X Tracks
           /\ Sub(k) \in Peers
           /\ Rec(k) \in Tracks
           /\ job[k] = <<Sub(k), Rec(k)>>
<1>1. job[k] \in Peers \X Tracks
  <2>1. PICK p \in Peers : k = Join(p) \/ k = Publish(p)
    BY TaskFacts
  <2> QED
    BY <2>1 DEF JobInv, JoinJobs, PublishJobs, AddSteps
<1> QED
  BY <1>1 DEF Sub, Rec

LEMMA Publishing ==
    ASSUME ShapeInv, JobInv, NEW p \in Peers, at[Publish(p)] # "idle"
    PROVE  /\ job[Publish(p)] \in Peers \X Tracks
           /\ Sub(Publish(p)) \in Peers
           /\ Rec(Publish(p)) \in Tracks
           /\ job[Publish(p)] = <<Sub(Publish(p)), Rec(Publish(p))>>
BY DEF JobInv, PublishJobs, Sub, Rec

-----------------------------------------------------------------------------
(* The steps keep the shape.                                               *)

LEMMA ShapeKept ==
    ASSUME ShapeInv, JobInv, [Next]_vars
    PROVE  ShapeInv'
<1> USE TaskFacts, ReturnFacts
        DEF Goes, locks, room, media, loops, ShapeInv, Steps, JoinSteps, PublishSteps,
            AddSteps
<1>0. CASE UNCHANGED vars
  BY <1>0 DEF vars
<1>1. ASSUME NEW p \in Peers, BeginJoin(p) PROVE ShapeInv'
  BY <1>1 DEF BeginJoin
<1>2. ASSUME NEW p \in Peers, GetSession(p) PROVE ShapeInv'
  BY <1>2 DEF GetSession, SessionStep
<1>3. ASSUME NEW p \in Peers, NewSession(p) PROVE ShapeInv'
  BY <1>3 DEF NewSession
<1>4. ASSUME NEW p \in Peers, AddPeer(p) PROVE ShapeInv'
  BY <1>4 DEF AddPeer
<1>5. ASSUME NEW p \in Peers, Subscribe(p) PROVE ShapeInv'
  BY <1>5 DEF Subscribe, Others
<1>6. ASSUME NEW p \in Peers, CopyReceivers(p) PROVE ShapeInv'
  BY <1>6 DEF CopyReceivers
<1>7. ASSUME NEW p \in Peers, SubscribeTo(p) PROVE ShapeInv'
  BY <1>7 DEF SubscribeTo
<1>8. ASSUME NEW p \in Peers, SubscribedToPeer(p) PROVE ShapeInv'
  BY <1>8 DEF SubscribedToPeer, Negotiates
<1>9. ASSUME NEW p \in Peers, EndJoin(p) PROVE ShapeInv'
  BY <1>9 DEF EndJoin, Negotiates
<1>10. ASSUME NEW p \in Peers, AddReceiver(p) PROVE ShapeInv'
  <2>1. Rec(Publish(p)) \in Tracks
    BY <1>10, Publishing DEF AddReceiver
  <2> QED
    BY <1>10, <2>1 DEF AddReceiver, EnterReceiver
<1>11. ASSUME NEW p \in Peers, AddUpTrack(p) PROVE ShapeInv'
  BY <1>11 DEF AddUpTrack
<1>12. ASSUME NEW p \in Peers, AddSimulcastUpTrack(p) PROVE ShapeInv'
  BY <1>12 DEF AddSimulcastUpTrack
<1>13. ASSUME NEW p \in Peers, CopyPeers(p) PROVE ShapeInv'
  BY <1>13 DEF CopyPeers, Others
<1>14. ASSUME NEW p \in Peers, PublishTo(p) PROVE ShapeInv'
  <2>1. PICK s \in todo[Publish(p)] :
            job' = [job EXCEPT ![Publish(p)] = <<s, Rec(Publish(p))>>]
    BY <1>14 DEF PublishTo
  <2>2. Rec(Publish(p)) \in Tracks /\ s \in Peers
    BY <1>14, Publishing DEF PublishTo
  <2>3. job' \in [Tasks -> (Peers \X Tracks) \cup {None}]
    BY <2>1, <2>2
  <2> QED
    BY <1>14, <2>3 DEF PublishTo
<1>15. ASSUME NEW p \in Peers, PublishedTo(p) PROVE ShapeInv'
  BY <1>15 DEF PublishedTo, Negotiates
<1>16. ASSUME NEW p \in Peers, EndPublish(p) PROVE ShapeInv'
  <2>1. Rec(Publish(p)) \in Tracks
    BY <1>16, Publishing DEF EndPublish
  <2> QED
    BY <1>16, <2>1 DEF EndPublish
<1>17. ASSUME NEW k \in Tasks, CheckRegistered(k) PROVE ShapeInv'
  BY <1>17 DEF CheckRegistered
<1>18. ASSUME NEW k \in Tasks, AddTransceiver(k) PROVE ShapeInv'
  <2>1. Sub(k) \in Peers /\ Rec(k) \in Tracks
    BY <1>18, InHand DEF AddTransceiver
  <2>2. transceivers' \in [Peers -> [Tracks -> Nat]]
    BY <1>18, <2>1, CountTransceiver DEF AddTransceiver
  <2> QED
    BY <1>18, <2>2 DEF AddTransceiver
<1>19. ASSUME NEW k \in Tasks, Register(k) PROVE ShapeInv'
  BY <1>19 DEF Register
<1>20. ASSUME NEW k \in Tasks, CheckSubscribed(k) PROVE ShapeInv'
  BY <1>20 DEF CheckSubscribed
<1>21. ASSUME NEW k \in Tasks, Store(k) PROVE ShapeInv'
  <2>1. Sub(k) \in Peers /\ Rec(k) \in Tracks
    BY <1>21, InHand DEF Store
  <2>2. down_tracks' \in [Tracks -> [Peers -> Nat]]
    BY <1>21, <2>1, CountDownTrack DEF Store
  <2>3. at' \in [Tasks -> Steps]
    BY <1>21 DEF Store
  <2> QED
    BY <1>21, <2>2, <2>3 DEF Store
<1>22. ASSUME NEW t \in Tracks, OnTrack(t) PROVE ShapeInv'
  <2>1. Owner[t] \in Peers
    BY RoomAssumption
  <2> QED
    BY <1>22, <2>1 DEF OnTrack
<1> QED
  BY <1>0, <1>1, <1>2, <1>3, <1>4, <1>5, <1>6, <1>7, <1>8, <1>9, <1>10, <1>11, <1>12,
     <1>13, <1>14, <1>15, <1>16, <1>17, <1>18, <1>19, <1>20, <1>21, <1>22
     DEF Next, JoinStep, PublishStep, AddDownTrackStep

-----------------------------------------------------------------------------
(* Who is where, and with what.                                            *)

\* Only the holder of the provider's lock comes between the search for a session and
\* its entry.
LEMMA SessionKept ==
    ASSUME ShapeInv, JobInv, SessionInv, [Next]_vars
    PROVE  SessionInv'
<1> USE TaskFacts, ReturnFacts
        DEF Goes, locks, room, media, loops, ShapeInv, SessionInv, BeforeSession,
            BeforePeer, InJoin, Steps, JoinSteps, PublishSteps, AddSteps
<1>0. CASE UNCHANGED vars
  BY <1>0 DEF vars
<1>1. ASSUME NEW p \in Peers, BeginJoin(p) PROVE SessionInv'
  BY <1>1 DEF BeginJoin
<1>2. ASSUME NEW p \in Peers, GetSession(p) PROVE SessionInv'
  <2>1. \A q \in Peers : at[Join(q)] \notin InJoin
    BY <1>2, NobodyIsNoTask DEF GetSession
  <2>2. \A q \in Peers : q # p => at'[Join(q)] = at[Join(q)]
    BY <1>2 DEF GetSession
  <2>3. /\ at'[Join(p)] = IF sessions = 0 THEN "new_session" ELSE "add_peer"
        /\ provider_lock' = Join(p)
        /\ UNCHANGED <<sessions, peers>>
    BY <1>2 DEF GetSession, SessionStep
  <2> QED
    BY <2>1, <2>2, <2>3
<1>3. ASSUME NEW p \in Peers, NewSession(p) PROVE SessionInv'
  <2>1. \A q \in Peers : q # p => at[Join(q)] \notin InJoin /\ at'[Join(q)] = at[Join(q)]
    BY <1>3 DEF NewSession
  <2>2. /\ at'[Join(p)] = "add_peer"
        /\ sessions' = 1
        /\ UNCHANGED <<provider_lock, peers>>
    BY <1>3 DEF NewSession
  <2>3. at[Join(p)] = "new_session" /\ provider_lock = Join(p)
    BY <1>3 DEF NewSession
  <2> QED
    BY <2>1, <2>2, <2>3
<1>4. ASSUME NEW p \in Peers, AddPeer(p) PROVE SessionInv'
  BY <1>4 DEF AddPeer
<1>5. ASSUME NEW p \in Peers, Subscribe(p) PROVE SessionInv'
  BY <1>5 DEF Subscribe, Others
<1>6. ASSUME NEW p \in Peers, CopyReceivers(p) PROVE SessionInv'
  BY <1>6 DEF CopyReceivers
<1>7. ASSUME NEW p \in Peers, SubscribeTo(p) PROVE SessionInv'
  BY <1>7 DEF SubscribeTo
<1>8. ASSUME NEW p \in Peers, SubscribedToPeer(p) PROVE SessionInv'
  BY <1>8 DEF SubscribedToPeer, Negotiates
<1>9. ASSUME NEW p \in Peers, EndJoin(p) PROVE SessionInv'
  BY <1>9 DEF EndJoin, Negotiates
<1>10. ASSUME NEW p \in Peers, AddReceiver(p) PROVE SessionInv'
  BY <1>10 DEF AddReceiver, EnterReceiver
<1>11. ASSUME NEW p \in Peers, AddUpTrack(p) PROVE SessionInv'
  BY <1>11 DEF AddUpTrack
<1>12. ASSUME NEW p \in Peers, AddSimulcastUpTrack(p) PROVE SessionInv'
  BY <1>12 DEF AddSimulcastUpTrack
<1>13. ASSUME NEW p \in Peers, CopyPeers(p) PROVE SessionInv'
  BY <1>13 DEF CopyPeers, Others
<1>14. ASSUME NEW p \in Peers, PublishTo(p) PROVE SessionInv'
  BY <1>14 DEF PublishTo
<1>15. ASSUME NEW p \in Peers, PublishedTo(p) PROVE SessionInv'
  BY <1>15 DEF PublishedTo, Negotiates
<1>16. ASSUME NEW p \in Peers, EndPublish(p) PROVE SessionInv'
  BY <1>16 DEF EndPublish
<1>17. ASSUME NEW k \in Tasks, CheckRegistered(k) PROVE SessionInv'
  BY <1>17 DEF CheckRegistered
<1>18. ASSUME NEW k \in Tasks, AddTransceiver(k) PROVE SessionInv'
  BY <1>18 DEF AddTransceiver
<1>19. ASSUME NEW k \in Tasks, Register(k) PROVE SessionInv'
  BY <1>19 DEF Register
<1>20. ASSUME NEW k \in Tasks, CheckSubscribed(k) PROVE SessionInv'
  BY <1>20 DEF CheckSubscribed
<1>21. ASSUME NEW k \in Tasks, Store(k) PROVE SessionInv'
  BY <1>21 DEF Store
<1>22. ASSUME NEW t \in Tracks, OnTrack(t) PROVE SessionInv'
  <2>1. Owner[t] \in Peers
    BY RoomAssumption
  <2> QED
    BY <1>22, <2>1 DEF OnTrack
<1> QED
  BY <1>0, <1>1, <1>2, <1>3, <1>4, <1>5, <1>6, <1>7, <1>8, <1>9, <1>10, <1>11, <1>12,
     <1>13, <1>14, <1>15, <1>16, <1>17, <1>18, <1>19, <1>20, <1>21, <1>22
     DEF Next, JoinStep, PublishStep, AddDownTrackStep

\* A task takes up what the map it goes through holds, and nothing leaves the maps.
LEMMA JobKept ==
    ASSUME ShapeInv, SessionInv, JobInv, [Next]_vars
    PROVE  JobInv'
<1> USE TaskFacts, ReturnFacts, RoomAssumption
        DEF Goes, locks, room, media, loops, ShapeInv, SessionInv, JobInv, JoinJobs,
            PublishJobs, MemberInv, Sub, Rec, WithReceivers, BeforeSession, BeforePeer,
            InJoin, Steps, JoinSteps, PublishSteps, AddSteps
<1>0. CASE UNCHANGED vars
  BY <1>0 DEF vars
<1>1. ASSUME NEW p \in Peers, BeginJoin(p) PROVE JobInv'
  BY <1>1 DEF BeginJoin
<1>2. ASSUME NEW p \in Peers, GetSession(p) PROVE JobInv'
  BY <1>2 DEF GetSession, SessionStep
<1>3. ASSUME NEW p \in Peers, NewSession(p) PROVE JobInv'
  BY <1>3 DEF NewSession
<1>4. ASSUME NEW p \in Peers, AddPeer(p) PROVE JobInv'
  BY <1>4 DEF AddPeer
<1>5. ASSUME NEW p \in Peers, Subscribe(p) PROVE JobInv'
  BY <1>5 DEF Subscribe, Others
<1>6. ASSUME NEW p \in Peers, CopyReceivers(p) PROVE JobInv'
  BY <1>6 DEF CopyReceivers
<1>7. ASSUME NEW p \in Peers, SubscribeTo(p) PROVE JobInv'
  <2>1. PICK r \in recs[Join(p)] :
            /\ Goes(Join(p), "receivers", "check")
            /\ recs' = [recs EXCEPT ![Join(p)] = @ \ {r}]
            /\ job' = [job EXCEPT ![Join(p)] = <<p, r>>]
            /\ UNCHANGED <<todo, peers, receivers, published>>
    BY <1>7 DEF SubscribeTo
  <2>2. /\ \A k \in Tasks : k # Join(p) =>
               at'[k] = at[k] /\ job'[k] = job[k] /\ recs'[k] = recs[k]
        /\ at'[Join(p)] = "check" /\ job'[Join(p)] = <<p, r>>
        /\ recs'[Join(p)] = recs[Join(p)] \ {r}
    BY <2>1
  <2>3. job'[Join(p)][1] = p /\ job'[Join(p)][2] = r
    BY <2>2
  <2>4. at[Join(p)] = "receivers" /\ p \in peers
    BY <2>1
  <2>5. r \in receivers[Owner[r]] /\ r \in Tracks
    BY <2>1
  <2> QED
    BY <2>1, <2>2, <2>3, <2>4, <2>5
<1>8. ASSUME NEW p \in Peers, SubscribedToPeer(p) PROVE JobInv'
  BY <1>8 DEF SubscribedToPeer, Negotiates
<1>9. ASSUME NEW p \in Peers, EndJoin(p) PROVE JobInv'
  BY <1>9 DEF EndJoin, Negotiates
<1>10. ASSUME NEW p \in Peers, AddReceiver(p) PROVE JobInv'
  BY <1>10 DEF AddReceiver, EnterReceiver
<1>11. ASSUME NEW p \in Peers, AddUpTrack(p) PROVE JobInv'
  BY <1>11 DEF AddUpTrack
<1>12. ASSUME NEW p \in Peers, AddSimulcastUpTrack(p) PROVE JobInv'
  BY <1>12 DEF AddSimulcastUpTrack
<1>13. ASSUME NEW p \in Peers, CopyPeers(p) PROVE JobInv'
  BY <1>13 DEF CopyPeers, Others
<1>14. ASSUME NEW p \in Peers, PublishTo(p) PROVE JobInv'
  BY <1>14 DEF PublishTo
<1>15. ASSUME NEW p \in Peers, PublishedTo(p) PROVE JobInv'
  BY <1>15 DEF PublishedTo, Negotiates
<1>16. ASSUME NEW p \in Peers, EndPublish(p) PROVE JobInv'
  <2>1. /\ Rec(Publish(p)) \in receivers[p] /\ Owner[Rec(Publish(p))] = p
        /\ published' = published \cup {Rec(Publish(p))}
        /\ \A k \in Tasks : at'[k] = IF k = Publish(p) THEN "idle" ELSE at[k]
        /\ UNCHANGED <<todo, recs, job, peers, receivers>>
    BY <1>16 DEF EndPublish
  <2>2. \A q \in Peers : at'[Publish(q)] # "idle" => Rec(Publish(q)) # Rec(Publish(p))
    BY <2>1
  <2> QED
    BY <2>1, <2>2
<1>17. ASSUME NEW k \in Tasks, CheckRegistered(k) PROVE JobInv'
  BY <1>17 DEF CheckRegistered
<1>18. ASSUME NEW k \in Tasks, AddTransceiver(k) PROVE JobInv'
  BY <1>18 DEF AddTransceiver
<1>19. ASSUME NEW k \in Tasks, Register(k) PROVE JobInv'
  <2>1. /\ Goes(k, "register", "subscribed")
        /\ UNCHANGED <<loops, locks, room, transceivers, negotiated, down_tracks>>
    BY <1>19 DEF Register
  <2> QED
    BY <2>1
<1>20. ASSUME NEW k \in Tasks, CheckSubscribed(k) PROVE JobInv'
  BY <1>20 DEF CheckSubscribed
<1>21. ASSUME NEW k \in Tasks, Store(k) PROVE JobInv'
  BY <1>21 DEF Store
<1>22. ASSUME NEW t \in Tracks, OnTrack(t) PROVE JobInv'
  <2>1. /\ Owner[t] \in Peers /\ Owner[t] \in peers
        /\ t \notin receivers[Owner[t]] /\ t \notin published
    <3>1. at[Join(Owner[t])] = "joined" /\ t \notin receivers[Owner[t]]
      BY <1>22 DEF OnTrack
    <3>2. Owner[t] \in Peers
      BY RoomAssumption
    <3>3. Owner[t] \in peers
      BY <3>1, <3>2
    <3> QED
      BY <3>1, <3>2, <3>3
  <2> DEFINE k == Publish(Owner[t])
  <2>2. /\ at'[k] = "add_receiver" /\ job'[k] = <<Owner[t], t>>
        /\ \A l \in Tasks : l # k => at'[l] = at[l] /\ job'[l] = job[l]
        /\ UNCHANGED <<todo, recs, peers, receivers, published>>
    BY <2>1, <1>22 DEF OnTrack
  <2>3. job'[k][1] = Owner[t] /\ job'[k][2] = t /\ job'[k] \in Peers \X Tracks
    BY <2>1, <2>2
  <2>4. k \in Tasks /\ \A q \in Peers : Join(q) # k /\ (q # Owner[t] => Publish(q) # k)
    BY <2>1
  <2>5. \A l \in Tasks : at'[l] \in AddSteps => at'[l] = at[l] /\ job'[l] = job[l]
    BY <2>2
  <2> HIDE DEF k
  <2>6. \A q \in Peers : at'[Join(q)] = at[Join(q)] /\ job'[Join(q)] = job[Join(q)]
    BY <2>2, <2>4
  <2>7. \A q \in Peers : q # Owner[t] =>
            at'[Publish(q)] = at[Publish(q)] /\ job'[Publish(q)] = job[Publish(q)]
    BY <2>2, <2>4
  <2>8. at'[Publish(Owner[t])] = "add_receiver" /\ job'[Publish(Owner[t])] = job'[k]
    BY <2>2 DEF k
  <2>9. JoinJobs'
    BY <2>2, <2>6
  <2>10. PublishJobs'
    <3> SUFFICES ASSUME NEW q \in Peers, at'[Publish(q)] # "idle"
                 PROVE  /\ q \in peers
                        /\ job'[Publish(q)] \in Peers \X Tracks
                        /\ Owner[job'[Publish(q)][2]] = q
                        /\ job'[Publish(q)][2] \notin published
                        /\ at'[Publish(q)] = "add_receiver"
                               <=> job'[Publish(q)][2] \notin receivers[q]
      BY <2>2
    <3>1. CASE q = Owner[t]
      BY <2>1, <2>3, <2>8, <3>1
    <3>2. CASE q # Owner[t]
      BY <2>7, <3>2
    <3> QED
      BY <3>1, <3>2
  <2>11. MemberInv'
    BY <2>2, <2>5
  <2> QED
    BY <2>9, <2>10, <2>11
<1> QED
  BY <1>0, <1>1, <1>2, <1>3, <1>4, <1>5, <1>6, <1>7, <1>8, <1>9, <1>10, <1>11, <1>12,
     <1>13, <1>14, <1>15, <1>16, <1>17, <1>18, <1>19, <1>20, <1>21, <1>22
     DEF Next, JoinStep, PublishStep, AddDownTrackStep

\* The lock of the receivers keeps joins away from a receiver that add_receiver has
\* entered; other publications have other owners.
LEMMA UpKept ==
    ASSUME ShapeInv, JobInv, UpInv, [Next]_vars
    PROVE  UpInv'
<1> USE TaskFacts, ReturnFacts, RoomAssumption
        DEF Goes, locks, room, media, loops, ShapeInv, JobInv, JoinJobs, PublishJobs,
            MemberInv, UpInv, UpSteps, Sub, Rec, WithReceivers, Steps, JoinSteps,
            PublishSteps, AddSteps
<1>0. CASE UNCHANGED vars
  BY <1>0 DEF vars
<1>1. ASSUME NEW p \in Peers, BeginJoin(p) PROVE UpInv'
  BY <1>1 DEF BeginJoin
<1>2. ASSUME NEW p \in Peers, GetSession(p) PROVE UpInv'
  BY <1>2 DEF GetSession, SessionStep
<1>3. ASSUME NEW p \in Peers, NewSession(p) PROVE UpInv'
  BY <1>3 DEF NewSession
<1>4. ASSUME NEW p \in Peers, AddPeer(p) PROVE UpInv'
  BY <1>4 DEF AddPeer
<1>5. ASSUME NEW p \in Peers, Subscribe(p) PROVE UpInv'
  BY <1>5 DEF Subscribe, Others
<1>6. ASSUME NEW p \in Peers, CopyReceivers(p) PROVE UpInv'
  <2>1. PICK q \in todo[Join(p)] :
            /\ Goes(Join(p), "peers", IF receivers[q] = {} THEN "peers" ELSE "receivers")
            /\ receivers_lock[q] = None
            /\ recs' = [recs EXCEPT ![Join(p)] = receivers[q]]
            /\ UNCHANGED <<job, receivers_lock>>
    BY <1>6 DEF CopyReceivers
  <2>2. /\ \A k \in Tasks : k # Join(p) => at'[k] = at[k] /\ recs'[k] = recs[k]
        /\ at'[Join(p)] \notin AddSteps /\ recs'[Join(p)] = receivers[q]
    BY <2>1
  <2>3. ASSUME NEW o \in Peers, at[Publish(o)] \in UpSteps
        PROVE  Rec(Publish(o)) \notin receivers[q]
    <3>1. q \in Peers /\ Publish(o) \in Tasks
      OBVIOUS
    <3>2. o # q => Rec(Publish(o)) \notin receivers[q]
      BY <2>3, <3>1
    <3>3. o = q => at[Publish(o)] = "add_receiver"
      BY <2>1, <2>3, <3>1, NobodyIsNoTask
    <3>4. at[Publish(o)] = "add_receiver" => Rec(Publish(o)) \notin receivers[o]
      BY <2>3
    <3> QED
      BY <3>2, <3>3, <3>4
  <2> QED
    BY <2>1, <2>2, <2>3
<1>7. ASSUME NEW p \in Peers, SubscribeTo(p) PROVE UpInv'
  BY <1>7 DEF SubscribeTo
<1>8. ASSUME NEW p \in Peers, SubscribedToPeer(p) PROVE UpInv'
  BY <1>8 DEF SubscribedToPeer, Negotiates
<1>9. ASSUME NEW p \in Peers, EndJoin(p) PROVE UpInv'
  BY <1>9 DEF EndJoin, Negotiates
<1>10. ASSUME NEW p \in Peers, AddReceiver(p) PROVE UpInv'
  BY <1>10 DEF AddReceiver, EnterReceiver
<1>11. ASSUME NEW p \in Peers, AddUpTrack(p) PROVE UpInv'
  BY <1>11 DEF AddUpTrack
<1>12. ASSUME NEW p \in Peers, AddSimulcastUpTrack(p) PROVE UpInv'
  BY <1>12 DEF AddSimulcastUpTrack
<1>13. ASSUME NEW p \in Peers, CopyPeers(p) PROVE UpInv'
  BY <1>13 DEF CopyPeers, Others
<1>14. ASSUME NEW p \in Peers, PublishTo(p) PROVE UpInv'
  BY <1>14 DEF PublishTo
<1>15. ASSUME NEW p \in Peers, PublishedTo(p) PROVE UpInv'
  BY <1>15 DEF PublishedTo, Negotiates
<1>16. ASSUME NEW p \in Peers, EndPublish(p) PROVE UpInv'
  BY <1>16 DEF EndPublish
<1>17. ASSUME NEW k \in Tasks, CheckRegistered(k) PROVE UpInv'
  BY <1>17 DEF CheckRegistered
<1>18. ASSUME NEW k \in Tasks, AddTransceiver(k) PROVE UpInv'
  BY <1>18 DEF AddTransceiver
<1>19. ASSUME NEW k \in Tasks, Register(k) PROVE UpInv'
  <2>1. /\ Goes(k, "register", "subscribed")
        /\ UNCHANGED <<loops, locks, room, transceivers, negotiated, down_tracks>>
    BY <1>19 DEF Register
  <2> QED
    BY <2>1
<1>20. ASSUME NEW k \in Tasks, CheckSubscribed(k) PROVE UpInv'
  BY <1>20 DEF CheckSubscribed
<1>21. ASSUME NEW k \in Tasks, Store(k) PROVE UpInv'
  BY <1>21 DEF Store
<1>22. ASSUME NEW t \in Tracks, OnTrack(t) PROVE UpInv'
  BY <1>22 DEF OnTrack
<1> QED
  BY <1>0, <1>1, <1>2, <1>3, <1>4, <1>5, <1>6, <1>7, <1>8, <1>9, <1>10, <1>11, <1>12,
     <1>13, <1>14, <1>15, <1>16, <1>17, <1>18, <1>19, <1>20, <1>21, <1>22
     DEF Next, JoinStep, PublishStep, AddDownTrackStep

-----------------------------------------------------------------------------
(* Who is fed.                                                             *)

\* Steps outside add_down_track leave FedInv alone.
LEMMA FedFrame ==
    ASSUME ShapeInv, FedInv, RoomAssumption,
           UNCHANGED <<transceivers, tracks, down_tracks>>,
           peers \subseteq peers',
           \A k \in Tasks :
               \/ at'[k] = at[k] /\ job'[k] = job[k]
               \/ {at[k], at'[k]} \cap {"register", "subscribed", "store"} = {}
    PROVE  FedInv'
<1>1. \A k \in Tasks, s \in Peers, t \in Tracks : Feeds(k, s, t)' <=> Feeds(k, s, t)
  BY DEF Feeds
<1>2. \A s \in Peers, t \in Tracks : Registered(s, t)' <=> Registered(s, t)
  BY DEF Registered
<1>3. \A k \in Tasks : at'[k] \in {"register", "subscribed", "store"} =>
          transceivers'[Sub(k)'][Rec(k)'] > 0
  BY DEF FedInv, Sub, Rec
<1>4. \A t \in Tracks : Owner[t] \in Peers
  BY RoomAssumption
<1> QED
  BY <1>1, <1>2, <1>3, <1>4, TaskFacts DEF FedInv

\* The step of a task within add_down_track.
LEMMA FedStep ==
    ASSUME ShapeInv, JobInv, FedInv, NEW k \in Tasks, AddDownTrackStep(k)
    PROVE  FedInv'
<1> USE RoomAssumption, TaskFacts, ReturnFacts DEF Goes, loops, room, media
<1>1. at[k] \in AddSteps
  BY DEF AddDownTrackStep, CheckRegistered, AddTransceiver, Register, CheckSubscribed,
         Store, AddSteps
<1>2. PICK s \in Peers, t \in Tracks :
          /\ s = Sub(k) /\ t = Rec(k) /\ Owner[t] \in Peers
          /\ job[k] = <<s, t>>
          /\ k = Join(s) \/ k = Publish(Owner[t])
  <2>1. PICK p \in Peers : k = Join(p) \/ k = Publish(p)
    OBVIOUS
  <2>2. at[k] # "idle"
    BY <1>1 DEF AddSteps
  <2> QED
    BY <1>1, <2>1, <2>2, InHand DEF JobInv, JoinJobs, PublishJobs
<1>3. /\ UNCHANGED <<job, peers>>
      /\ \A l \in Tasks : l # k => at'[l] = at[l]
      /\ \A l \in Tasks : Sub(l)' = Sub(l) /\ Rec(l)' = Rec(l)
  BY DEF AddDownTrackStep, CheckRegistered, AddTransceiver, Register, CheckSubscribed,
         Store, ShapeInv, Sub, Rec
<1>4. /\ Feeds(k, s, t)' <=> at'[k] \in {"subscribed", "store"}
      /\ \A u \in Peers, r \in Tracks : Feeds(k, u, r) \/ Feeds(k, u, r)' => u = s /\ r = t
      /\ \A l \in Tasks, u \in Peers, r \in Tracks :
            l # k => (Feeds(l, u, r)' <=> Feeds(l, u, r))
  BY <1>2, <1>3 DEF Feeds
<1>5. CASE CheckRegistered(k)
  BY <1>3, <1>5, FedFrame DEF CheckRegistered, ShapeInv
<1>6. CASE AddTransceiver(k)
  <2>1. /\ at[k] = "connect" /\ at'[k] = "register"
        /\ UNCHANGED <<tracks, down_tracks>>
    BY <1>6 DEF AddTransceiver, ShapeInv
  <2>2. \A u \in Peers, r \in Tracks :
            transceivers'[u][r] > 0 <=> transceivers[u][r] > 0 \/ (u = s /\ r = t)
    <3>1. transceivers' = [transceivers EXCEPT ![s][t] = @ + 1]
      BY <1>2, <1>6 DEF AddTransceiver
    <3>2. transceivers \in [Peers -> [Tracks -> Nat]]
      BY DEF ShapeInv
    <3> QED
      BY <3>1, <3>2, CountUp
  <2>3. \A l \in Tasks : at'[l] \in {"register", "subscribed", "store"} =>
            transceivers'[Sub(l)][Rec(l)] > 0
    <3> SUFFICES ASSUME NEW l \in Tasks, at'[l] \in {"register", "subscribed", "store"}
                 PROVE  transceivers'[Sub(l)][Rec(l)] > 0
      OBVIOUS
    <3>1. CASE l = k
      BY <1>2, <2>2, <3>1
    <3>2. CASE l # k
      <4>1. at[l] \in {"register", "subscribed", "store"}
        BY <1>3, <3>2
      <4>2. Sub(l) \in Peers /\ Rec(l) \in Tracks
        BY <4>1, InHand DEF AddSteps
      <4> QED
        BY <2>2, <4>1, <4>2 DEF FedInv
    <3> QED
      BY <3>1, <3>2
  <2>4. s \in peers
    BY <1>1, <1>2 DEF JobInv, MemberInv
  <2>5. \A u \in Peers, r \in Tracks : Registered(u, r)' <=> Registered(u, r)
    BY <2>1 DEF Registered
  <2>6. \A l \in Tasks, u \in Peers, r \in Tracks : Feeds(l, u, r)' <=> Feeds(l, u, r)
    BY <1>4, <2>1 DEF Feeds
  <2> QED
    BY <1>3, <2>1, <2>2, <2>3, <2>4, <2>5, <2>6 DEF FedInv
<1>7. CASE Register(k)
  <2>1. /\ at[k] = "register" /\ at'[k] = "subscribed"
        /\ UNCHANGED <<transceivers, down_tracks>>
    BY <1>7 DEF Register, ShapeInv
  <2>2. ASSUME NEW u \in Peers, NEW r \in Tracks, Registered(u, r)'
        PROVE  Registered(u, r) \/ (u = s /\ r = t)
    <3> DEFINE i == Stream[Rec(k)]
               made == IF i \in DOMAIN tracks[Sub(k)]
                       THEN [tracks[Sub(k)] EXCEPT ![i] = tracks[Sub(k)][i] \cup {Rec(k)}]
                       ELSE [j \in DOMAIN tracks[Sub(k)] \cup {i} |->
                                IF j = i THEN {} ELSE tracks[Sub(k)][j]]
    <3>1. tracks' = [tracks EXCEPT ![Sub(k)] = made]
      BY <1>7 DEF Register
    <3>2. \A j \in DOMAIN made : \A x \in made[j] :
              j \in DOMAIN tracks[s] /\ (x \in tracks[s][j] \/ x = t)
      BY <1>2
    <3> HIDE DEF made
    <3>3. tracks'[u] = IF u = s THEN made ELSE tracks[u]
      BY <1>2, <3>1 DEF ShapeInv
    <3> QED
      BY <2>2, <3>2, <3>3 DEF Registered
  <2>3. Feeds(k, s, t)'
    BY <1>4, <2>1
  <2>4. \A l \in Tasks, u \in Peers, r \in Tracks : Feeds(l, u, r) => Feeds(l, u, r)'
    BY <1>4, <2>1 DEF Feeds
  <2>5. \A l \in Tasks : at'[l] \in {"register", "subscribed", "store"} =>
            at[l] \in {"register", "subscribed", "store"}
    BY <1>3, <2>1
  <2> QED
    BY <1>2, <1>3, <2>1, <2>2, <2>3, <2>4, <2>5 DEF FedInv
<1>8. CASE CheckSubscribed(k)
  <2>1. /\ at[k] = "subscribed"
        /\ at'[k] = IF down_tracks[t][s] > 0 THEN Return(k) ELSE "store"
        /\ UNCHANGED <<transceivers, tracks, down_tracks>>
    BY <1>2, <1>8 DEF CheckSubscribed, ShapeInv
  <2>2. \A u \in Peers, r \in Tracks : Registered(u, r)' <=> Registered(u, r)
    BY <2>1 DEF Registered
  <2>3. \A l \in Tasks, u \in Peers, r \in Tracks :
            Feeds(l, u, r) => Feeds(l, u, r)' \/ down_tracks[r][u] > 0
    <3>1. Feeds(k, s, t)' \/ down_tracks[t][s] > 0
      BY <1>4, <2>1
    <3>2. \A u \in Peers, r \in Tracks : Feeds(k, u, r) => Feeds(k, u, r)' \/ down_tracks[r][u] > 0
      BY <1>4, <3>1
    <3>3. \A l \in Tasks, u \in Peers, r \in Tracks : l # k /\ Feeds(l, u, r) => Feeds(l, u, r)'
      BY <1>4
    <3> QED
      BY <3>2, <3>3
  <2>4. \A l \in Tasks : at'[l] \in {"register", "subscribed", "store"} =>
            at[l] \in {"register", "subscribed", "store"}
    BY <1>3, <2>1
  <2> QED
    BY <1>2, <1>3, <2>1, <2>2, <2>3, <2>4 DEF FedInv
<1>9. CASE Store(k)
  <2>1. /\ at[k] = "store" /\ at'[k] = Return(k)
        /\ UNCHANGED <<transceivers, tracks>>
    BY <1>9 DEF Store, ShapeInv
  <2>2. \A r \in Tracks, u \in Peers :
            down_tracks'[r][u] > 0 <=> down_tracks[r][u] > 0 \/ (r = t /\ u = s)
    <3>1. down_tracks' = [down_tracks EXCEPT ![t][s] = @ + 1]
      BY <1>2, <1>9 DEF Store
    <3> QED
      BY <1>2, <3>1, CountDownTrack
  <2>3. \A u \in Peers, r \in Tracks : Registered(u, r)' <=> Registered(u, r)
    BY <2>1 DEF Registered
  <2>4. \A l \in Tasks, u \in Peers, r \in Tracks :
            Feeds(l, u, r) => Feeds(l, u, r)' \/ down_tracks'[r][u] > 0
    BY <1>2, <1>4, <2>2
  <2>5. transceivers[s][t] > 0
    BY <1>2, <2>1 DEF FedInv
  <2>6. \A l \in Tasks : at'[l] \in {"register", "subscribed", "store"} =>
            at[l] \in {"register", "subscribed", "store"}
    BY <1>3, <2>1
  <2> QED
    BY <1>2, <1>3, <2>1, <2>2, <2>3, <2>4, <2>5, <2>6 DEF FedInv
<1> QED
  BY <1>5, <1>6, <1>7, <1>8, <1>9 DEF AddDownTrackStep

\* Every step.
LEMMA FedKept ==
    ASSUME ShapeInv, JobInv, FedInv, [Next]_vars
    PROVE  FedInv'
<1> USE RoomAssumption, TaskFacts DEF Goes, loops, locks, room, media
<1>1. CASE UNCHANGED vars
  BY <1>1, FedFrame DEF vars
<1>2. ASSUME NEW p \in Peers, BeginJoin(p) \/ JoinStep(p), ~AddDownTrackStep(Join(p))
      PROVE  FedInv'
  <2>1. /\ UNCHANGED <<transceivers, tracks, down_tracks>>
        /\ peers \subseteq peers'
        /\ \A k \in Tasks : k # Join(p) => at'[k] = at[k] /\ job'[k] = job[k]
    BY <1>2 DEF ShapeInv, JoinStep, BeginJoin, GetSession, NewSession, AddPeer, Subscribe,
                CopyReceivers, SubscribeTo, SubscribedToPeer, EndJoin, Negotiates
  <2>2. {at[Join(p)], at'[Join(p)]} \cap {"register", "subscribed", "store"} = {}
    BY <1>2 DEF ShapeInv, JoinStep, BeginJoin, GetSession, SessionStep, NewSession, AddPeer,
                Subscribe, CopyReceivers, SubscribeTo, SubscribedToPeer, EndJoin, Negotiates
  <2> QED
    BY <2>1, <2>2, FedFrame
<1>3. ASSUME NEW p \in Peers, PublishStep(p), ~AddDownTrackStep(Publish(p))
      PROVE  FedInv'
  <2>1. /\ UNCHANGED <<transceivers, tracks, down_tracks>>
        /\ peers \subseteq peers'
        /\ \A k \in Tasks : k # Publish(p) => at'[k] = at[k] /\ job'[k] = job[k]
    BY <1>3 DEF ShapeInv, PublishStep, AddReceiver, AddUpTrack, AddSimulcastUpTrack,
                CopyPeers, PublishTo, PublishedTo, EndPublish, Negotiates
  <2>2. {at[Publish(p)], at'[Publish(p)]} \cap {"register", "subscribed", "store"} = {}
    BY <1>3 DEF ShapeInv, PublishStep, AddReceiver, AddUpTrack, AddSimulcastUpTrack,
                CopyPeers, PublishTo, PublishedTo, EndPublish, Negotiates
  <2> QED
    BY <2>1, <2>2, FedFrame
<1>4. ASSUME NEW t \in Tracks, OnTrack(t) PROVE FedInv'
  <2>1. Publish(Owner[t]) \in Tasks
    OBVIOUS
  <2> QED
    BY <1>4, <2>1, FedFrame DEF ShapeInv, OnTrack
<1> QED
  BY <1>1, <1>2, <1>3, <1>4, FedStep DEF Next, JoinStep, PublishStep

-----------------------------------------------------------------------------
(* Nobody is let go of.                                                    *)

\* What the tasks that do not move have in hand stays there.
LEMMA JoinFrame ==
    ASSUME NEW s \in Peers, NEW t \in Tracks,
           at'[Join(s)] = at[Join(s)], todo'[Join(s)] = todo[Join(s)],
           recs'[Join(s)] = recs[Join(s)], job'[Join(s)] = job[Join(s)]
    PROVE  JoinHas(s, t)' <=> JoinHas(s, t)
BY DEF JoinHas, Open

LEMMA PublicationFrame ==
    ASSUME NEW s \in Peers, NEW t \in Tracks,
           at'[Publish(Owner[t])] = at[Publish(Owner[t])],
           todo'[Publish(Owner[t])] = todo[Publish(Owner[t])],
           job'[Publish(Owner[t])] = job[Publish(Owner[t])],
           receivers'[Owner[t]] = receivers[Owner[t]]
    PROVE  PublicationHas(s, t)' <=> PublicationHas(s, t)
BY DEF PublicationHas, Open, Rec

\* CoverInv when one join moves, which may let go only of what is fed or in the hands of
\* the publication.
LEMMA JoinCovers ==
    ASSUME CoverInv, NEW p \in Peers,
           \A k \in Tasks : k # Join(p) =>
               /\ at'[k] = at[k] /\ todo'[k] = todo[k]
               /\ recs'[k] = recs[k] /\ job'[k] = job[k],
           receivers' = receivers,
           \A s \in Peers, t \in Tracks : down_tracks[t][s] > 0 => down_tracks'[t][s] > 0,
           \A t \in Tracks : p # Owner[t] /\ JoinHas(p, t) =>
               down_tracks'[t][p] > 0 \/ JoinHas(p, t)' \/ PublicationHas(p, t)
    PROVE  CoverInv'
<1> SUFFICES ASSUME NEW s \in Peers, NEW t \in Tracks, s # Owner[t]
             PROVE  down_tracks'[t][s] > 0 \/ JoinHas(s, t)' \/ PublicationHas(s, t)'
  BY DEF CoverInv
<1>1. Owner[t] \in Peers
  BY RoomAssumption
<1>2. PublicationHas(s, t)' <=> PublicationHas(s, t)
  BY <1>1, TaskFacts, PublicationFrame
<1>3. s # p => (JoinHas(s, t)' <=> JoinHas(s, t))
  BY TaskFacts, JoinFrame
<1> QED
  BY <1>2, <1>3 DEF CoverInv

\* The same when one publication moves.
LEMMA PublicationCovers ==
    ASSUME CoverInv, NEW p \in Peers,
           \A k \in Tasks : k # Publish(p) =>
               /\ at'[k] = at[k] /\ todo'[k] = todo[k]
               /\ recs'[k] = recs[k] /\ job'[k] = job[k],
           \A q \in Peers : q # p => receivers'[q] = receivers[q],
           \A s \in Peers, t \in Tracks : down_tracks[t][s] > 0 => down_tracks'[t][s] > 0,
           \A s \in Peers, t \in Tracks : s # p /\ p = Owner[t] /\ PublicationHas(s, t) =>
               down_tracks'[t][s] > 0 \/ JoinHas(s, t) \/ PublicationHas(s, t)'
    PROVE  CoverInv'
<1> SUFFICES ASSUME NEW s \in Peers, NEW t \in Tracks, s # Owner[t]
             PROVE  down_tracks'[t][s] > 0 \/ JoinHas(s, t)' \/ PublicationHas(s, t)'
  BY DEF CoverInv
<1>1. Owner[t] \in Peers
  BY RoomAssumption
<1>2. JoinHas(s, t)' <=> JoinHas(s, t)
  BY TaskFacts, JoinFrame
<1>3. p # Owner[t] => (PublicationHas(s, t)' <=> PublicationHas(s, t))
  BY <1>1, TaskFacts, PublicationFrame
<1> QED
  BY <1>2, <1>3 DEF CoverInv

LEMMA JoinStepCovers ==
    ASSUME ShapeInv, JobInv, CoverInv, NEW p \in Peers, BeginJoin(p) \/ JoinStep(p),
           ~AddDownTrackStep(Join(p))
    PROVE  CoverInv'
<1> USE TaskFacts DEF Goes, loops, locks, room, media
<1>1. /\ \A k \in Tasks : k # Join(p) =>
             /\ at'[k] = at[k] /\ todo'[k] = todo[k]
             /\ recs'[k] = recs[k] /\ job'[k] = job[k]
      /\ UNCHANGED <<receivers, down_tracks>>
  BY DEF ShapeInv, JoinStep, BeginJoin, GetSession, NewSession, AddPeer, Subscribe,
         CopyReceivers, SubscribeTo, SubscribedToPeer, EndJoin, Negotiates
<1>2. ASSUME NEW t \in Tracks, p # Owner[t], JoinHas(p, t)
      PROVE  JoinHas(p, t)' \/ PublicationHas(p, t)
  <2> USE <1>2 DEF ShapeInv, JoinHas, Open, BeforeLoop, BeforePeer, BeforeSession,
                   WithReceivers, AddSteps
  <2>1. CASE BeginJoin(p)
    BY <2>1 DEF BeginJoin
  <2>2. CASE GetSession(p)
    BY <2>2 DEF GetSession, SessionStep
  <2>3. CASE NewSession(p)
    BY <2>3 DEF NewSession
  <2>4. CASE AddPeer(p)
    BY <2>4 DEF AddPeer
  <2>5. CASE Subscribe(p)
    <3>1. Owner[t] \notin peers => PublicationHas(p, t)
      BY RoomAssumption DEF PublicationHas, JobInv, MemberInv
    <3> QED
      BY <2>5, <3>1 DEF Subscribe, Others
  <2>6. CASE CopyReceivers(p)
    <3>1. t \notin receivers[Owner[t]] => PublicationHas(p, t)
      BY DEF PublicationHas
    <3>2. PICK q \in todo[Join(p)] :
              /\ at[Join(p)] = "peers"
              /\ at'[Join(p)] = IF receivers[q] = {} THEN "peers" ELSE "receivers"
              /\ todo'[Join(p)] = todo[Join(p)] \ {q}
              /\ recs'[Join(p)] = receivers[q]
      BY <2>6 DEF CopyReceivers
    <3>3. recs[Join(p)] = {}
      BY <3>2 DEF JobInv, JoinJobs
    <3>4. Owner[t] \in todo[Join(p)]
      BY <3>2, <3>3
    <3> QED
      BY <3>1, <3>2, <3>4
  <2>7. CASE SubscribeTo(p)
    BY <2>7 DEF SubscribeTo
  <2>8. CASE SubscribedToPeer(p)
    BY <2>8 DEF SubscribedToPeer, Negotiates
  <2>9. CASE EndJoin(p)
    BY <2>9 DEF EndJoin, Negotiates, JobInv, JoinJobs
  <2> QED
    BY <2>1, <2>2, <2>3, <2>4, <2>5, <2>6, <2>7, <2>8, <2>9 DEF JoinStep
<1> QED
  BY <1>1, <1>2, JoinCovers

LEMMA PublishStepCovers ==
    ASSUME ShapeInv, SessionInv, JobInv, CoverInv, NEW p \in Peers, PublishStep(p),
           ~AddDownTrackStep(Publish(p))
    PROVE  CoverInv'
<1> USE TaskFacts DEF Goes, loops, locks, room, media
<1>1. /\ \A k \in Tasks : k # Publish(p) =>
             /\ at'[k] = at[k] /\ todo'[k] = todo[k]
             /\ recs'[k] = recs[k] /\ job'[k] = job[k]
      /\ \A q \in Peers : q # p => receivers'[q] = receivers[q]
      /\ UNCHANGED down_tracks
  BY DEF ShapeInv, PublishStep, AddReceiver, EnterReceiver, AddUpTrack,
         AddSimulcastUpTrack, CopyPeers, PublishTo, PublishedTo, EndPublish, Negotiates
<1>2. ASSUME NEW s \in Peers, NEW t \in Tracks, s # p, p = Owner[t], PublicationHas(s, t)
      PROVE  JoinHas(s, t) \/ PublicationHas(s, t)'
  <2> USE <1>2 DEF ShapeInv, PublicationHas, Open, Rec, UpSteps, PublishLoop, AddSteps
  <2>1. CASE AddReceiver(p)
    BY <2>1 DEF AddReceiver, EnterReceiver
  <2>2. CASE AddUpTrack(p)
    BY <2>2 DEF AddUpTrack
  <2>3. CASE AddSimulcastUpTrack(p)
    BY <2>3 DEF AddSimulcastUpTrack
  <2>4. CASE CopyPeers(p)
    <3>1. s \notin peers => JoinHas(s, t)
      BY DEF JoinHas, BeforeLoop, SessionInv
    <3> QED
      BY <2>4, <3>1 DEF CopyPeers, Others
  <2>5. CASE PublishTo(p)
    BY <2>5 DEF PublishTo
  <2>6. CASE PublishedTo(p)
    BY <2>6 DEF PublishedTo, Negotiates
  <2>7. CASE EndPublish(p)
    BY <2>7 DEF EndPublish
  <2> QED
    BY <2>1, <2>2, <2>3, <2>4, <2>5, <2>6, <2>7 DEF PublishStep
<1> QED
  BY <1>1, <1>2, PublicationCovers

\* Within add_down_track a task lets go of a pair that it finds fed, or registered by the
\* other, which then has it in hand (FedInv).
LEMMA AddDownTrackCovers ==
    ASSUME ShapeInv, JobInv, FedInv, CoverInv, NEW k \in Tasks, AddDownTrackStep(k)
    PROVE  CoverInv'
<1> USE RoomAssumption, TaskFacts, ReturnFacts DEF Goes, loops, room, media
<1>1. at[k] \in AddSteps
  BY DEF AddDownTrackStep, CheckRegistered, AddTransceiver, Register, CheckSubscribed,
         Store, AddSteps
<1>2. PICK s \in Peers, t \in Tracks :
          /\ s = Sub(k) /\ t = Rec(k) /\ Owner[t] \in Peers
          /\ job[k] = <<s, t>>
          /\ k = Join(s) \/ k = Publish(Owner[t])
  <2>1. PICK p \in Peers : k = Join(p) \/ k = Publish(p)
    OBVIOUS
  <2>2. at[k] # "idle"
    BY <1>1 DEF AddSteps
  <2> QED
    BY <1>1, <2>1, <2>2, InHand DEF JobInv, JoinJobs, PublishJobs
<1>3. /\ UNCHANGED <<todo, recs, job, receivers>>
      /\ \A l \in Tasks : l # k => at'[l] = at[l]
  BY DEF AddDownTrackStep, CheckRegistered, AddTransceiver, Register, CheckSubscribed,
         Store, ShapeInv
<1>4. \A u \in Peers, r \in Tracks : down_tracks[r][u] > 0 => down_tracks'[r][u] > 0
  <2>1. CASE Store(k)
    <3>1. down_tracks' = [down_tracks EXCEPT ![t][s] = @ + 1]
      BY <1>2, <2>1 DEF Store
    <3> QED
      BY <1>2, <3>1, CountDownTrack
  <2>2. CASE ~Store(k)
    BY <2>2 DEF AddDownTrackStep, CheckRegistered, AddTransceiver, Register, CheckSubscribed
  <2> QED
    BY <2>1, <2>2
\* Where the task stands afterwards, and why it may leave the pair.
<1>5. \/ at'[k] \in AddSteps
      \/ /\ at'[k] = Return(k)
         /\ \/ down_tracks'[t][s] > 0
            \/ Feeds(Join(s), s, t) /\ k # Join(s)
            \/ Feeds(Publish(Owner[t]), s, t) /\ k # Publish(Owner[t])
  <2>1. CASE CheckRegistered(k)
    <3>1. ~Feeds(k, s, t)
      BY <2>1 DEF CheckRegistered, Feeds
    <3>2. Registered(s, t) => \/ down_tracks[t][s] > 0
                              \/ Feeds(Join(s), s, t)
                              \/ Feeds(Publish(Owner[t]), s, t)
      BY <1>2 DEF FedInv
    <3>3. at'[k] = IF Registered(s, t) THEN Return(k) ELSE "connect"
      BY <1>2, <2>1 DEF CheckRegistered, ShapeInv
    <3> QED
      BY <1>4, <3>1, <3>2, <3>3 DEF AddSteps
  <2>2. CASE AddTransceiver(k)
    BY <2>2 DEF AddTransceiver, ShapeInv, AddSteps
  <2>3. CASE Register(k)
    BY <2>3 DEF Register, ShapeInv, AddSteps
  <2>4. CASE CheckSubscribed(k)
    BY <1>2, <1>4, <2>4 DEF CheckSubscribed, ShapeInv, AddSteps
  <2>5. CASE Store(k)
    <3>1. down_tracks' = [down_tracks EXCEPT ![t][s] = @ + 1]
      BY <1>2, <2>5 DEF Store
    <3>2. down_tracks'[t][s] > 0
      BY <1>2, <3>1, CountDownTrack
    <3> QED
      BY <2>5, <3>2 DEF Store, ShapeInv
  <2> QED
    BY <2>1, <2>2, <2>3, <2>4, <2>5 DEF AddDownTrackStep
<1>6. CASE k = Join(s)
  <2>1. ASSUME NEW r \in Tracks, s # Owner[r], JoinHas(s, r)
        PROVE  down_tracks'[r][s] > 0 \/ JoinHas(s, r)' \/ PublicationHas(s, r)
    <3>1. CASE at'[k] \in AddSteps
      BY <1>1, <1>3, <1>6, <2>1, <3>1
         DEF JoinHas, Open, WithReceivers, BeforeLoop, BeforePeer, BeforeSession, AddSteps
    <3>2. CASE at'[k] = "receivers" /\ r # t
      BY <1>1, <1>2, <1>3, <1>6, <2>1, <3>2
         DEF JoinHas, Open, WithReceivers, BeforeLoop, BeforePeer, BeforeSession, AddSteps
    <3>3. CASE at'[k] = "receivers" /\ r = t
      BY <1>5, <1>6, <3>3 DEF PublicationHas, Open, Feeds, AddSteps
    <3> QED
      BY <1>2, <1>5, <1>6, <3>1, <3>2, <3>3
  <2> QED
    BY <1>2, <1>3, <1>4, <1>6, <2>1, JoinCovers
<1>7. CASE k = Publish(Owner[t])
  <2> DEFINE p == Owner[t]
  <2>1. ASSUME NEW u \in Peers, NEW r \in Tracks, u # p, p = Owner[r], PublicationHas(u, r)
        PROVE  down_tracks'[r][u] > 0 \/ JoinHas(u, r) \/ PublicationHas(u, r)'
    <3>1. CASE at'[k] \in AddSteps
      BY <1>1, <1>3, <1>7, <2>1, <3>1
         DEF PublicationHas, Open, Rec, PublishLoop, UpSteps, AddSteps
    <3>2. CASE at'[k] = "negotiate" /\ <<u, r>> # <<s, t>>
      BY <1>1, <1>2, <1>3, <1>7, <2>1, <3>2
         DEF PublicationHas, Open, Rec, PublishLoop, UpSteps, AddSteps
    <3>3. CASE at'[k] = "negotiate" /\ u = s /\ r = t
      BY <1>5, <1>7, <3>3 DEF JoinHas, Open, Feeds, AddSteps
    <3> QED
      BY <1>2, <1>5, <1>7, <3>1, <3>2, <3>3
  <2> QED
    BY <1>2, <1>3, <1>4, <1>7, <2>1, PublicationCovers
<1> QED
  BY <1>2, <1>6, <1>7

\* Every step.
LEMMA CoverKept ==
    ASSUME ShapeInv, SessionInv, JobInv, FedInv, CoverInv, [Next]_vars
    PROVE  CoverInv'
<1>1. CASE UNCHANGED vars
  BY <1>1 DEF vars, CoverInv, JoinHas, PublicationHas, Open, Rec
<1>2. ASSUME NEW t \in Tracks, OnTrack(t) PROVE CoverInv'
  <2> DEFINE p == Owner[t]
  <2>1. p \in Peers /\ Publish(p) \in Tasks
    BY RoomAssumption, TaskFacts
  <2>2. /\ at[Publish(p)] = "idle"
        /\ \A k \in Tasks : k # Publish(p) => at'[k] = at[k] /\ job'[k] = job[k]
        /\ UNCHANGED <<todo, recs, receivers, down_tracks>>
    BY <1>2, <2>1 DEF OnTrack, Goes, ShapeInv, locks, room, media
  <2>3. ASSUME NEW s \in Peers, NEW r \in Tracks, p = Owner[r], PublicationHas(s, r)
        PROVE  PublicationHas(s, r)'
    BY <2>2, <2>3 DEF PublicationHas, Open, UpSteps, PublishLoop, AddSteps
  <2> QED
    BY <2>1, <2>2, <2>3, PublicationCovers
<1> QED
  BY <1>1, <1>2, TaskFacts, JoinStepCovers, PublishStepCovers, AddDownTrackCovers DEF Next

\* A join negotiates at its end, a publication after each subscriber.
LEMMA NegotiatedKept ==
    ASSUME ShapeInv, JobInv, NegotiatedInv, [Next]_vars
    PROVE  NegotiatedInv'
<1> USE TaskFacts, ReturnFacts, RoomAssumption
        DEF Goes, locks, room, media, loops, ShapeInv, JobInv, JoinJobs, PublishJobs,
            MemberInv, NegotiatedInv, WithReceivers, Sub, Rec, Steps, JoinSteps,
            PublishSteps, AddSteps
<1>0. CASE UNCHANGED vars
  BY <1>0 DEF vars
<1>1. ASSUME NEW p \in Peers, BeginJoin(p) PROVE NegotiatedInv'
  BY <1>1 DEF BeginJoin
<1>2. ASSUME NEW p \in Peers, GetSession(p) PROVE NegotiatedInv'
  BY <1>2 DEF GetSession, SessionStep
<1>3. ASSUME NEW p \in Peers, NewSession(p) PROVE NegotiatedInv'
  BY <1>3 DEF NewSession
<1>4. ASSUME NEW p \in Peers, AddPeer(p) PROVE NegotiatedInv'
  BY <1>4 DEF AddPeer
<1>5. ASSUME NEW p \in Peers, Subscribe(p) PROVE NegotiatedInv'
  BY <1>5 DEF Subscribe, Others
<1>6. ASSUME NEW p \in Peers, CopyReceivers(p) PROVE NegotiatedInv'
  BY <1>6 DEF CopyReceivers
<1>7. ASSUME NEW p \in Peers, SubscribeTo(p) PROVE NegotiatedInv'
  BY <1>7 DEF SubscribeTo
<1>8. ASSUME NEW p \in Peers, SubscribedToPeer(p) PROVE NegotiatedInv'
  BY <1>8 DEF SubscribedToPeer, Negotiates
<1>9. ASSUME NEW p \in Peers, EndJoin(p) PROVE NegotiatedInv'
  BY <1>9 DEF EndJoin, Negotiates
<1>10. ASSUME NEW p \in Peers, AddReceiver(p) PROVE NegotiatedInv'
  BY <1>10 DEF AddReceiver, EnterReceiver
<1>11. ASSUME NEW p \in Peers, AddUpTrack(p) PROVE NegotiatedInv'
  BY <1>11 DEF AddUpTrack
<1>12. ASSUME NEW p \in Peers, AddSimulcastUpTrack(p) PROVE NegotiatedInv'
  BY <1>12 DEF AddSimulcastUpTrack
<1>13. ASSUME NEW p \in Peers, CopyPeers(p) PROVE NegotiatedInv'
  BY <1>13 DEF CopyPeers, Others
<1>14. ASSUME NEW p \in Peers, PublishTo(p) PROVE NegotiatedInv'
  BY <1>14 DEF PublishTo
<1>15. ASSUME NEW p \in Peers, PublishedTo(p) PROVE NegotiatedInv'
  <2> DEFINE k == Publish(p)
  <2>1. at[k] = "negotiate" /\ at'[k] = "peers" /\ UNCHANGED <<job, transceivers>>
    BY <1>15 DEF PublishedTo, Negotiates
  <2>2. Sub(k) \in Peers /\ job[k] = <<Sub(k), Rec(k)>>
    BY <2>1, Publishing
  <2>3. \A s \in Peers : negotiated'[s] = IF s = Sub(k) THEN transceivers[s] ELSE negotiated[s]
    BY <1>15 DEF PublishedTo, Negotiates
  <2>4. \A l \in Tasks : l # k => at'[l] = at[l]
    BY <1>15 DEF PublishedTo, Negotiates
  <2>5. \A q \in Peers : Join(q) # k /\ (q # p => Publish(q) # k)
    OBVIOUS
  <2>6. \A q \in Peers : /\ at'[Join(q)] = at[Join(q)]
                         /\ q # p => at'[Publish(q)] = at[Publish(q)]
    BY <2>4, <2>5
  <2>7. ASSUME NEW s \in Peers, NEW t \in Tracks,
               transceivers'[s][t] > 0, ~(negotiated'[s][t] > 0)
        PROVE  \/ at[Join(s)] \in WithReceivers \cup {"peers"}
               \/ /\ Owner[t] # p
                  /\ at[Publish(Owner[t])] \in AddSteps \cup {"negotiate"}
                  /\ job[Publish(Owner[t])] = <<s, t>>
    <3>1. transceivers[s][t] > 0 /\ ~(negotiated[s][t] > 0) /\ s # Sub(k)
      BY <2>1, <2>3, <2>7
    <3>2. job[k] # <<s, t>>
      BY <3>1 DEF Sub
    <3> HIDE DEF k, Sub, Rec, JobInv
    <3> QED
      BY <3>1, <3>2 DEF k
  <2> HIDE DEF k, Sub, Rec, JobInv
  <2> QED
    BY <2>1, <2>6, <2>7
<1>16. ASSUME NEW p \in Peers, EndPublish(p) PROVE NegotiatedInv'
  BY <1>16 DEF EndPublish
<1>17. ASSUME NEW k \in Tasks, CheckRegistered(k) PROVE NegotiatedInv'
  BY <1>17 DEF CheckRegistered
<1>18. ASSUME NEW k \in Tasks, AddTransceiver(k) PROVE NegotiatedInv'
  <2>1. PICK p \in Peers : k = Join(p) \/ k = Publish(p)
    OBVIOUS
  <2>2. at[k] \in AddSteps /\ at'[k] = "register" /\ UNCHANGED <<job, negotiated>>
    BY <1>18 DEF AddTransceiver
  <2>3. Sub(k) \in Peers /\ Rec(k) \in Tracks /\ job[k] = <<Sub(k), Rec(k)>>
    BY <2>2, InHand
  <2>4. \A s \in Peers, t \in Tracks :
            transceivers'[s][t] > 0 <=> transceivers[s][t] > 0 \/ (s = Sub(k) /\ t = Rec(k))
    BY <1>18, <2>3, CountTransceiver DEF AddTransceiver
  <2>5. \A l \in Tasks : l # k => at'[l] = at[l]
    BY <1>18 DEF AddTransceiver
  <2>6. k = Join(Sub(k)) \/ k = Publish(Owner[Rec(k)])
    BY <2>1, <2>2
  <2> HIDE DEF Sub, Rec, JobInv
  <2> QED
    BY <2>2, <2>3, <2>4, <2>5, <2>6
<1>19. ASSUME NEW k \in Tasks, Register(k) PROVE NegotiatedInv'
  <2>1. /\ Goes(k, "register", "subscribed")
        /\ UNCHANGED <<loops, locks, room, transceivers, negotiated, down_tracks>>
    BY <1>19 DEF Register
  <2> QED
    BY <2>1
<1>20. ASSUME NEW k \in Tasks, CheckSubscribed(k) PROVE NegotiatedInv'
  BY <1>20 DEF CheckSubscribed
<1>21. ASSUME NEW k \in Tasks, Store(k) PROVE NegotiatedInv'
  BY <1>21 DEF Store
<1>22. ASSUME NEW t \in Tracks, OnTrack(t) PROVE NegotiatedInv'
  BY <1>22 DEF OnTrack
<1> QED
  BY <1>0, <1>1, <1>2, <1>3, <1>4, <1>5, <1>6, <1>7, <1>8, <1>9, <1>10, <1>11, <1>12,
     <1>13, <1>14, <1>15, <1>16, <1>17, <1>18, <1>19, <1>20, <1>21, <1>22
     DEF Next, JoinStep, PublishStep, AddDownTrackStep

-----------------------------------------------------------------------------
(* The invariant and what follows from it.                                 *)

RoomInv ==
    /\ ShapeInv
    /\ SessionInv
    /\ JobInv
    /\ UpInv
    /\ FedInv
    /\ CoverInv
    /\ NegotiatedInv

LEMMA InitRoom == Init => RoomInv
<1> SUFFICES ASSUME Init PROVE RoomInv
  OBVIOUS
<1> USE TaskFacts, RoomAssumption DEF Init
<1>1. ShapeInv
  BY DEF ShapeInv, Steps, JoinSteps
<1>2. SessionInv
  BY DEF SessionInv, InJoin, BeforePeer, BeforeSession
<1>3. JobInv
  BY DEF JobInv, JoinJobs, PublishJobs, MemberInv, AddSteps
<1>4. UpInv
  BY DEF UpInv, UpSteps
<1>5. FedInv
  BY DEF FedInv, Registered
<1>6. CoverInv
  BY DEF CoverInv, JoinHas, BeforeLoop, BeforePeer, BeforeSession
<1>7. NegotiatedInv
  BY DEF NegotiatedInv
<1> QED
  BY <1>1, <1>2, <1>3, <1>4, <1>5, <1>6, <1>7 DEF RoomInv

LEMMA RoomKept == RoomInv /\ [Next]_vars => RoomInv'
BY ShapeKept, SessionKept, JobKept, UpKept, FedKept, CoverKept, NegotiatedKept DEF RoomInv

\* The inductive invariant: what each task has in hand, and that what one lets go of
\* is done or with the other.
THEOREM RoomIsKept == Spec => []RoomInv
BY InitRoom, RoomKept, PTL DEF Spec

\* All peers are in one session, and only its peers are sent tracks: join searches and
\* enters under the lock of the provider (get_session, new_session).
THEOREM InOneSession == Spec => []OneSession
<1>1. RoomInv => OneSession
  BY DEF RoomInv, SessionInv, FedInv, OneSession
<1> QED
  BY <1>1, RoomIsKept, PTL

\* Nobody is subscribed to a receiver before its up track is set: add_receiver keeps the
\* receivers locked, so that no join copies it and no publication but its own has it.
THEOREM UpTrackFirst == Spec => []UpBeforeDown
<1>1. RoomInv => UpBeforeDown
  <2> SUFFICES ASSUME RoomInv, NEW k \in Tasks, NEW p \in Peers, at[k] \in AddSteps,
                      at[Publish(p)] \in {"add_up_track", "stuck"}
               PROVE  Rec(k) # Rec(Publish(p))
    BY DEF UpBeforeDown
  <2>1. PICK q \in Peers : k = Join(q) \/ k = Publish(q)
    BY TaskFacts
  <2>2. CASE k = Join(q)
    BY <2>2 DEF RoomInv, UpInv, UpSteps
  <2>3. CASE k = Publish(q)
    <3>1. p # q
      BY <2>3 DEF AddSteps
    <3>2. Owner[Rec(k)] = q /\ Owner[Rec(Publish(p))] = p
      BY <2>3 DEF RoomInv, JobInv, PublishJobs, AddSteps
    <3> QED
      BY <3>1, <3>2
  <2> QED
    BY <2>1, <2>2, <2>3
<1> QED
  BY <1>1, RoomIsKept, PTL

\* Whoever has joined is fed every track that has been published, and was negotiated with
\* since it was added, however joins and publications overlap.
THEOREM NobodyMisses == Spec => []NobodyIsMissed
<1>1. RoomInv => NobodyIsMissed
  <2> SUFFICES ASSUME RoomInv, NEW s \in Peers, NEW t \in published,
                      at[Join(s)] = "joined", s # Owner[t]
               PROVE  down_tracks[t][s] > 0 /\ negotiated[s][t] > 0
    BY DEF NobodyIsMissed
  <2>1. /\ t \in Tracks /\ Owner[t] \in Peers
        /\ t \in receivers[Owner[t]]
    BY RoomAssumption DEF RoomInv, ShapeInv, JobInv, MemberInv
  <2>2. at[Publish(Owner[t])] # "idle" => Rec(Publish(Owner[t])) # t
    BY <2>1 DEF RoomInv, JobInv, PublishJobs
  <2>3. ~JoinHas(s, t)
    BY DEF RoomInv, JobInv, JoinJobs, JoinHas, Open, WithReceivers, AddSteps, BeforeLoop,
           BeforePeer, BeforeSession
  <2>4. ~PublicationHas(s, t)
    BY <2>1, <2>2 DEF PublicationHas, Open, Rec, UpSteps, PublishLoop, AddSteps
  <2>5. down_tracks[t][s] > 0
    BY <2>1, <2>3, <2>4 DEF RoomInv, CoverInv
  <2>6. transceivers[s][t] > 0
    BY <2>1, <2>5 DEF RoomInv, FedInv
  <2>7. negotiated[s][t] > 0
    BY <2>1, <2>2, <2>6 DEF RoomInv, NegotiatedInv, Rec, WithReceivers, AddSteps
  <2> QED
    BY <2>5, <2>7
<1> QED
  BY <1>1, RoomIsKept, PTL

-----------------------------------------------------------------------------
(* How often a pair is counted.                                            *)

\* Where a task can be that runs for a join, and for a publication; who holds a lock; and
\* that a list of down tracks is one of tracks.
PlaceInv ==
    /\ \A p \in Peers : /\ at[Join(p)] \in JoinSteps \cup AddSteps
                        /\ at[Publish(p)] \in PublishSteps \cup AddSteps
    /\ provider_lock \in {Join(p) : p \in Peers} \cup {None}
    /\ peers_lock \in {Join(p) : p \in Peers} \cup {None}
    /\ \A p \in Peers : receivers_lock[p] \in {Publish(p), None}
    /\ \A p \in Peers : tracks[p] \in [DOMAIN tracks[p] -> SUBSET Tracks]

\* A task does not go back to what it has taken up.
OnceInv ==
    \A p \in Peers :
        /\ \A t \in recs[Join(p)] : Owner[t] \notin todo[Join(p)]
        /\ at[Join(p)] \in AddSteps => /\ Owner[Rec(Join(p))] \notin todo[Join(p)]
                                      /\ Rec(Join(p)) \notin recs[Join(p)]
        /\ at[Publish(p)] \in AddSteps => Sub(Publish(p)) \notin todo[Publish(p)]

\* The steps before a transceiver is added; a down track is stored by the last of AddSteps.
ToConnect == {"check", "connect"}

\* The join of s has t still before it, or in hand and not past the given steps.
JoinMay(steps, s, t) ==
    \/ at[Join(s)] \in BeforeLoop
    \/ Owner[t] \in todo[Join(s)]
    \/ t \in recs[Join(s)]
    \/ at[Join(s)] \in steps /\ job[Join(s)] = <<s, t>>

\* The same of the publication of t and s.
PublicationMay(steps, s, t) ==
    LET k == Publish(Owner[t])
    IN  \/ t \notin receivers[Owner[t]]
        \/ Rec(k) = t /\ at[k] \in UpSteps \cup {"peers_of_session"}
        \/ Rec(k) = t /\ at[k] \in PublishLoop /\ s \in todo[k]
        \/ at[k] \in steps /\ job[k] = <<s, t>>

\* A count of at most two, where a and b say that one more may come.
Within(n, a, b) ==
    /\ n \in 0 .. 2
    /\ a \/ b => n <= 1
    /\ a /\ b => n = 0

\* A pair is counted at most once by the join of the one and once by the publication of
\* the other.
CountInv ==
    \A s \in Peers, t \in Tracks :
        /\ Within(transceivers[s][t], JoinMay(ToConnect, s, t), PublicationMay(ToConnect, s, t))
        /\ Within(down_tracks[t][s], JoinMay(AddSteps, s, t), PublicationMay(AddSteps, s, t))
        /\ negotiated[s][t] \in 0 .. 2

\* A task stays in its own part of the code, and takes and gives back its own locks.
LEMMA PlaceKept ==
    ASSUME ShapeInv, JobInv, PlaceInv, [Next]_vars
    PROVE  PlaceInv'
<1> USE TaskFacts, ReturnFacts
        DEF Goes, locks, room, media, loops, ShapeInv, PlaceInv, Steps, JoinSteps,
            PublishSteps, AddSteps
<1>0. CASE UNCHANGED vars
  BY <1>0 DEF vars
<1>1. ASSUME NEW p \in Peers, BeginJoin(p) PROVE PlaceInv'
  BY <1>1 DEF BeginJoin
<1>2. ASSUME NEW p \in Peers, GetSession(p) PROVE PlaceInv'
  BY <1>2 DEF GetSession, SessionStep
<1>3. ASSUME NEW p \in Peers, NewSession(p) PROVE PlaceInv'
  BY <1>3 DEF NewSession
<1>4. ASSUME NEW p \in Peers, AddPeer(p) PROVE PlaceInv'
  BY <1>4 DEF AddPeer
<1>5. ASSUME NEW p \in Peers, Subscribe(p) PROVE PlaceInv'
  BY <1>5 DEF Subscribe, Others
<1>6. ASSUME NEW p \in Peers, CopyReceivers(p) PROVE PlaceInv'
  BY <1>6 DEF CopyReceivers
<1>7. ASSUME NEW p \in Peers, SubscribeTo(p) PROVE PlaceInv'
  BY <1>7 DEF SubscribeTo
<1>8. ASSUME NEW p \in Peers, SubscribedToPeer(p) PROVE PlaceInv'
  BY <1>8 DEF SubscribedToPeer, Negotiates
<1>9. ASSUME NEW p \in Peers, EndJoin(p) PROVE PlaceInv'
  BY <1>9 DEF EndJoin, Negotiates
<1>10. ASSUME NEW p \in Peers, AddReceiver(p) PROVE PlaceInv'
  BY <1>10 DEF AddReceiver, EnterReceiver
<1>11. ASSUME NEW p \in Peers, AddUpTrack(p) PROVE PlaceInv'
  BY <1>11 DEF AddUpTrack
<1>12. ASSUME NEW p \in Peers, AddSimulcastUpTrack(p) PROVE PlaceInv'
  BY <1>12 DEF AddSimulcastUpTrack
<1>13. ASSUME NEW p \in Peers, CopyPeers(p) PROVE PlaceInv'
  BY <1>13 DEF CopyPeers, Others
<1>14. ASSUME NEW p \in Peers, PublishTo(p) PROVE PlaceInv'
  BY <1>14 DEF PublishTo
<1>15. ASSUME NEW p \in Peers, PublishedTo(p) PROVE PlaceInv'
  BY <1>15 DEF PublishedTo, Negotiates
<1>16. ASSUME NEW p \in Peers, EndPublish(p) PROVE PlaceInv'
  BY <1>16 DEF EndPublish
<1>17. ASSUME NEW k \in Tasks, CheckRegistered(k) PROVE PlaceInv'
  BY <1>17 DEF CheckRegistered
<1>18. ASSUME NEW k \in Tasks, AddTransceiver(k) PROVE PlaceInv'
  BY <1>18 DEF AddTransceiver
<1>19. ASSUME NEW k \in Tasks, Register(k) PROVE PlaceInv'
  <2>1. Sub(k) \in Peers /\ Rec(k) \in Tracks
    BY <1>19, InHand DEF Register
  <2>2. \A p \in Peers : tracks'[p] \in [DOMAIN tracks'[p] -> SUBSET Tracks]
    BY <1>19, <2>1 DEF Register
  <2>3. /\ at' = [at EXCEPT ![k] = "subscribed"]
        /\ at[k] = "register"
        /\ UNCHANGED locks
    BY <1>19 DEF Register
  <2> QED
    BY <2>2, <2>3
<1>20. ASSUME NEW k \in Tasks, CheckSubscribed(k) PROVE PlaceInv'
  BY <1>20 DEF CheckSubscribed
<1>21. ASSUME NEW k \in Tasks, Store(k) PROVE PlaceInv'
  BY <1>21 DEF Store
<1>22. ASSUME NEW t \in Tracks, OnTrack(t) PROVE PlaceInv'
  <2>1. Owner[t] \in Peers
    BY RoomAssumption
  <2> QED
    BY <1>22, <2>1 DEF OnTrack
<1> QED
  BY <1>0, <1>1, <1>2, <1>3, <1>4, <1>5, <1>6, <1>7, <1>8, <1>9, <1>10, <1>11, <1>12,
     <1>13, <1>14, <1>15, <1>16, <1>17, <1>18, <1>19, <1>20, <1>21, <1>22
     DEF Next, JoinStep, PublishStep, AddDownTrackStep

\* What a task takes up it takes away from what it has before it.
LEMMA OnceKept ==
    ASSUME ShapeInv, JobInv, OnceInv, [Next]_vars
    PROVE  OnceInv'
<1> USE TaskFacts, ReturnFacts
        DEF Goes, locks, room, media, loops, ShapeInv, OnceInv, Sub, Rec, Steps,
            JoinSteps, PublishSteps, AddSteps
<1>0. CASE UNCHANGED vars
  BY <1>0 DEF vars
<1>1. ASSUME NEW p \in Peers, BeginJoin(p) PROVE OnceInv'
  BY <1>1 DEF BeginJoin
<1>2. ASSUME NEW p \in Peers, GetSession(p) PROVE OnceInv'
  BY <1>2 DEF GetSession, SessionStep
<1>3. ASSUME NEW p \in Peers, NewSession(p) PROVE OnceInv'
  BY <1>3 DEF NewSession
<1>4. ASSUME NEW p \in Peers, AddPeer(p) PROVE OnceInv'
  BY <1>4 DEF AddPeer
<1>5. ASSUME NEW p \in Peers, Subscribe(p) PROVE OnceInv'
  <2>1. recs[Join(p)] = {}
    BY <1>5 DEF Subscribe, JobInv, JoinJobs, WithReceivers
  <2> QED
    BY <1>5, <2>1 DEF Subscribe, Others
<1>6. ASSUME NEW p \in Peers, CopyReceivers(p) PROVE OnceInv'
  <2>1. PICK q \in todo[Join(p)] :
            /\ at[Join(p)] = "peers"
            /\ at' = [at EXCEPT ![Join(p)] = IF receivers[q] = {} THEN "peers" ELSE "receivers"]
            /\ todo' = [todo EXCEPT ![Join(p)] = @ \ {q}]
            /\ recs' = [recs EXCEPT ![Join(p)] = receivers[q]]
            /\ UNCHANGED job
    BY <1>6 DEF CopyReceivers
  <2>2. \A t \in receivers[q] : Owner[t] = q
    BY <2>1 DEF JobInv, MemberInv
  <2> QED
    BY <2>1, <2>2
<1>7. ASSUME NEW p \in Peers, SubscribeTo(p) PROVE OnceInv'
  BY <1>7 DEF SubscribeTo
<1>8. ASSUME NEW p \in Peers, SubscribedToPeer(p) PROVE OnceInv'
  BY <1>8 DEF SubscribedToPeer, Negotiates
<1>9. ASSUME NEW p \in Peers, EndJoin(p) PROVE OnceInv'
  BY <1>9 DEF EndJoin, Negotiates
<1>10. ASSUME NEW p \in Peers, AddReceiver(p) PROVE OnceInv'
  BY <1>10 DEF AddReceiver, EnterReceiver
<1>11. ASSUME NEW p \in Peers, AddUpTrack(p) PROVE OnceInv'
  BY <1>11 DEF AddUpTrack
<1>12. ASSUME NEW p \in Peers, AddSimulcastUpTrack(p) PROVE OnceInv'
  BY <1>12 DEF AddSimulcastUpTrack
<1>13. ASSUME NEW p \in Peers, CopyPeers(p) PROVE OnceInv'
  BY <1>13 DEF CopyPeers, Others
<1>14. ASSUME NEW p \in Peers, PublishTo(p) PROVE OnceInv'
  BY <1>14 DEF PublishTo
<1>15. ASSUME NEW p \in Peers, PublishedTo(p) PROVE OnceInv'
  BY <1>15 DEF PublishedTo, Negotiates
<1>16. ASSUME NEW p \in Peers, EndPublish(p) PROVE OnceInv'
  BY <1>16 DEF EndPublish
<1>17. ASSUME NEW k \in Tasks, CheckRegistered(k) PROVE OnceInv'
  BY <1>17 DEF CheckRegistered
<1>18. ASSUME NEW k \in Tasks, AddTransceiver(k) PROVE OnceInv'
  BY <1>18 DEF AddTransceiver
<1>19. ASSUME NEW k \in Tasks, Register(k) PROVE OnceInv'
  BY <1>19 DEF Register
<1>20. ASSUME NEW k \in Tasks, CheckSubscribed(k) PROVE OnceInv'
  BY <1>20 DEF CheckSubscribed
<1>21. ASSUME NEW k \in Tasks, Store(k) PROVE OnceInv'
  BY <1>21 DEF Store
<1>22. ASSUME NEW t \in Tracks, OnTrack(t) PROVE OnceInv'
  <2>1. Owner[t] \in Peers
    BY RoomAssumption
  <2> QED
    BY <1>22, <2>1 DEF OnTrack
<1> QED
  BY <1>0, <1>1, <1>2, <1>3, <1>4, <1>5, <1>6, <1>7, <1>8, <1>9, <1>10, <1>11, <1>12,
     <1>13, <1>14, <1>15, <1>16, <1>17, <1>18, <1>19, <1>20, <1>21, <1>22
     DEF Next, JoinStep, PublishStep, AddDownTrackStep

\* A join does not come to what it has not before it.
LEMMA JoinMayShrinks ==
    ASSUME ShapeInv, JobInv, [Next]_vars, NEW steps \in {ToConnect, AddSteps},
           NEW s \in Peers, NEW t \in Tracks, JoinMay(steps, s, t)'
    PROVE  JoinMay(steps, s, t)
<1> USE TaskFacts, ReturnFacts
        DEF Goes, locks, room, media, loops, ShapeInv, JoinMay, ToConnect, BeforeLoop,
            BeforePeer, BeforeSession, Steps, JoinSteps, PublishSteps, AddSteps
<1>0. CASE UNCHANGED vars
  BY <1>0 DEF vars
<1>1. ASSUME NEW p \in Peers, BeginJoin(p) PROVE JoinMay(steps, s, t)
  BY <1>1 DEF BeginJoin
<1>2. ASSUME NEW p \in Peers, GetSession(p) PROVE JoinMay(steps, s, t)
  BY <1>2 DEF GetSession, SessionStep
<1>3. ASSUME NEW p \in Peers, NewSession(p) PROVE JoinMay(steps, s, t)
  BY <1>3 DEF NewSession
<1>4. ASSUME NEW p \in Peers, AddPeer(p) PROVE JoinMay(steps, s, t)
  BY <1>4 DEF AddPeer
<1>5. ASSUME NEW p \in Peers, Subscribe(p) PROVE JoinMay(steps, s, t)
  BY <1>5 DEF Subscribe, Others
<1>6. ASSUME NEW p \in Peers, CopyReceivers(p) PROVE JoinMay(steps, s, t)
  <2>1. PICK q \in todo[Join(p)] :
            /\ at[Join(p)] = "peers"
            /\ at' = [at EXCEPT ![Join(p)] = IF receivers[q] = {} THEN "peers" ELSE "receivers"]
            /\ todo' = [todo EXCEPT ![Join(p)] = @ \ {q}]
            /\ recs' = [recs EXCEPT ![Join(p)] = receivers[q]]
            /\ UNCHANGED job
    BY <1>6 DEF CopyReceivers
  <2>2. \A r \in receivers[q] : Owner[r] = q
    BY <2>1 DEF JobInv, MemberInv
  <2>3. CASE p = s
    <3>1. CASE t \in recs'[Join(s)]
      BY <2>1, <2>2, <2>3, <3>1
    <3>2. CASE Owner[t] \in todo'[Join(s)]
      BY <2>1, <2>3, <3>2
    <3> QED
      BY <2>1, <2>3, <3>1, <3>2
  <2>4. CASE p # s
    BY <2>1, <2>4
  <2> QED
    BY <2>3, <2>4
<1>7. ASSUME NEW p \in Peers, SubscribeTo(p) PROVE JoinMay(steps, s, t)
  BY <1>7 DEF SubscribeTo
<1>8. ASSUME NEW p \in Peers, SubscribedToPeer(p) PROVE JoinMay(steps, s, t)
  BY <1>8 DEF SubscribedToPeer, Negotiates
<1>9. ASSUME NEW p \in Peers, EndJoin(p) PROVE JoinMay(steps, s, t)
  BY <1>9 DEF EndJoin, Negotiates
<1>10. ASSUME NEW p \in Peers, AddReceiver(p) PROVE JoinMay(steps, s, t)
  BY <1>10 DEF AddReceiver, EnterReceiver
<1>11. ASSUME NEW p \in Peers, AddUpTrack(p) PROVE JoinMay(steps, s, t)
  BY <1>11 DEF AddUpTrack
<1>12. ASSUME NEW p \in Peers, AddSimulcastUpTrack(p) PROVE JoinMay(steps, s, t)
  BY <1>12 DEF AddSimulcastUpTrack
<1>13. ASSUME NEW p \in Peers, CopyPeers(p) PROVE JoinMay(steps, s, t)
  BY <1>13 DEF CopyPeers, Others
<1>14. ASSUME NEW p \in Peers, PublishTo(p) PROVE JoinMay(steps, s, t)
  BY <1>14 DEF PublishTo
<1>15. ASSUME NEW p \in Peers, PublishedTo(p) PROVE JoinMay(steps, s, t)
  BY <1>15 DEF PublishedTo, Negotiates
<1>16. ASSUME NEW p \in Peers, EndPublish(p) PROVE JoinMay(steps, s, t)
  BY <1>16 DEF EndPublish
<1>17. ASSUME NEW k \in Tasks, CheckRegistered(k) PROVE JoinMay(steps, s, t)
  BY <1>17 DEF CheckRegistered
<1>18. ASSUME NEW k \in Tasks, AddTransceiver(k) PROVE JoinMay(steps, s, t)
  BY <1>18 DEF AddTransceiver
<1>19. ASSUME NEW k \in Tasks, Register(k) PROVE JoinMay(steps, s, t)
  BY <1>19 DEF Register
<1>20. ASSUME NEW k \in Tasks, CheckSubscribed(k) PROVE JoinMay(steps, s, t)
  BY <1>20 DEF CheckSubscribed
<1>21. ASSUME NEW k \in Tasks, Store(k) PROVE JoinMay(steps, s, t)
  BY <1>21 DEF Store
<1>22. ASSUME NEW u \in Tracks, OnTrack(u) PROVE JoinMay(steps, s, t)
  <2>1. Owner[u] \in Peers
    BY RoomAssumption
  <2> QED
    BY <1>22, <2>1 DEF OnTrack
<1> QED
  BY <1>0, <1>1, <1>2, <1>3, <1>4, <1>5, <1>6, <1>7, <1>8, <1>9, <1>10, <1>11, <1>12,
     <1>13, <1>14, <1>15, <1>16, <1>17, <1>18, <1>19, <1>20, <1>21, <1>22
     DEF Next, JoinStep, PublishStep, AddDownTrackStep

\* A publication does not come to whom it has not before it.
LEMMA PublicationMayShrinks ==
    ASSUME ShapeInv, JobInv, [Next]_vars, NEW steps \in {ToConnect, AddSteps},
           NEW s \in Peers, NEW t \in Tracks, PublicationMay(steps, s, t)'
    PROVE  PublicationMay(steps, s, t)
<1>o. Owner[t] \in Peers
  BY RoomAssumption
<1> USE <1>o, TaskFacts, ReturnFacts
        DEF Goes, locks, room, media, loops, ShapeInv, PublicationMay, ToConnect, Rec,
            UpSteps, PublishLoop, Steps, JoinSteps, PublishSteps, AddSteps
<1>0. CASE UNCHANGED vars
  BY <1>0 DEF vars
<1>1. ASSUME NEW p \in Peers, BeginJoin(p) PROVE PublicationMay(steps, s, t)
  BY <1>1 DEF BeginJoin
<1>2. ASSUME NEW p \in Peers, GetSession(p) PROVE PublicationMay(steps, s, t)
  BY <1>2 DEF GetSession, SessionStep
<1>3. ASSUME NEW p \in Peers, NewSession(p) PROVE PublicationMay(steps, s, t)
  BY <1>3 DEF NewSession
<1>4. ASSUME NEW p \in Peers, AddPeer(p) PROVE PublicationMay(steps, s, t)
  BY <1>4 DEF AddPeer
<1>5. ASSUME NEW p \in Peers, Subscribe(p) PROVE PublicationMay(steps, s, t)
  BY <1>5 DEF Subscribe, Others
<1>6. ASSUME NEW p \in Peers, CopyReceivers(p) PROVE PublicationMay(steps, s, t)
  BY <1>6 DEF CopyReceivers
<1>7. ASSUME NEW p \in Peers, SubscribeTo(p) PROVE PublicationMay(steps, s, t)
  BY <1>7 DEF SubscribeTo
<1>8. ASSUME NEW p \in Peers, SubscribedToPeer(p) PROVE PublicationMay(steps, s, t)
  BY <1>8 DEF SubscribedToPeer, Negotiates
<1>9. ASSUME NEW p \in Peers, EndJoin(p) PROVE PublicationMay(steps, s, t)
  BY <1>9 DEF EndJoin, Negotiates
<1>10. ASSUME NEW p \in Peers, AddReceiver(p) PROVE PublicationMay(steps, s, t)
  BY <1>10 DEF AddReceiver, EnterReceiver
<1>11. ASSUME NEW p \in Peers, AddUpTrack(p) PROVE PublicationMay(steps, s, t)
  BY <1>11 DEF AddUpTrack
<1>12. ASSUME NEW p \in Peers, AddSimulcastUpTrack(p) PROVE PublicationMay(steps, s, t)
  BY <1>12 DEF AddSimulcastUpTrack
<1>13. ASSUME NEW p \in Peers, CopyPeers(p) PROVE PublicationMay(steps, s, t)
  BY <1>13 DEF CopyPeers, Others
<1>14. ASSUME NEW p \in Peers, PublishTo(p) PROVE PublicationMay(steps, s, t)
  BY <1>14 DEF PublishTo
<1>15. ASSUME NEW p \in Peers, PublishedTo(p) PROVE PublicationMay(steps, s, t)
  BY <1>15 DEF PublishedTo, Negotiates
<1>16. ASSUME NEW p \in Peers, EndPublish(p) PROVE PublicationMay(steps, s, t)
  BY <1>16 DEF EndPublish
<1>17. ASSUME NEW k \in Tasks, CheckRegistered(k) PROVE PublicationMay(steps, s, t)
  BY <1>17 DEF CheckRegistered
<1>18. ASSUME NEW k \in Tasks, AddTransceiver(k) PROVE PublicationMay(steps, s, t)
  BY <1>18 DEF AddTransceiver
<1>19. ASSUME NEW k \in Tasks, Register(k) PROVE PublicationMay(steps, s, t)
  BY <1>19 DEF Register
<1>20. ASSUME NEW k \in Tasks, CheckSubscribed(k) PROVE PublicationMay(steps, s, t)
  BY <1>20 DEF CheckSubscribed
<1>21. ASSUME NEW k \in Tasks, Store(k) PROVE PublicationMay(steps, s, t)
  BY <1>21 DEF Store
<1>22. ASSUME NEW u \in Tracks, OnTrack(u) PROVE PublicationMay(steps, s, t)
  <2>1. Owner[u] \in Peers
    BY RoomAssumption
  <2> QED
    BY <1>22, <2>1 DEF OnTrack
<1> QED
  BY <1>0, <1>1, <1>2, <1>3, <1>4, <1>5, <1>6, <1>7, <1>8, <1>9, <1>10, <1>11, <1>12,
     <1>13, <1>14, <1>15, <1>16, <1>17, <1>18, <1>19, <1>20, <1>21, <1>22
     DEF Next, JoinStep, PublishStep, AddDownTrackStep

\* A transceiver is added by the join or by the publication of the pair, which then has
\* it no more before it.
LEMMA TransceiverOnce ==
    ASSUME ShapeInv, JobInv, OnceInv, NEW k \in Tasks, AddTransceiver(k),
           NEW s \in Peers, NEW t \in Tracks, s = Sub(k), t = Rec(k)
    PROVE  \/ JoinMay(ToConnect, s, t) /\ ~JoinMay(ToConnect, s, t)'
           \/ PublicationMay(ToConnect, s, t) /\ ~PublicationMay(ToConnect, s, t)'
<1> USE TaskFacts DEF ShapeInv, Goes, loops, room, locks
<1>0. /\ at[k] = "connect" /\ at[k] \in AddSteps
      /\ at'[k] = "register"
      /\ UNCHANGED <<todo, recs, job, receivers>>
  BY DEF AddTransceiver, AddSteps
<1>1. job[k] = <<s, t>>
  BY <1>0, InHand
<1>2. PICK p \in Peers : k = Join(p) \/ k = Publish(p)
  BY TaskFacts
<1>3. CASE k = Join(p)
  <2>1. Sub(k) = p
    BY <1>0, <1>3 DEF JobInv, JoinJobs
  <2>2. Rec(k) \notin recs[k] /\ Owner[Rec(k)] \notin todo[k]
    BY <1>0, <1>3 DEF OnceInv
  <2> QED
    BY <1>0, <1>1, <1>3, <2>1, <2>2
       DEF JoinMay, ToConnect, BeforeLoop, BeforePeer, BeforeSession
<1>4. CASE k = Publish(p)
  <2>1. Owner[Rec(k)] = p /\ Rec(k) \in receivers[p]
    BY <1>0, <1>4 DEF JobInv, PublishJobs
  <2>2. Sub(k) \notin todo[k]
    BY <1>0, <1>4 DEF OnceInv
  <2>3. Rec(k)' = Rec(k)
    BY <1>0 DEF Rec
  <2> QED
    BY <1>0, <1>1, <1>4, <2>1, <2>2, <2>3 DEF PublicationMay, ToConnect, UpSteps, PublishLoop
<1> QED
  BY <1>2, <1>3, <1>4

\* The same of a down track and the last of the steps.
LEMMA DownTrackOnce ==
    ASSUME ShapeInv, JobInv, OnceInv, NEW k \in Tasks, Store(k),
           NEW s \in Peers, NEW t \in Tracks, s = Sub(k), t = Rec(k)
    PROVE  \/ JoinMay(AddSteps, s, t) /\ ~JoinMay(AddSteps, s, t)'
           \/ PublicationMay(AddSteps, s, t) /\ ~PublicationMay(AddSteps, s, t)'
<1> USE TaskFacts, ReturnFacts DEF ShapeInv, Goes, loops, room, locks
<1>0. /\ at[k] = "store" /\ at[k] \in AddSteps
      /\ at'[k] = Return(k)
      /\ UNCHANGED <<todo, recs, job, receivers>>
  BY DEF Store, AddSteps
<1>1. job[k] = <<s, t>>
  BY <1>0, InHand
<1>2. PICK p \in Peers : k = Join(p) \/ k = Publish(p)
  BY TaskFacts
<1>3. CASE k = Join(p)
  <2>1. Sub(k) = p
    BY <1>0, <1>3 DEF JobInv, JoinJobs
  <2>2. Rec(k) \notin recs[k] /\ Owner[Rec(k)] \notin todo[k]
    BY <1>0, <1>3 DEF OnceInv
  <2> QED
    BY <1>0, <1>1, <1>3, <2>1, <2>2
       DEF JoinMay, AddSteps, BeforeLoop, BeforePeer, BeforeSession
<1>4. CASE k = Publish(p)
  <2>1. Owner[Rec(k)] = p /\ Rec(k) \in receivers[p]
    BY <1>0, <1>4 DEF JobInv, PublishJobs
  <2>2. Sub(k) \notin todo[k]
    BY <1>0, <1>4 DEF OnceInv
  <2>3. Rec(k)' = Rec(k)
    BY <1>0 DEF Rec
  <2> QED
    BY <1>0, <1>1, <1>4, <2>1, <2>2, <2>3 DEF PublicationMay, AddSteps, UpSteps, PublishLoop
<1> QED
  BY <1>2, <1>3, <1>4

\* The entry that a counter of pairs goes up in, and the others.
LEMMA CountOne ==
    ASSUME NEW S, NEW T, NEW f \in [S -> [T -> Nat]], NEW s \in S, NEW t \in T,
           NEW g, g = [f EXCEPT ![s][t] = @ + 1]
    PROVE  \A q \in S, r \in T :
              g[q][r] = IF q = s /\ r = t THEN f[q][r] + 1 ELSE f[q][r]
OBVIOUS

\* What a step does to the counters of a pair.
LEMMA CountStep ==
    ASSUME ShapeInv, JobInv, [Next]_vars
    PROVE  \A s \in Peers, t \in Tracks :
              /\ \/ transceivers'[s][t] = transceivers[s][t]
                 \/ /\ transceivers'[s][t] = transceivers[s][t] + 1
                    /\ \E k \in Tasks : AddTransceiver(k) /\ s = Sub(k) /\ t = Rec(k)
              /\ \/ down_tracks'[t][s] = down_tracks[t][s]
                 \/ /\ down_tracks'[t][s] = down_tracks[t][s] + 1
                    /\ \E k \in Tasks : Store(k) /\ s = Sub(k) /\ t = Rec(k)
              /\ negotiated'[s][t] \in {negotiated[s][t], transceivers[s][t]}
<1> USE DEF Goes, locks, room, media, loops
<1>1. transceivers \in [Peers -> [Tracks -> Nat]] /\ down_tracks \in [Tracks -> [Peers -> Nat]]
  BY DEF ShapeInv
<1>2. ASSUME NEW k \in Tasks, AddTransceiver(k)
      PROVE  /\ UNCHANGED <<negotiated, down_tracks>>
             /\ \A s \in Peers, t \in Tracks : transceivers'[s][t] =
                   IF s = Sub(k) /\ t = Rec(k) THEN transceivers[s][t] + 1
                                                ELSE transceivers[s][t]
  <2>1. Sub(k) \in Peers /\ Rec(k) \in Tracks
    BY <1>2, InHand DEF AddTransceiver, AddSteps
  <2>2. /\ transceivers' = [transceivers EXCEPT ![Sub(k)][Rec(k)] = @ + 1]
        /\ UNCHANGED <<negotiated, down_tracks>>
    BY <1>2 DEF AddTransceiver
  <2> QED
    BY <1>1, <2>1, <2>2, CountOne
<1>3. ASSUME NEW k \in Tasks, Store(k)
      PROVE  /\ UNCHANGED <<negotiated, transceivers>>
             /\ \A s \in Peers, t \in Tracks : down_tracks'[t][s] =
                   IF s = Sub(k) /\ t = Rec(k) THEN down_tracks[t][s] + 1
                                                ELSE down_tracks[t][s]
  <2>1. Sub(k) \in Peers /\ Rec(k) \in Tracks
    BY <1>3, InHand DEF Store, AddSteps
  <2>2. /\ down_tracks' = [down_tracks EXCEPT ![Rec(k)][Sub(k)] = @ + 1]
        /\ UNCHANGED <<negotiated, transceivers>>
    BY <1>3 DEF Store
  <2>3. \A t \in Tracks, s \in Peers : down_tracks'[t][s] =
            IF t = Rec(k) /\ s = Sub(k) THEN down_tracks[t][s] + 1 ELSE down_tracks[t][s]
    BY <1>1, <2>1, <2>2, CountOne
  <2> QED
    BY <2>2, <2>3
<1>4. ASSUME NEW k \in Tasks, NEW p \in Peers, NEW from, NEW to, Negotiates(k, p, from, to)
      PROVE  /\ UNCHANGED <<transceivers, down_tracks>>
             /\ \A s \in Peers, t \in Tracks :
                   negotiated'[s][t] \in {negotiated[s][t], transceivers[s][t]}
  BY <1>4 DEF Negotiates, ShapeInv
<1>5. ASSUME NEW p \in Peers, SubscribedToPeer(p) \/ EndJoin(p) \/ PublishedTo(p)
      PROVE  /\ UNCHANGED <<transceivers, down_tracks>>
             /\ \A s \in Peers, t \in Tracks :
                   negotiated'[s][t] \in {negotiated[s][t], transceivers[s][t]}
  <2>1. Join(p) \in Tasks /\ Publish(p) \in Tasks
    BY TaskFacts
  <2>2. PublishedTo(p) => Sub(Publish(p)) \in Peers
    BY Publishing DEF PublishedTo, Negotiates
  <2> QED
    BY <1>4, <1>5, <2>1, <2>2 DEF SubscribedToPeer, EndJoin, PublishedTo
<1>6. ASSUME NEW p \in Peers, BeginJoin(p) \/ JoinStep(p), ~AddDownTrackStep(Join(p)),
             ~(SubscribedToPeer(p) \/ EndJoin(p))
      PROVE  UNCHANGED media
  BY <1>6 DEF JoinStep, BeginJoin, GetSession, NewSession, AddPeer, Subscribe,
              CopyReceivers, SubscribeTo
<1>7. ASSUME NEW p \in Peers, PublishStep(p), ~AddDownTrackStep(Publish(p)),
             ~PublishedTo(p)
      PROVE  UNCHANGED media
  BY <1>7 DEF PublishStep, AddReceiver, EnterReceiver, AddUpTrack, AddSimulcastUpTrack,
              CopyPeers, PublishTo, EndPublish
<1>8. ASSUME NEW t \in Tracks, OnTrack(t) PROVE UNCHANGED media
  BY <1>8 DEF OnTrack
<1>9. ASSUME NEW k \in Tasks, AddDownTrackStep(k), ~AddTransceiver(k), ~Store(k)
       PROVE  UNCHANGED <<transceivers, negotiated, down_tracks>>
  BY <1>9 DEF AddDownTrackStep, CheckRegistered, Register, CheckSubscribed
<1>10. \/ \E k \in Tasks : AddTransceiver(k) \/ Store(k)
       \/ \E p \in Peers : SubscribedToPeer(p) \/ EndJoin(p) \/ PublishedTo(p)
       \/ UNCHANGED <<transceivers, negotiated, down_tracks>>
  <2>1. ASSUME NEW k \in Tasks, AddDownTrackStep(k)
        PROVE  AddTransceiver(k) \/ Store(k) \/ UNCHANGED <<transceivers, negotiated, down_tracks>>
    BY <1>9, <2>1
  <2>2. ASSUME NEW p \in Peers, BeginJoin(p) \/ JoinStep(p)
        PROVE  \/ AddDownTrackStep(Join(p))
               \/ SubscribedToPeer(p) \/ EndJoin(p)
               \/ UNCHANGED <<transceivers, negotiated, down_tracks>>
    BY <1>6, <2>2
  <2>3. ASSUME NEW p \in Peers, PublishStep(p)
        PROVE  \/ AddDownTrackStep(Publish(p))
               \/ PublishedTo(p)
               \/ UNCHANGED <<transceivers, negotiated, down_tracks>>
    BY <1>7, <2>3
  <2>4. ASSUME NEW t \in Tracks, OnTrack(t)
        PROVE  UNCHANGED <<transceivers, negotiated, down_tracks>>
    BY <1>8, <2>4
  <2> DEFINE Quiet == UNCHANGED <<transceivers, negotiated, down_tracks>>
             Adds  == \E k \in Tasks : AddTransceiver(k) \/ Store(k)
             Asks  == \E p \in Peers : SubscribedToPeer(p) \/ EndJoin(p) \/ PublishedTo(p)
  <2>5. ASSUME NEW k \in Tasks, AddDownTrackStep(k) PROVE Adds \/ Quiet
    BY <2>1, <2>5
  <2>6. ASSUME NEW p \in Peers, BeginJoin(p) \/ JoinStep(p) PROVE Adds \/ Asks \/ Quiet
    BY <2>2, <2>5, <2>6, TaskFacts
  <2>7. ASSUME NEW p \in Peers, PublishStep(p) PROVE Adds \/ Asks \/ Quiet
    BY <2>3, <2>5, <2>7, TaskFacts
  <2>8. ASSUME UNCHANGED vars PROVE Quiet
    BY <2>8 DEF vars
  <2>9. ASSUME NEW t \in Tracks, OnTrack(t) PROVE Quiet
    BY <2>4, <2>9
  <2> HIDE DEF Quiet, Adds, Asks
  <2>10. Adds \/ Asks \/ Quiet
    BY <2>6, <2>7, <2>8, <2>9 DEF Next
  <2> QED
    BY <2>10 DEF Quiet, Adds, Asks
<1> QED
  BY <1>2, <1>3, <1>5, <1>10

\* A count goes up only where one more may come, and then one less may.
LEMMA CountKept ==
    ASSUME ShapeInv, JobInv, OnceInv, CountInv, [Next]_vars
    PROVE  CountInv'
<1> SUFFICES ASSUME NEW s \in Peers, NEW t \in Tracks
             PROVE  /\ Within(transceivers[s][t], JoinMay(ToConnect, s, t),
                              PublicationMay(ToConnect, s, t))'
                    /\ Within(down_tracks[t][s], JoinMay(AddSteps, s, t),
                              PublicationMay(AddSteps, s, t))'
                    /\ negotiated'[s][t] \in 0 .. 2
  BY DEF CountInv
<1>1. /\ Within(transceivers[s][t], JoinMay(ToConnect, s, t), PublicationMay(ToConnect, s, t))
      /\ Within(down_tracks[t][s], JoinMay(AddSteps, s, t), PublicationMay(AddSteps, s, t))
      /\ negotiated[s][t] \in 0 .. 2
  BY DEF CountInv
<1>2. \A steps \in {ToConnect, AddSteps} :
          /\ JoinMay(steps, s, t)' => JoinMay(steps, s, t)
          /\ PublicationMay(steps, s, t)' => PublicationMay(steps, s, t)
  BY JoinMayShrinks, PublicationMayShrinks
<1>3. Within(transceivers[s][t], JoinMay(ToConnect, s, t), PublicationMay(ToConnect, s, t))'
  <2>1. CASE transceivers'[s][t] = transceivers[s][t]
    BY <1>1, <1>2, <2>1 DEF Within
  <2>2. ASSUME NEW k \in Tasks, AddTransceiver(k), s = Sub(k), t = Rec(k),
               transceivers'[s][t] = transceivers[s][t] + 1
        PROVE  Within(transceivers[s][t], JoinMay(ToConnect, s, t),
                      PublicationMay(ToConnect, s, t))'
    <3>1. \/ JoinMay(ToConnect, s, t) /\ ~JoinMay(ToConnect, s, t)'
          \/ PublicationMay(ToConnect, s, t) /\ ~PublicationMay(ToConnect, s, t)'
      BY <2>2, TransceiverOnce
    <3> QED
      BY <1>1, <1>2, <2>2, <3>1 DEF Within
  <2> QED
    BY <2>1, <2>2, CountStep
<1>4. Within(down_tracks[t][s], JoinMay(AddSteps, s, t), PublicationMay(AddSteps, s, t))'
  <2>1. CASE down_tracks'[t][s] = down_tracks[t][s]
    BY <1>1, <1>2, <2>1 DEF Within
  <2>2. ASSUME NEW k \in Tasks, Store(k), s = Sub(k), t = Rec(k),
               down_tracks'[t][s] = down_tracks[t][s] + 1
        PROVE  Within(down_tracks[t][s], JoinMay(AddSteps, s, t),
                      PublicationMay(AddSteps, s, t))'
    <3>1. \/ JoinMay(AddSteps, s, t) /\ ~JoinMay(AddSteps, s, t)'
          \/ PublicationMay(AddSteps, s, t) /\ ~PublicationMay(AddSteps, s, t)'
      BY <2>2, DownTrackOnce
    <3> QED
      BY <1>1, <1>2, <2>2, <3>1 DEF Within
  <2> QED
    BY <2>1, <2>2, CountStep
<1>5. negotiated'[s][t] \in 0 .. 2
  BY <1>1, CountStep DEF Within
<1> QED
  BY <1>3, <1>4, <1>5

TypeInv == PlaceInv /\ OnceInv /\ CountInv

LEMMA InitTypes == Init => TypeInv
<1> SUFFICES ASSUME Init PROVE TypeInv
  OBVIOUS
<1> USE TaskFacts, RoomAssumption DEF Init
<1>1. PlaceInv
  BY DEF PlaceInv, JoinSteps, PublishSteps
<1>2. OnceInv
  BY DEF OnceInv, AddSteps
<1>3. CountInv
  BY DEF CountInv, Within
<1> QED
  BY <1>1, <1>2, <1>3 DEF TypeInv

\* Every variable of the session keeps its type: in particular the publication and the
\* join of a subscriber add a track at most once each, so that a peer has no more than two
\* transceivers and two down tracks of it.
THEOREM TypeCorrect == Spec => []TypeOK
<1>1. RoomInv /\ TypeInv /\ [Next]_vars => TypeInv'
  BY PlaceKept, OnceKept, CountKept DEF RoomInv, TypeInv
<1>2. RoomInv /\ TypeInv => TypeOK
  <2> SUFFICES ASSUME RoomInv, TypeInv PROVE TypeOK
    OBVIOUS
  <2> USE DEF RoomInv, TypeInv
  <2>1. transceivers \in [Peers -> [Tracks -> 0 .. 2]]
    BY DEF ShapeInv, CountInv, Within
  <2>2. negotiated \in [Peers -> [Tracks -> 0 .. 2]]
    BY DEF ShapeInv, CountInv
  <2>3. down_tracks \in [Tracks -> [Peers -> 0 .. 2]]
    BY DEF ShapeInv, CountInv, Within
  <2>4. \A p \in Peers : receivers[p] \subseteq {t \in Tracks : Owner[t] = p}
    BY DEF ShapeInv, JobInv, MemberInv
  <2>5. published \subseteq UNION {receivers[p] : p \in Peers}
    BY RoomAssumption DEF ShapeInv, JobInv, MemberInv
  <2> QED
    BY <2>1, <2>2, <2>3, <2>4, <2>5 DEF ShapeInv, PlaceInv, TypeOK
<1> QED
  BY <1>1, <1>2, InitTypes, RoomIsKept, PTL DEF Spec
=============================================================================
