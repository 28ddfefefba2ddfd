--------------------------- MODULE PublisherProofs ---------------------------
(***************************************************************************)
(* What is proved of Publisher for any calls and candidates of the client. *)
(***************************************************************************)
EXTENDS Publisher, SequenceFacts

-----------------------------------------------------------------------------
(* The inductive invariant.                                                *)

\* What the peer has where the handler stands.
PhaseInv ==
    /\ at \in {"join", "subscriber", "publisher", "enter"} => call \in Joins
    /\ at \in {"subscriber", "publisher"} => session /\ ~publisher
    /\ at \in {"enter", "answer"} /\ call \in Joins =>
          session /\ (publisher \/ config.no_publish)
    /\ at \in {"replay", "create"} => publisher
    /\ publisher => session /\ (in_session \/ at = "enter")

\* The connection is there with the publisher, and its task with the connection.
ConnectionInv ==
    /\ ~publisher => ice = "none" /\ signaling = "none" /\ ~remote_description
    /\ publisher => signaling # "none"
    /\ ice \in {"none", "up"} => stop = 0
    /\ ice \in {"failed", "closed"} => stop <= 1

\* A call is still to be sent, on its way or in hand, and in one of these places.
Waiting(id) == id \in to_call \/ Occurs(id, requests) \/ call = id

PlaceInv ==
    \A id \in Calls :
        /\ OnlyOnce(id, requests)
        /\ Occurs(id, requests) => id \notin to_call
        /\ call = id => id \notin to_call /\ ~Occurs(id, requests)

\* What excuses that a join is not responded to, and stays so.
Excused == session /\ (Failed \/ config.no_publish)

\* Nothing comes back for a call before it is handled, and one response then.
ResponseInv ==
    \A id \in Calls :
        /\ Waiting(id) => responses[id] = <<>>
        /\ ~Waiting(id) /\ responses[id] = <<>> => id \in Joins /\ Excused
        /\ Len(responses[id]) <= 1
        /\ responses[id] = <<"answer">> => in_session
        /\ responses[id] = <<"ignored">> => Failed

\* A negotiation is open only while the handler makes its answer, or was left so.
FailedInv ==
    /\ signaling = "have-remote-offer" => at \in {"replay", "create"} \/ upset
    /\ signaling = "closed" => ice \in {"closed", "over"}

\* A candidate that came is kept, and what is kept was given to the connection.
CandidateInv ==
    /\ at # "panicked" =>
          \A c \in Candidates :
              c \in to_send \/ Occurs(c, requests) \/ c \in Kept
    /\ remote_description /\ at # "replay" /\ signaling # "closed" =>
          Kept \ Refused \subseteq applied

LifeInv == PhaseInv /\ ConnectionInv /\ FailedInv
-----------------------------------------------------------------------------
(* Responses and requests.                                                 *)

Results == {"answer", "error", "exists", "none", "ignored"}

LEMMA RespondFacts ==
    ASSUME responses \in [Calls -> Seq(Results)], NEW id \in Calls,
           NEW result \in Results, Respond(id, result)
    PROVE  /\ responses' \in [Calls -> Seq(Results)]
           /\ responses'[id] = Append(responses[id], result)
           /\ \A other \in Calls \ {id} : responses'[other] = responses[other]
<1>1. Append(responses[id], result) \in Seq(Results)
  BY AppendProperties
<1>2. responses' = [responses EXCEPT ![id] = Append(responses[id], result)]
  BY DEF Respond
<1> QED
  BY <1>1, <1>2

\* The first response of a call.
LEMMA FirstResponse ==
    ASSUME responses \in [Calls -> Seq(Results)], NEW id \in Calls,
           NEW result \in Results, Respond(id, result), responses[id] = <<>>
    PROVE  /\ responses'[id] = <<result>> /\ responses'[id] # <<>>
           /\ Len(responses'[id]) = 1
           /\ \A r \in Results : responses'[id] = <<r>> => r = result
<1>1. /\ responses'[id] = Append(<<>>, result)
      /\ Append(<<>>, result)[1] = result
  BY RespondFacts, AppendToEmpty
<1>2. \A r \in Results : <<r>>[1] = r
  OBVIOUS
<1> QED
  BY <1>1, <1>2, AppendToEmpty

\* How the two ends of an answer leave the responses.
LEMMA AnswerResponds ==
    ASSUME TypeOK, call \in Calls, NEW result \in Results,
           Answered(result) \/ RefusedWith(result)
    PROVE  /\ responses' \in [Calls -> Seq(Results)]
           /\ at' = "idle" /\ call' = None
           /\ \/ Respond(call, result)
              \/ call \in Joins /\ responses' = responses /\ RefusedWith(result)
BY RespondFacts DEF TypeOK, Results, Answered, RefusedWith

LEMMA RequestFacts ==
    ASSUME TypeOK, NEW request, Receives(request)
    PROVE  /\ requests \in Seq(Calls \cup Candidates) /\ requests # <<>>
           /\ requests' = Tail(requests) /\ Head(requests) = request
           /\ requests' \in Seq(Calls \cup Candidates)
           /\ at = "idle" /\ call = None
BY TailFacts DEF TypeOK, Receives
-----------------------------------------------------------------------------
(* Types.                                                                  *)

LEMMA InitType == Init => TypeOK
<1> SUFFICES ASSUME Init PROVE TypeOK
  OBVIOUS
<1>1. requests \in Seq(Calls \cup Candidates) /\ candidates \in Seq(Candidates)
  BY EmptySeq DEF Init
<1>2. responses \in [Calls -> Seq(Results)]
  BY EmptySeq DEF Init
<1>3. config \in JoinConfig
  BY DEF Init, JoinConfig
<1>4. 0 \in 0 .. MaxFeedback /\ 0 \in 0 .. 2 /\ None \notin Calls
  BY PublisherAssumption
<1>5. {session, subscriber, publisher, in_session, remote_description, upset}
          \subseteq BOOLEAN
  BY DEF Init
<1> QED
  BY <1>1, <1>2, <1>3, <1>4, <1>5 DEF Init, TypeOK, Results

LEMMA ClientType ==
    ASSUME TypeOK,
           \/ \E id \in Calls : ClientCalls(id)
           \/ \E c \in Candidates : ClientTrickles(c)
    PROVE  TypeOK'
<1>1. ASSUME NEW r \in Calls \cup Candidates, requests' = Append(requests, r)
      PROVE  requests' \in Seq(Calls \cup Candidates)
  BY <1>1, AppendProperties DEF TypeOK
<1>2. ASSUME NEW id \in Calls, ClientCalls(id) PROVE TypeOK'
  BY <1>1, <1>2 DEF ClientCalls, TypeOK, peer, connection, rtcp
<1>3. ASSUME NEW c \in Candidates, ClientTrickles(c) PROVE TypeOK'
  BY <1>1, <1>3 DEF ClientTrickles, TypeOK, peer, connection, rtcp
<1> QED
  BY <1>2, <1>3

LEMMA TakeRequestType ==
    ASSUME TypeOK, TakeRequest
    PROVE  TypeOK'
<1> USE PublisherAssumption
<1>1. ASSUME NEW id \in Calls, TakeCall(id) PROVE TypeOK'
  BY <1>1, RequestFacts DEF TakeCall, TypeOK, peer, connection, rtcp
<1>2. ASSUME NEW id \in Calls, RejectParameters(id) PROVE TypeOK'
  <2>1. responses' \in [Calls -> Seq(Results)]
    BY <1>2, RespondFacts DEF RejectParameters, TypeOK, Results
  <2> QED
    BY <1>2, <2>1, RequestFacts DEF RejectParameters, TypeOK, Results, peer, connection,
                                    rtcp
<1>3. ASSUME NEW c \in Candidates, KeepCandidate(c) \/ AddCandidate(c) PROVE TypeOK'
  <2>1. candidates \in Seq(Candidates) /\ candidates' = Append(candidates, c)
    BY <1>3 DEF KeepCandidate, AddCandidate, TypeOK
  <2>2. candidates' \in Seq(Candidates)
    BY <2>1, AppendProperties
  <2> QED
    BY <1>3, <2>2, RequestFacts DEF KeepCandidate, AddCandidate, TypeOK, peer,
                                    connection, rtcp
<1>4. ASSUME NEW c \in Candidates, CandidateRefused(c) PROVE TypeOK'
  BY <1>4, RequestFacts DEF CandidateRefused, TypeOK, peer, connection, rtcp
<1> QED
  BY <1>1, <1>2, <1>3, <1>4 DEF TakeRequest

LEMMA JoinStepType ==
    ASSUME TypeOK, JoinStep
    PROVE  TypeOK'
<1> USE PublisherAssumption
<1>0. call = None <=> at \in {"idle", "panicked"}
  BY DEF TypeOK
<1>1. CASE JoinAgain \/ JoinFails
  <2>1. call \in Calls
    BY <1>0, <1>1 DEF JoinAgain, JoinFails, TypeOK
  <2>2. responses' \in [Calls -> Seq(Results)] /\ at' = "idle" /\ call' = None
    BY <1>1, <2>1, AnswerResponds DEF JoinAgain, JoinFails, Results
  <2> QED
    BY <1>1, <2>2 DEF JoinAgain, JoinFails, TypeOK, Results, client, peer, connection,
                      rtcp
<1>2. ASSUME NEW cfg \in JoinConfig, GetSession(cfg) PROVE TypeOK'
  BY <1>2 DEF GetSession, TypeOK, AfterSubscriber, client, connection, rtcp
<1>3. CASE NewSubscriber
  BY <1>3 DEF NewSubscriber, TypeOK, AfterSubscriber, client, connection, rtcp
<1>4. CASE NewPublisher
  BY <1>4 DEF NewPublisher, TypeOK, client
<1>5. CASE EnterSession
  BY <1>5 DEF EnterSession, TypeOK, client, connection, rtcp
<1> QED
  BY <1>1, <1>2, <1>3, <1>4, <1>5 DEF JoinStep

LEMMA AnswerStepType ==
    ASSUME TypeOK, AnswerStep
    PROVE  TypeOK'
<1> USE PublisherAssumption
<1>0. call = None <=> at \in {"idle", "panicked"}
  BY DEF TypeOK
<1>1. CASE NoTransport \/ OfferIgnored \/ CreateAnswer \/ AnswerFails
  <2>1. call \in Calls
    BY <1>0, <1>1 DEF NoTransport, OfferIgnored, CreateAnswer, AnswerFails, TypeOK
  <2>2. responses' \in [Calls -> Seq(Results)] /\ at' = "idle" /\ call' = None
    BY <1>1, <2>1, AnswerResponds
       DEF NoTransport, OfferIgnored, CreateAnswer, AnswerFails, Results
  <2> QED
    BY <1>1, <2>2 DEF NoTransport, OfferIgnored, CreateAnswer, AnswerFails, TypeOK,
                      Results, client, peer, connection, rtcp
<1>2. CASE SetRemoteOffer
  BY <1>2 DEF SetRemoteOffer, TypeOK, client, peer, rtcp
<1>3. CASE ReplayCandidates
  <2>1. Kept \subseteq Candidates
    BY ElementOfSeq, LenProperties DEF Kept, TypeOK
  <2> QED
    BY <1>3, <2>1 DEF ReplayCandidates, TypeOK, client, peer, rtcp
<1> QED
  BY <1>1, <1>2, <1>3 DEF AnswerStep

\* The router is stopped twice at most, so that two stops are in its channel at most.
LEMMA RouterType ==
    ASSUME TypeOK, ConnectionInv,
           \/ IceFails \/ Closing
           \/ GiveFeedback \/ RequestKeyFrame \/ TakeFeedback \/ TakeStop
    PROVE  TypeOK'
<1> USE PublisherAssumption
<1>1. CASE IceFails
  BY <1>1 DEF IceFails, StopRouter, ConnectionInv, TypeOK, client, peer, connection
<1>2. CASE CloseConnection
  BY <1>2 DEF CloseConnection, TypeOK, client, peer
<1>3. CASE IceClosed
  BY <1>3 DEF IceClosed, StopRouter, ConnectionInv, TypeOK, client, peer, connection
<1>4. CASE GiveFeedback
  BY <1>4 DEF GiveFeedback, PutFeedback, TypeOK, client, peer, connection
<1>5. CASE RequestKeyFrame
  BY <1>5 DEF RequestKeyFrame, PutFeedback, TypeOK, client, peer, connection
<1>6. CASE TakeFeedback
  BY <1>6 DEF TakeFeedback, TypeOK, client, peer, connection
<1>7. CASE TakeStop
  BY <1>7 DEF TakeStop, TypeOK, client, peer, connection
<1> QED
  BY <1>1, <1>2, <1>3, <1>4, <1>5, <1>6, <1>7 DEF Closing

LEMMA TypeStep == TypeOK /\ ConnectionInv /\ [Next]_vars => TypeOK'
<1>1. TypeOK /\ UNCHANGED vars => TypeOK'
  BY DEF vars, TypeOK
<1> QED
  BY <1>1, ClientType, TakeRequestType, JoinStepType, AnswerStepType, RouterType
     DEF Next
-----------------------------------------------------------------------------
(* What the peer has, and the state of its connection.                     *)

LEMMA InitLife == Init => LifeInv
BY DEF Init, LifeInv, PhaseInv, ConnectionInv, FailedInv

LEMMA TakeRequestLife ==
    ASSUME TypeOK, LifeInv, TakeRequest
    PROVE  LifeInv'
<1> USE PublisherAssumption DEF LifeInv, PhaseInv, ConnectionInv, FailedInv
<1>1. ASSUME NEW id \in Calls, TakeCall(id) PROVE LifeInv'
  BY <1>1 DEF TakeCall, Receives, Calls, peer, connection, rtcp
<1>2. ASSUME NEW id \in Calls, RejectParameters(id) PROVE LifeInv'
  BY <1>2 DEF RejectParameters, peer, connection, rtcp
<1>3. ASSUME NEW c \in Candidates,
             KeepCandidate(c) \/ AddCandidate(c) \/ CandidateRefused(c)
      PROVE  LifeInv'
  BY <1>3 DEF KeepCandidate, AddCandidate, CandidateRefused, Receives, peer,
              connection, rtcp
<1> QED
  BY <1>1, <1>2, <1>3 DEF TakeRequest

LEMMA JoinStepLife ==
    ASSUME TypeOK, LifeInv, JoinStep
    PROVE  LifeInv'
<1> USE DEF LifeInv, PhaseInv, ConnectionInv, FailedInv
<1>0. /\ session \in BOOLEAN /\ publisher \in BOOLEAN /\ in_session \in BOOLEAN
      /\ config \in JoinConfig
  BY DEF TypeOK
<1>1. CASE JoinAgain \/ JoinFails
  BY <1>1 DEF JoinAgain, JoinFails, Answered, peer, connection, rtcp
<1>2. ASSUME NEW cfg \in JoinConfig, GetSession(cfg) PROVE LifeInv'
  BY <1>0, <1>2 DEF GetSession, AfterSubscriber, JoinConfig, connection, rtcp
<1>3. CASE NewSubscriber
  BY <1>0, <1>3 DEF NewSubscriber, AfterSubscriber, JoinConfig, connection, rtcp
<1>4. CASE NewPublisher
  BY <1>0, <1>4 DEF NewPublisher
<1>5. CASE EnterSession
  BY <1>0, <1>5 DEF EnterSession, connection, rtcp
<1> QED
  BY <1>1, <1>2, <1>3, <1>4, <1>5 DEF JoinStep

LEMMA AnswerStepLife ==
    ASSUME TypeOK, LifeInv, AnswerStep
    PROVE  LifeInv'
<1> USE DEF LifeInv, PhaseInv, ConnectionInv, FailedInv
<1>1. CASE NoTransport \/ OfferIgnored \/ AnswerFails
  BY <1>1 DEF NoTransport, OfferIgnored, AnswerFails, RefusedWith, peer, connection,
              rtcp
<1>2. CASE CreateAnswer
  BY <1>2 DEF CreateAnswer, Answered, peer, rtcp
<1>3. CASE SetRemoteOffer \/ ReplayCandidates
  BY <1>3 DEF SetRemoteOffer, ReplayCandidates, peer, rtcp
<1> QED
  BY <1>1, <1>2, <1>3 DEF AnswerStep

LEMMA RouterLife ==
    ASSUME TypeOK, LifeInv,
           \/ IceFails \/ Closing
           \/ GiveFeedback \/ RequestKeyFrame \/ TakeFeedback \/ TakeStop
    PROVE  LifeInv'
<1> USE DEF LifeInv, PhaseInv, ConnectionInv, FailedInv
<1>0. stop \in 0 .. 2 /\ publisher \in BOOLEAN
  BY DEF TypeOK
<1>1. CASE IceFails
  BY <1>0, <1>1 DEF IceFails, StopRouter, peer, connection
<1>2. CASE CloseConnection
  BY <1>0, <1>2 DEF CloseConnection, peer
<1>3. CASE IceClosed
  BY <1>0, <1>3 DEF IceClosed, StopRouter, peer, connection
<1>4. CASE GiveFeedback \/ RequestKeyFrame \/ TakeFeedback
  BY <1>4 DEF GiveFeedback, RequestKeyFrame, TakeFeedback, peer, connection
<1>5. CASE TakeStop
  BY <1>0, <1>5 DEF TakeStop, peer, connection
<1> QED
  BY <1>1, <1>2, <1>3, <1>4, <1>5 DEF Closing

LEMMA LifeStep == TypeOK /\ LifeInv /\ [Next]_vars => LifeInv'
<1>1. TypeOK /\ LifeInv /\ UNCHANGED vars => LifeInv'
  BY DEF vars, LifeInv, PhaseInv, ConnectionInv, FailedInv
<1>2. ASSUME LifeInv, NEW id \in Calls, ClientCalls(id) PROVE LifeInv'
  BY <1>2 DEF ClientCalls, LifeInv, PhaseInv, ConnectionInv, FailedInv, peer,
              connection, rtcp
<1>3. ASSUME LifeInv, NEW c \in Candidates, ClientTrickles(c) PROVE LifeInv'
  BY <1>3 DEF ClientTrickles, LifeInv, PhaseInv, ConnectionInv, FailedInv, peer,
              connection, rtcp
<1> QED
  BY <1>1, <1>2, <1>3, TakeRequestLife, JoinStepLife, AnswerStepLife, RouterLife
     DEF Next

\* Every variable keeps its type; the two stops of a router that fails are all its
\* channel ever holds.
THEOREM TypeCorrect == Spec => []TypeOK
<1>1. Init => TypeOK /\ LifeInv
  BY InitType, InitLife
<1>2. TypeOK /\ LifeInv /\ [Next]_vars => TypeOK' /\ LifeInv'
  BY TypeStep, LifeStep DEF LifeInv
<1> QED
  BY <1>1, <1>2, PTL DEF Spec
-----------------------------------------------------------------------------
(* Where the calls are.                                                    *)

LEMMA InitPlace == Init => PlaceInv
<1> SUFFICES ASSUME Init PROVE PlaceInv
  OBVIOUS
<1>1. DOMAIN requests = {} /\ None \notin Calls
  BY PublisherAssumption DEF Init
<1> QED
  BY <1>1 DEF Init, PlaceInv, Occurs, OnlyOnce

\* The steps that take nothing in and send nothing.
Within ==
    \/ JoinStep \/ AnswerStep
    \/ IceFails \/ Closing
    \/ GiveFeedback \/ RequestKeyFrame \/ TakeFeedback \/ TakeStop
    \/ UNCHANGED vars

LEMMA WithinPlaces == Within => UNCHANGED client /\ call' \in {call, None}
<1>1. JoinStep => UNCHANGED client /\ call' \in {call, None}
  BY DEF JoinStep, JoinAgain, GetSession, NewSubscriber, JoinFails, NewPublisher,
         EnterSession, Answered
<1>2. AnswerStep => UNCHANGED client /\ call' \in {call, None}
  BY DEF AnswerStep, NoTransport, OfferIgnored, SetRemoteOffer, ReplayCandidates,
         CreateAnswer, AnswerFails, RefusedWith, Answered
<1>3. IceFails \/ Closing => UNCHANGED <<client, call>>
  BY DEF IceFails, Closing, CloseConnection, IceClosed
<1>4. GiveFeedback \/ RequestKeyFrame \/ TakeFeedback \/ TakeStop =>
          UNCHANGED <<client, call>>
  BY DEF GiveFeedback, RequestKeyFrame, TakeFeedback, TakeStop
<1>5. UNCHANGED vars => UNCHANGED <<client, call>>
  BY DEF vars, client
<1> QED
  BY <1>1, <1>2, <1>3, <1>4, <1>5 DEF Within

LEMMA NextIs ==
    [Next]_vars <=> \/ \E id \in Calls : ClientCalls(id)
                    \/ \E c \in Candidates : ClientTrickles(c)
                    \/ TakeRequest
                    \/ Within
BY DEF Next, Within

\* What is sent is one more request, what is received one less.
LEMMA SentPlaces ==
    ASSUME TypeOK, PlaceInv, NEW r \in Calls \cup Candidates,
           requests' = Append(requests, r), r \in Calls => r \in to_call,
           NEW id \in Calls
    PROVE  /\ Occurs(id, requests') <=> Occurs(id, requests) \/ id = r
           /\ OnlyOnce(id, requests')
<1>1. requests \in Seq(Calls \cup Candidates)
  BY DEF TypeOK
<1>2. OnlyOnce(id, requests) /\ (id = r => ~Occurs(id, requests))
  BY DEF PlaceInv
<1> QED
  BY <1>1, <1>2, AppendOccurs

LEMMA ReceivedPlaces ==
    ASSUME TypeOK, PlaceInv, NEW r, Receives(r), NEW id \in Calls
    PROVE  /\ Occurs(id, requests) <=> Occurs(id, requests') \/ id = r
           /\ OnlyOnce(id, requests')
           /\ ~(id = r /\ Occurs(id, requests'))
<1>1. /\ requests \in Seq(Calls \cup Candidates) /\ requests # <<>>
      /\ requests' = Tail(requests) /\ Head(requests) = r
  BY RequestFacts
<1>2. OnlyOnce(id, requests)
  BY DEF PlaceInv
<1> QED
  BY <1>1, <1>2, TailOccurs

LEMMA PlaceStep == TypeOK /\ PlaceInv /\ [Next]_vars => PlaceInv'
<1> SUFFICES ASSUME TypeOK, PlaceInv, [Next]_vars PROVE PlaceInv'
  OBVIOUS
<1>0. None \notin Calls /\ Calls \cap Candidates = {}
  BY PublisherAssumption
<1>1. ASSUME NEW r \in Calls, ClientCalls(r) PROVE PlaceInv'
  <2>1. /\ r \in to_call /\ to_call' = to_call \ {r} /\ call' = call
        /\ requests' = Append(requests, r)
    BY <1>1 DEF ClientCalls
  <2> QED
    BY <2>1, SentPlaces DEF PlaceInv
<1>2. ASSUME NEW c \in Candidates, ClientTrickles(c) PROVE PlaceInv'
  <2>1. to_call' = to_call /\ call' = call /\ requests' = Append(requests, c)
    BY <1>2 DEF ClientTrickles
  <2> QED
    BY <1>0, <2>1, SentPlaces DEF PlaceInv
<1>3. CASE TakeRequest
  <2>1. PICK r \in Calls \cup Candidates :
            Receives(r) /\ to_call' = to_call /\ call' \in {call, r} /\ call = None
            /\ (r \in Candidates => call' = call)
    BY <1>0, <1>3, RequestFacts
       DEF TakeRequest, TakeCall, RejectParameters, KeepCandidate, AddCandidate,
           CandidateRefused
  <2> QED
    BY <1>0, <2>1, ReceivedPlaces DEF PlaceInv
<1>4. CASE Within
  BY <1>0, <1>4, WithinPlaces DEF PlaceInv, client
<1> QED
  BY <1>1, <1>2, <1>3, <1>4, NextIs
-----------------------------------------------------------------------------
(* Responses.                                                              *)

LEMMA InitResponse == Init => ResponseInv
<1> SUFFICES ASSUME Init, NEW id \in Calls
             PROVE  responses[id] = <<>> /\ Waiting(id)
  BY EmptySeq DEF ResponseInv
<1> QED
  BY DEF Init, Waiting

\* A failure is never undone, nor a join of the session.
LEMMA NothingIsUndone ==
    ASSUME TypeOK, LifeInv, [Next]_vars
    PROVE  (Failed => Failed') /\ (in_session => in_session') /\ (Excused => Excused')
<1> USE DEF Failed, Excused
<1>1. CASE TakeRequest
  BY <1>1 DEF TakeRequest, TakeCall, RejectParameters, KeepCandidate, AddCandidate,
              CandidateRefused, peer, rtcp
<1>2. CASE JoinStep
  <2>1. CASE JoinAgain \/ JoinFails
    BY <2>1 DEF JoinAgain, JoinFails, peer, rtcp
  <2>2. ASSUME NEW cfg \in JoinConfig, GetSession(cfg)
        PROVE  ~session /\ UNCHANGED <<in_session, ice, upset>>
    BY <2>2 DEF GetSession, rtcp
  <2>3. CASE NewSubscriber \/ EnterSession
    BY <2>3 DEF NewSubscriber, EnterSession, rtcp, TypeOK
  <2>4. CASE NewPublisher
    BY <2>4 DEF NewPublisher, LifeInv, PhaseInv, ConnectionInv
  <2> QED
    BY <1>2, <2>1, <2>2, <2>3, <2>4 DEF JoinStep
<1>3. CASE AnswerStep
  BY <1>3 DEF AnswerStep, NoTransport, OfferIgnored, SetRemoteOffer, ReplayCandidates,
              CreateAnswer, AnswerFails, peer, rtcp
<1>4. CASE IceFails \/ Closing
  BY <1>4 DEF IceFails, Closing, CloseConnection, IceClosed, peer
<1>5. CASE GiveFeedback \/ RequestKeyFrame \/ TakeFeedback \/ TakeStop
  BY <1>5 DEF GiveFeedback, RequestKeyFrame, TakeFeedback, TakeStop, peer
<1>6. CASE UNCHANGED vars
  BY <1>6 DEF vars
<1>7. CASE (\E id \in Calls : ClientCalls(id)) \/ (\E c \in Candidates : ClientTrickles(c))
  BY <1>7 DEF ClientCalls, ClientTrickles, peer, rtcp
<1> QED
  BY <1>1, <1>2, <1>3, <1>4, <1>5, <1>6, <1>7 DEF Next

\* A step that responds to nobody, and after which the same calls are waiting.
LEMMA NobodyResponded ==
    ASSUME TypeOK, LifeInv, ResponseInv, [Next]_vars, responses' = responses,
           \A id \in Calls : Waiting(id)' <=> Waiting(id)
    PROVE  ResponseInv'
BY NothingIsUndone DEF ResponseInv

\* One that responds to a call that waits, and to no other.
LEMMA OneResponded ==
    ASSUME TypeOK, LifeInv, ResponseInv, [Next]_vars,
           NEW r \in Calls, Waiting(r), NEW result \in Results, Respond(r, result),
           \A id \in Calls : Waiting(id)' <=> Waiting(id) /\ id # r,
           result = "answer" => in_session,
           result = "ignored" => Failed
    PROVE  ResponseInv'
<1>1. responses \in [Calls -> Seq(Results)] /\ responses[r] = <<>>
  BY DEF TypeOK, Results, ResponseInv
<1>2. /\ responses'[r] # <<>> /\ Len(responses'[r]) = 1
      /\ responses'[r] = <<"answer">> => result = "answer"
      /\ responses'[r] = <<"ignored">> => result = "ignored"
  BY <1>1, FirstResponse DEF Results
<1>3. \A id \in Calls \ {r} : responses'[id] = responses[id]
  BY <1>1, RespondFacts
<1> SUFFICES ASSUME NEW id \in Calls
             PROVE  /\ Waiting(id)' => responses'[id] = <<>>
                    /\ ~Waiting(id)' /\ responses'[id] = <<>> => id \in Joins /\ Excused'
                    /\ Len(responses'[id]) <= 1
                    /\ responses'[id] = <<"answer">> => in_session'
                    /\ responses'[id] = <<"ignored">> => Failed'
  BY DEF ResponseInv
<1>4. CASE id = r
  <2>1. ~Waiting(r)'
    OBVIOUS
  <2>2. Len(responses'[r]) <= 1
    BY <1>2
  <2> QED
    BY <1>2, <1>4, <2>1, <2>2, NothingIsUndone
<1>5. CASE id # r
  BY <1>3, <1>5, NothingIsUndone DEF ResponseInv
<1> QED
  BY <1>4, <1>5

\* One that ends the call of a join without a response.
LEMMA JoinUnanswered ==
    ASSUME TypeOK, LifeInv, ResponseInv, [Next]_vars, responses' = responses,
           NEW r \in Joins, Excused',
           \A id \in Calls : Waiting(id)' <=> Waiting(id) /\ id # r
    PROVE  ResponseInv'
<1> USE NothingIsUndone DEF ResponseInv
<1> SUFFICES ASSUME NEW id \in Calls
             PROVE  ~Waiting(id)' /\ responses[id] = <<>> => id \in Joins /\ Excused'
  OBVIOUS
<1> QED
  OBVIOUS
\* What is sent waits before and after, and so does a call that is taken.
LEMMA SentResponse ==
    ASSUME TypeOK, LifeInv, PlaceInv, ResponseInv, [Next]_vars,
           \/ \E id \in Calls : ClientCalls(id)
           \/ \E c \in Candidates : ClientTrickles(c)
    PROVE  ResponseInv'
<1>0. Calls \cap Candidates = {}
  BY PublisherAssumption
<1>1. ASSUME NEW r \in Calls, ClientCalls(r) PROVE ResponseInv'
  <2>1. /\ r \in to_call /\ to_call' = to_call \ {r} /\ call' = call
        /\ requests' = Append(requests, r) /\ responses' = responses
    BY <1>1 DEF ClientCalls
  <2>2. \A id \in Calls : Waiting(id)' <=> Waiting(id)
    BY <2>1, SentPlaces DEF Waiting
  <2> QED
    BY <2>1, <2>2, NobodyResponded
<1>2. ASSUME NEW c \in Candidates, ClientTrickles(c) PROVE ResponseInv'
  <2>1. /\ to_call' = to_call /\ call' = call
        /\ requests' = Append(requests, c) /\ responses' = responses
    BY <1>2 DEF ClientTrickles
  <2>2. \A id \in Calls : Waiting(id)' <=> Waiting(id)
    BY <1>0, <2>1, SentPlaces DEF Waiting
  <2> QED
    BY <2>1, <2>2, NobodyResponded
<1> QED
  BY <1>1, <1>2

LEMMA ReceivedResponse ==
    ASSUME TypeOK, LifeInv, PlaceInv, ResponseInv, [Next]_vars, TakeRequest
    PROVE  ResponseInv'
<1>0. None \notin Calls /\ Calls \cap Candidates = {}
  BY PublisherAssumption
<1>1. ASSUME NEW r \in Calls, TakeCall(r) PROVE ResponseInv'
  <2>1. /\ Receives(r) /\ to_call' = to_call /\ call = None /\ call' = r
        /\ responses' = responses
    BY <1>1, RequestFacts DEF TakeCall
  <2>2. \A id \in Calls : Waiting(id)' <=> Waiting(id)
    BY <1>0, <2>1, ReceivedPlaces DEF Waiting
  <2> QED
    BY <2>1, <2>2, NobodyResponded
<1>2. ASSUME NEW r \in Calls, RejectParameters(r) PROVE ResponseInv'
  <2>1. /\ Receives(r) /\ to_call' = to_call /\ call = None /\ call' = call
        /\ Respond(r, "error")
    BY <1>2, RequestFacts DEF RejectParameters
  <2>2. Occurs(r, requests) /\ r \notin to_call
    BY <2>1, ReceivedPlaces DEF PlaceInv
  <2>3. \A id \in Calls : Waiting(id)' <=> Waiting(id) /\ id # r
    BY <1>0, <2>1, <2>2, ReceivedPlaces DEF Waiting
  <2> QED
    BY <2>1, <2>2, <2>3, OneResponded DEF Results, Waiting
<1>3. ASSUME NEW c \in Candidates,
             KeepCandidate(c) \/ AddCandidate(c) \/ CandidateRefused(c)
      PROVE  ResponseInv'
  <2>1. Receives(c) /\ to_call' = to_call /\ call' = call /\ responses' = responses
    BY <1>3 DEF KeepCandidate, AddCandidate, CandidateRefused
  <2>2. \A id \in Calls : Waiting(id)' <=> Waiting(id)
    BY <1>0, <2>1, ReceivedPlaces DEF Waiting
  <2> QED
    BY <2>1, <2>2, NobodyResponded
<1> QED
  BY <1>1, <1>2, <1>3 DEF TakeRequest

\* The end of the call in hand.
LEMMA CallEnds ==
    ASSUME TypeOK, PlaceInv, UNCHANGED client, call \in Calls, call' = None
    PROVE  \A id \in Calls : Waiting(id)' <=> Waiting(id) /\ id # call
BY PublisherAssumption DEF PlaceInv, Waiting, client

LEMMA RefusedResponse ==
    ASSUME TypeOK, LifeInv, PlaceInv, ResponseInv, [Next]_vars, UNCHANGED client,
           call \in Calls, NEW result \in Results, RefusedWith(result),
           call \in Joins => Excused', result # "answer",
           result = "ignored" => Failed
    PROVE  ResponseInv'
<1>1. /\ Waiting(call) /\ call' = None
      /\ \A id \in Calls : Waiting(id)' <=> Waiting(id) /\ id # call
  BY CallEnds DEF Waiting, RefusedWith
<1>2. CASE call \in Joins
  BY <1>1, <1>2, JoinUnanswered DEF RefusedWith
<1>3. CASE call \notin Joins
  BY <1>1, <1>3, OneResponded DEF RefusedWith
<1> QED
  BY <1>2, <1>3

LEMMA AnsweredResponse ==
    ASSUME TypeOK, LifeInv, PlaceInv, ResponseInv, [Next]_vars, UNCHANGED client,
           call \in Calls, NEW result \in Results, Answered(result),
           result = "answer" => in_session, result # "ignored"
    PROVE  ResponseInv'
<1>1. /\ Waiting(call) /\ call' = None /\ Respond(call, result)
      /\ \A id \in Calls : Waiting(id)' <=> Waiting(id) /\ id # call
  BY CallEnds DEF Waiting, Answered
<1> QED
  BY <1>1, OneResponded

\* A join is left without a response only where the peer has no publisher for it,
\* and none was asked for, or by a failure.
LEMMA AnswerStepResponse ==
    ASSUME TypeOK, LifeInv, PlaceInv, ResponseInv, [Next]_vars, AnswerStep
    PROVE  ResponseInv'
<1> USE DEF Results
<1>0. UNCHANGED client
  BY WithinPlaces DEF Within
<1>1. ASSUME at # "idle", at # "panicked" PROVE call \in Calls
  BY <1>1 DEF TypeOK
<1>2. CASE NoTransport
  <2>1. /\ at = "answer" /\ ~publisher /\ RefusedWith("none")
        /\ UNCHANGED <<session, config>>
    BY <1>2 DEF NoTransport, peer
  <2>2. call \in Joins => Excused'
    BY <2>1 DEF LifeInv, PhaseInv, Excused
  <2> QED
    BY <1>0, <1>1, <2>1, <2>2, RefusedResponse
<1>3. CASE OfferIgnored
  <2>1. /\ at = "answer" /\ publisher /\ signaling # "stable"
        /\ RefusedWith("ignored") /\ UNCHANGED <<session, ice, upset>>
    BY <1>3 DEF OfferIgnored, peer, rtcp
  <2>2. Failed
    BY <2>1 DEF LifeInv, ConnectionInv, FailedInv, Failed, TypeOK
  <2>3. call \in Joins => Excused'
    BY <2>1, <2>2 DEF LifeInv, PhaseInv, Excused, Failed
  <2> QED
    BY <1>0, <1>1, <2>1, <2>2, <2>3, RefusedResponse
<1>4. CASE AnswerFails
  <2>1. /\ at \in {"answer", "create"} /\ (at = "answer" => signaling = "stable")
        /\ RefusedWith("error") /\ upset' = TRUE /\ session' = session
    BY <1>4 DEF AnswerFails, peer
  <2>2. session
    BY <2>1 DEF LifeInv, PhaseInv, ConnectionInv
  <2> QED
    BY <1>0, <1>1, <2>1, <2>2, RefusedResponse DEF Excused, Failed
<1>5. CASE CreateAnswer
  <2>1. at = "create" /\ Answered("answer")
    BY <1>5 DEF CreateAnswer
  <2>2. in_session
    BY <2>1 DEF LifeInv, PhaseInv
  <2> QED
    BY <1>0, <1>1, <2>1, <2>2, AnsweredResponse
<1>6. CASE SetRemoteOffer \/ ReplayCandidates
  <2>1. call' = call /\ responses' = responses
    BY <1>6 DEF SetRemoteOffer, ReplayCandidates
  <2> QED
    BY <1>0, <2>1, NobodyResponded DEF Waiting, client
<1> QED
  BY <1>2, <1>3, <1>4, <1>5, <1>6 DEF AnswerStep

LEMMA ResponseStep ==
    ASSUME TypeOK, LifeInv, PlaceInv, ResponseInv, [Next]_vars
    PROVE  ResponseInv'
<1>1. CASE JoinAgain \/ JoinFails
  <2>1. at \notin {"idle", "panicked"} /\ (Answered("exists") \/ Answered("error"))
    BY <1>1 DEF JoinAgain, JoinFails
  <2>2. call \in Calls /\ UNCHANGED client
    BY <1>1, <2>1 DEF TypeOK, JoinAgain, JoinFails
  <2> QED
    BY <2>1, <2>2, AnsweredResponse DEF Results
<1>2. ASSUME Within, UNCHANGED <<call, responses>> PROVE ResponseInv'
  BY <1>2, WithinPlaces, NobodyResponded DEF Waiting, client
<1>3. CASE JoinStep
  <2>1. ASSUME \/ \E cfg \in JoinConfig : GetSession(cfg)
               \/ NewSubscriber \/ NewPublisher \/ EnterSession
        PROVE  UNCHANGED <<call, responses>>
    BY <2>1 DEF GetSession, NewSubscriber, NewPublisher, EnterSession
  <2> QED
    BY <1>1, <1>2, <1>3, <2>1 DEF JoinStep, Within
<1>4. CASE IceFails \/ Closing
  BY <1>2, <1>4 DEF IceFails, Closing, CloseConnection, IceClosed, Within
<1>5. CASE GiveFeedback \/ RequestKeyFrame \/ TakeFeedback \/ TakeStop
  BY <1>2, <1>5 DEF GiveFeedback, RequestKeyFrame, TakeFeedback, TakeStop, Within
<1>6. CASE UNCHANGED vars
  BY <1>2, <1>6 DEF vars, Within
<1> QED
  BY <1>3, <1>4, <1>5, <1>6, SentResponse, ReceivedResponse, AnswerStepResponse
     DEF Next
AnswerInv == TypeOK /\ LifeInv /\ PlaceInv /\ ResponseInv

LEMMA AnswerInvariant == Spec => []AnswerInv
<1>1. Init => AnswerInv
  BY InitType, InitLife, InitPlace, InitResponse DEF AnswerInv
<1>2. AnswerInv /\ [Next]_vars => AnswerInv'
  BY TypeStep, LifeStep, PlaceStep, ResponseStep DEF AnswerInv, LifeInv
<1> QED
  BY <1>1, <1>2, PTL DEF Spec

\* Of any number of joins and offers, each gets one response at most, one with an
\* answer once the peer is in its session, and none is left without but a join
\* whose offer met no publisher or one that refused it.
THEOREM CallsAreAnswered == Spec => []EveryCallIsAnswered
<1>1. AnswerInv => EveryCallIsAnswered
  <2> SUFFICES ASSUME AnswerInv, NEW id \in Calls
               PROVE  /\ Len(responses[id]) <= 1
                      /\ responses[id] = <<"answer">> => in_session
                      /\ id \in Handled /\ responses[id] = <<>> =>
                            id \in Joins /\ (Failed \/ config.no_publish)
    BY DEF EveryCallIsAnswered
  <2>1. id \in Handled => ~Waiting(id)
    BY DEF Handled, Waiting, Occurs
  <2> QED
    BY <2>1 DEF AnswerInv, ResponseInv, Excused
<1> QED
  BY <1>1, AnswerInvariant, PTL

\* However joins and offers follow each other, none meets the negotiation of another
\* that did not fail.
THEOREM OffersAreTaken == Spec => []IgnoredOnlyAfterAFailure
<1>1. AnswerInv => IgnoredOnlyAfterAFailure
  BY DEF AnswerInv, ResponseInv, IgnoredOnlyAfterAFailure
<1> QED
  BY <1>1, AnswerInvariant, PTL
-----------------------------------------------------------------------------
(* Candidates.                                                             *)

LEMMA KeptGrows ==
    ASSUME candidates \in Seq(Candidates), NEW c \in Candidates,
           candidates' = Append(candidates, c)
    PROVE  Kept' = Kept \cup {c}
<1>1. \A x : x \in Kept <=> Occurs(x, candidates)
  BY DEF Kept, Occurs
<1>2. \A x : x \in Kept' <=> Occurs(x, candidates')
  BY DEF Kept, Occurs
<1>3. \A x : Occurs(x, candidates') <=> Occurs(x, candidates) \/ x = c
  BY AppendOccurs
<1> QED
  BY <1>1, <1>2, <1>3

LEMMA InitCandidate == Init => CandidateInv
BY DEF Init, CandidateInv

\* A request that is taken and is a candidate is kept, or the handler panics on it.
LEMMA TakeRequestCandidate ==
    ASSUME TypeOK, CandidateInv, TakeRequest
    PROVE  CandidateInv'
<1> USE DEF CandidateInv
<1>0. Calls \cap Candidates = {} /\ candidates \in Seq(Candidates)
  BY PublisherAssumption DEF TypeOK
<1>1. ASSUME NEW r, Receives(r), NEW c \in Candidates
      PROVE  Occurs(c, requests) => Occurs(c, requests') \/ c = r
  <2>1. /\ requests \in Seq(Calls \cup Candidates) /\ requests # <<>>
        /\ requests' = Tail(requests) /\ Head(requests) = r
    BY <1>1, RequestFacts
  <2> QED
    BY <2>1, TailOccurs
<1>2. ASSUME NEW r \in Calls, TakeCall(r) \/ RejectParameters(r) PROVE CandidateInv'
  <2>1. /\ Receives(r) /\ at = "idle" /\ at' # "replay"
        /\ UNCHANGED <<to_send, candidates, applied, signaling, remote_description>>
    BY <1>2, RequestFacts DEF TakeCall, RejectParameters, connection
  <2>2. Kept' = Kept
    BY <2>1 DEF Kept
  <2> QED
    BY <1>0, <1>1, <2>1, <2>2
<1>3. ASSUME NEW c \in Candidates, KeepCandidate(c) \/ AddCandidate(c)
      PROVE  CandidateInv'
  <2>1. /\ Receives(c) /\ at = "idle" /\ at' = at /\ to_send' = to_send
        /\ candidates' = Append(candidates, c)
        /\ UNCHANGED <<signaling, remote_description>>
    BY <1>3, RequestFacts DEF KeepCandidate, AddCandidate, connection
  <2>2. Kept' = Kept \cup {c}
    BY <1>0, <2>1, KeptGrows
  <2>3. remote_description => applied' = applied \cup {c}
    BY <1>3 DEF KeepCandidate, AddCandidate
  <2> QED
    BY <1>1, <2>1, <2>2, <2>3
<1>4. ASSUME NEW c \in Candidates, CandidateRefused(c) PROVE CandidateInv'
  <2>1. /\ at' = "panicked" /\ at = "idle"
        /\ UNCHANGED <<candidates, applied, signaling, remote_description>>
    BY <1>4, RequestFacts DEF CandidateRefused, connection
  <2> QED
    BY <2>1 DEF Kept
<1> QED
  BY <1>2, <1>3, <1>4 DEF TakeRequest

LEMMA CandidateStep == TypeOK /\ LifeInv /\ CandidateInv /\ [Next]_vars => CandidateInv'
<1> SUFFICES ASSUME TypeOK, LifeInv, CandidateInv, [Next]_vars PROVE CandidateInv'
  OBVIOUS
<1> USE DEF CandidateInv
<1>1. (\E id \in Calls : ClientCalls(id)) \/ (\E c \in Candidates : ClientTrickles(c))
          => CandidateInv'
  <2>1. ASSUME NEW r \in Calls \cup Candidates, requests' = Append(requests, r),
               to_send \ {r} \subseteq to_send',
               UNCHANGED <<at, candidates, applied, signaling, remote_description>>
        PROVE  CandidateInv'
    <3>1. \A c \in Candidates : Occurs(c, requests') <=> Occurs(c, requests) \/ c = r
      BY <2>1, AppendOccurs DEF TypeOK
    <3> QED
      BY <2>1, <3>1 DEF Kept
  <2> QED
    BY <2>1 DEF ClientCalls, ClientTrickles, connection
<1>2. CASE Within
  <2>1. UNCHANGED <<requests, to_send>>
    BY <1>2, WithinPlaces DEF client
  <2>2. UNCHANGED candidates
    BY <1>2 DEF Within, JoinStep, JoinAgain, GetSession, NewSubscriber, JoinFails,
                NewPublisher, EnterSession, AnswerStep, NoTransport, OfferIgnored,
                SetRemoteOffer, ReplayCandidates, CreateAnswer, AnswerFails, IceFails,
                Closing, CloseConnection, IceClosed, GiveFeedback, RequestKeyFrame,
                TakeFeedback, TakeStop, vars
  <2>3. Kept' = Kept
    BY <2>2 DEF Kept
  <2>4. at' = "panicked" <=> at = "panicked"
    BY <1>2 DEF Within, JoinStep, JoinAgain, GetSession, NewSubscriber, JoinFails,
                NewPublisher, EnterSession, AnswerStep, NoTransport, OfferIgnored,
                SetRemoteOffer, ReplayCandidates, CreateAnswer, AnswerFails, IceFails,
                Closing, CloseConnection, IceClosed, GiveFeedback, RequestKeyFrame,
                TakeFeedback, TakeStop, vars, AfterSubscriber, Answered, RefusedWith
  <2>5. remote_description' /\ at' # "replay" /\ signaling' # "closed" =>
            Kept' \ Refused \subseteq applied'
    <3>1. CASE JoinStep
      BY <2>3, <3>1 DEF JoinStep, JoinAgain, GetSession, NewSubscriber, JoinFails,
                NewPublisher, EnterSession, LifeInv, PhaseInv, ConnectionInv, connection
    <3>2. CASE AnswerStep
      BY <2>3, <3>2 DEF AnswerStep, NoTransport, OfferIgnored, SetRemoteOffer,
                ReplayCandidates, CreateAnswer, AnswerFails, connection
    <3>3. CASE IceFails \/ Closing
      BY <2>3, <3>3 DEF IceFails, Closing, CloseConnection, IceClosed, connection
    <3>4. CASE GiveFeedback \/ RequestKeyFrame \/ TakeFeedback \/ TakeStop
      BY <2>3, <3>4 DEF GiveFeedback, RequestKeyFrame, TakeFeedback, TakeStop, connection
    <3>5. CASE UNCHANGED vars
      BY <2>3, <3>5 DEF vars
    <3> QED
      BY <1>2, <3>1, <3>2, <3>3, <3>4, <3>5 DEF Within
  <2> QED
    BY <2>1, <2>3, <2>4, <2>5
<1> QED
  BY <1>1, <1>2, TakeRequestCandidate, NextIs

\* Every candidate that came reaches the connection with its remote description,
\* however candidates, joins and offers follow each other.
THEOREM CandidatesReach == Spec => []CandidatesReachTheConnection
<1>1. Init => TypeOK /\ LifeInv /\ CandidateInv
  BY InitType, InitLife, InitCandidate
<1>2. TypeOK /\ LifeInv /\ CandidateInv /\ [Next]_vars =>
          TypeOK' /\ LifeInv' /\ CandidateInv'
  BY TypeStep, LifeStep, CandidateStep DEF LifeInv
<1>3. CandidateInv => CandidatesReachTheConnection
  BY DEF CandidateInv, CandidatesReachTheConnection, Occurs
<1> QED
  BY <1>1, <1>2, <1>3, PTL DEF Spec
=============================================================================
