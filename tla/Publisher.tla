----------------------------- MODULE Publisher ------------------------------
(***************************************************************************)
(* The life of a peer's publisher connection (rsfu/src/sfu/peer.rs,        *)
(* publisher.rs, router.rs) and the calls of its client that make and      *)
(* negotiate it (app/jrpc2-server/src/server/signal.rs).                   *)
(*                                                                         *)
(* The handler takes one request of the client after the other: a call     *)
(* (join, offer) has an id and wants a response, a candidate is a          *)
(* notification without one.  Beside it run the callback of the webrtc     *)
(* crate that closes the connection when ICE fails, the buffers of the     *)
(* tracks, which put feedback for the publisher into a channel, and the    *)
(* task that takes it out (send_rtcp).  What may fail in the crate is a    *)
(* choice, as is what the client joins for.  What a join does to the other *)
(* peers of the session is in Room, the subscriber's side of the           *)
(* signalling in Negotiation.                                              *)
(***************************************************************************)
EXTENDS Naturals, Sequences

CONSTANTS
    Joins,       \* the ids of the client's calls of join
    Offers,      \* and of offer
    Candidates,  \* the ICE candidates it sends for the publisher
    Refused,     \* those that the connection does not accept
    MaxFeedback, \* how much feedback waits in the channel
    None         \* no call is being handled

Calls == Joins \cup Offers

JoinConfig == [no_publish : BOOLEAN, no_subscribe : BOOLEAN]

ASSUME PublisherAssumption ==
    /\ Joins \cap Offers = {}
    /\ None \notin Calls /\ Calls \cap Candidates = {}
    /\ Refused \subseteq Candidates
    /\ MaxFeedback \in Nat \ {0}

VARIABLES
    at, call,            \* where the handler stands, and the call it handles
    requests,            \* requests on their way
    to_call, to_send,    \* the calls and candidates the client may still send
    responses,           \* what came back for each call
    config,              \* what the join that made the peer asked for
    session, subscriber, publisher,  \* whether the peer has each of them
    in_session,          \* the peer is in its session's map
    signaling, remote_description, applied,  \* the publisher's connection
    candidates,          \* the candidates the publisher keeps
    ice,                 \* the connection's ICE, and the callback on its state
    feedback, stop,      \* what the two channels of the router hold
    writer,              \* the task of send_rtcp
    upset                \* history: the crate refused a step of an answer

vars == <<at, call, requests, to_call, to_send, responses, config, session,
          subscriber, publisher, in_session, signaling, remote_description,
          applied, candidates, ice, feedback, stop, writer, upset>>

client     == <<requests, to_call, to_send>>
peer       == <<config, session, subscriber, publisher, in_session>>
connection == <<signaling, remote_description, applied>>
rtcp       == <<ice, feedback, stop, writer>>

Init ==
    /\ at = "idle" /\ call = None
    /\ requests = <<>> /\ to_call = Calls /\ to_send = Candidates
    /\ responses = [id \in Calls |-> <<>>]
    /\ config = [no_publish |-> FALSE, no_subscribe |-> FALSE]
    /\ session = FALSE /\ subscriber = FALSE /\ publisher = FALSE
    /\ in_session = FALSE
    /\ signaling = "none" /\ remote_description = FALSE /\ applied = {}
    /\ candidates = <<>>
    /\ ice = "none" /\ feedback = 0 /\ stop = 0 /\ writer = "none"
    /\ upset = FALSE
-----------------------------------------------------------------------------
(* The client.  It sends no candidate before its first call.               *)

ClientCalls(id) ==
    /\ id \in to_call
    /\ to_call' = to_call \ {id}
    /\ requests' = Append(requests, id)
    /\ UNCHANGED <<at, call, to_send, responses, peer, connection, candidates,
                   rtcp, upset>>

ClientTrickles(c) ==
    /\ to_call # Calls
    /\ c \in to_send
    /\ to_send' = to_send \ {c}
    /\ requests' = Append(requests, c)
    /\ UNCHANGED <<at, call, to_call, responses, peer, connection, candidates,
                   rtcp, upset>>
-----------------------------------------------------------------------------
(* The handler: a call is taken, handled by steps and responded to.        *)

Receives(request) ==
    /\ at = "idle"
    /\ requests # <<>>
    /\ Head(requests) = request
    /\ requests' = Tail(requests)

Respond(id, result) == responses' = [responses EXCEPT ![id] = Append(@, result)]

\* The end of the call in hand, with a response.
Answered(result) ==
    /\ Respond(call, result)
    /\ at' = "idle" /\ call' = None

TakeCall(id) ==
    /\ Receives(id)
    /\ call' = id
    /\ at' = IF id \in Joins THEN "join" ELSE "answer"
    /\ UNCHANGED <<to_call, to_send, responses, peer, connection, candidates,
                   rtcp, upset>>

\* The parameters are not those of the method.
RejectParameters(id) ==
    /\ Receives(id)
    /\ Respond(id, "error")
    /\ UNCHANGED <<at, call, to_call, to_send, peer, connection, candidates,
                   rtcp, upset>>

\* ErrTransportExists: the peer has a session.
JoinAgain ==
    /\ at = "join" /\ session
    /\ Answered("exists")
    /\ UNCHANGED <<client, peer, connection, candidates, rtcp, upset>>

\* Where join goes on once the peer has what of the subscriber it asked for.
AfterSubscriber(cfg) == IF cfg.no_publish THEN "enter" ELSE "publisher"

GetSession(cfg) ==
    /\ at = "join" /\ ~session
    /\ config' = cfg
    /\ session' = TRUE
    /\ at' = IF cfg.no_subscribe THEN AfterSubscriber(cfg) ELSE "subscriber"
    /\ UNCHANGED <<call, client, responses, subscriber, publisher, in_session,
                   connection, candidates, rtcp, upset>>

NewSubscriber ==
    /\ at = "subscriber"
    /\ subscriber' = TRUE
    /\ at' = AfterSubscriber(config)
    /\ UNCHANGED <<call, client, responses, config, session, publisher, in_session,
                   connection, candidates, rtcp, upset>>

\* Subscriber::new, a data channel or Publisher::new fails: what was set stays.
JoinFails ==
    /\ at \in {"subscriber", "publisher"}
    /\ Answered("error")
    /\ UNCHANGED <<client, peer, connection, candidates, rtcp, upset>>

\* The connection, its callbacks, and the task that sends its RTCP.
NewPublisher ==
    /\ at = "publisher"
    /\ publisher' = TRUE
    /\ signaling' = "stable"
    /\ ice' = "up"
    /\ writer' = "running"
    /\ at' = "enter"
    /\ UNCHANGED <<call, client, responses, config, session, subscriber, in_session,
                   remote_description, applied, candidates, feedback, stop, upset>>

\* add_peer and subscribe.
EnterSession ==
    /\ at = "enter"
    /\ in_session' = TRUE
    /\ at' = "answer"
    /\ UNCHANGED <<call, client, responses, config, session, subscriber, publisher,
                   connection, candidates, rtcp, upset>>
-----------------------------------------------------------------------------
(* PeerLocal::answer and Publisher::answer, for a join and for an offer.   *)

\* Slip: an offer that is refused is not responded to either.
RefusedSilently(result) ==
    /\ at' = "idle" /\ call' = None
    /\ UNCHANGED responses
\* A join whose offer is refused gets no response (signal.rs:150).
RefusedWith(result) ==
    /\ at' = "idle" /\ call' = None
    /\ IF call \in Joins THEN UNCHANGED responses ELSE Respond(call, result)

NoTransport ==
    /\ at = "answer" /\ ~publisher
    /\ RefusedWith("none")
    /\ UNCHANGED <<client, peer, connection, candidates, rtcp, upset>>

\* ErrOfferIgnored.
OfferIgnored ==
    /\ at = "answer" /\ publisher
    /\ signaling # "stable"
    /\ RefusedWith("ignored")
    /\ UNCHANGED <<client, peer, connection, candidates, rtcp, upset>>

SetRemoteOffer ==
    /\ at = "answer" /\ publisher
    /\ signaling = "stable"
    /\ signaling' = "have-remote-offer"
    /\ remote_description' = TRUE
    /\ at' = "replay"
    /\ UNCHANGED <<call, client, responses, peer, applied, candidates, rtcp, upset>>

Kept == {candidates[i] : i \in DOMAIN candidates}

\* All that were kept are given to the connection, again if need be; those it
\* refuses, and all of them once it is closed, are logged.
ReplayCandidates ==
    /\ at = "replay"
    /\ applied' = IF signaling = "closed" THEN applied
                  ELSE applied \cup (Kept \ Refused)
    /\ at' = "create"
    /\ UNCHANGED <<call, client, responses, peer, signaling, remote_description,
                   candidates, rtcp, upset>>

\* Slip: the answer is sent and not set.
CreateAnswerOnly ==
    /\ at = "create"
    /\ signaling = "have-remote-offer"
    /\ Answered("answer")
    /\ UNCHANGED <<client, peer, connection, candidates, rtcp, upset>>

\* create_answer and set_local_description.
CreateAnswer ==
    /\ at = "create"
    /\ signaling = "have-remote-offer"
    /\ signaling' = "stable"
    /\ Answered("answer")
    /\ UNCHANGED <<client, peer, remote_description, applied, candidates, rtcp,
                   upset>>

\* The crate refuses the offer, or cannot make an answer to it: the connection
\* stays as it is.
AnswerFails ==
    /\ \/ at = "answer" /\ signaling = "stable"
       \/ at = "create"
    /\ upset' = TRUE
    /\ RefusedWith("error")
    /\ UNCHANGED <<client, peer, connection, candidates, rtcp>>
-----------------------------------------------------------------------------
(* trickle, for the publisher.                                             *)

\* Slip: the candidate that comes before the offer is given up.
KeepCandidateNot(c) ==
    /\ Receives(c)
    /\ subscriber /\ publisher /\ ~remote_description
    /\ UNCHANGED <<at, call, to_call, to_send, responses, peer, connection,
                   candidates, rtcp, upset>>

KeepCandidate(c) ==
    /\ Receives(c)
    /\ subscriber /\ publisher /\ ~remote_description
    /\ candidates' = Append(candidates, c)
    /\ UNCHANGED <<at, call, to_call, to_send, responses, peer, connection, rtcp,
                   upset>>

AddCandidate(c) ==
    /\ Receives(c)
    /\ subscriber /\ publisher /\ remote_description
    /\ signaling # "closed" /\ c \notin Refused
    /\ applied' = applied \cup {c}
    /\ candidates' = Append(candidates, c)
    /\ UNCHANGED <<at, call, to_call, to_send, responses, peer, signaling,
                   remote_description, rtcp, upset>>

\* No connection, a closed one, or a refused candidate: an error is responded to
\* a request without an id, which panics (signal.rs:80).
CandidateRefused(c) ==
    /\ Receives(c)
    /\ \/ ~(subscriber /\ publisher)
       \/ remote_description /\ (signaling = "closed" \/ c \in Refused)
    /\ at' = "panicked"
    /\ UNCHANGED <<call, to_call, to_send, responses, peer, connection, candidates,
                   rtcp, upset>>
-----------------------------------------------------------------------------
(* The callback on the ICE state, which closing the connection calls again, *)
(* and the RTCP of the router.                                             *)

StopRouter == stop' = stop + 1

\* close_with_parameters: first the router is stopped.
IceFails ==
    /\ ice = "up"
    /\ ice' = "failed"
    /\ StopRouter
    /\ UNCHANGED <<at, call, client, responses, peer, connection, candidates,
                   feedback, writer, upset>>

CloseConnection ==
    /\ ice = "failed"
    /\ ice' = "closed"
    /\ signaling' = "closed"
    /\ UNCHANGED <<at, call, client, responses, peer, remote_description, applied,
                   candidates, feedback, stop, writer, upset>>

\* Slip: closing what is closed is a change of state again.
IceClosedAgain ==
    /\ ice = "closed"
    /\ StopRouter
    /\ UNCHANGED <<at, call, client, responses, peer, connection, candidates,
                   ice, feedback, writer, upset>>

\* The state is now Closed: the router is stopped again.
IceClosed ==
    /\ ice = "closed"
    /\ ice' = "over"
    /\ StopRouter
    /\ UNCHANGED <<at, call, client, responses, peer, connection, candidates,
                   feedback, writer, upset>>

\* The channel has no bound in the code.
PutFeedback ==
    /\ feedback < MaxFeedback
    /\ feedback' = feedback + 1

\* A buffer of a track.
GiveFeedback ==
    /\ remote_description
    /\ PutFeedback
    /\ UNCHANGED <<at, call, client, responses, peer, connection, candidates,
                   ice, stop, writer, upset>>

\* A down track wants a key frame: send_rtcp of the receiver, which is there once
\* the peer publishes in its session.  A request that comes within 500 ms of the
\* last one changes nothing.
RequestKeyFrame ==
    /\ remote_description /\ in_session
    /\ PutFeedback
    /\ UNCHANGED <<at, call, client, responses, peer, connection, candidates,
                   ice, stop, writer, upset>>

\* What is taken out is given to the writer, whose future is dropped unpolled.
TakeFeedback ==
    /\ writer = "running" /\ feedback > 0
    /\ feedback' = feedback - 1
    /\ UNCHANGED <<at, call, client, responses, peer, connection, candidates,
                   ice, stop, writer, upset>>

\* Slip: the loop goes on after the stop.
TakeStopOnly ==
    /\ writer = "running" /\ stop > 0
    /\ stop' = stop - 1
    /\ UNCHANGED <<at, call, client, responses, peer, connection, candidates,
                   ice, feedback, writer, upset>>

TakeStop ==
    /\ writer = "running" /\ stop > 0
    /\ stop' = stop - 1
    /\ writer' = "ended"
    /\ UNCHANGED <<at, call, client, responses, peer, connection, candidates,
                   ice, feedback, upset>>

JoinStep   == JoinAgain \/ (\E cfg \in JoinConfig : GetSession(cfg)) \/ NewSubscriber
              \/ JoinFails \/ NewPublisher \/ EnterSession
AnswerStep == NoTransport \/ OfferIgnored \/ SetRemoteOffer \/ ReplayCandidates
              \/ CreateAnswer \/ AnswerFails

TakeRequest ==
    \/ \E id \in Calls : TakeCall(id) \/ RejectParameters(id)
    \/ \E c \in Candidates : KeepCandidate(c) \/ AddCandidate(c) \/ CandidateRefused(c)

Closing == CloseConnection \/ IceClosed

Next ==
    \/ \E id \in Calls : ClientCalls(id)
    \/ \E c \in Candidates : ClientTrickles(c)
    \/ TakeRequest
    \/ JoinStep
    \/ AnswerStep
    \/ IceFails
    \/ Closing
    \/ GiveFeedback
    \/ RequestKeyFrame
    \/ TakeFeedback
    \/ TakeStop

\* The handler and the callback go on; select! takes either channel that is ready,
\* at random, so that one that stays ready is taken at last.
Fairness ==
    /\ WF_vars(TakeRequest)
    /\ WF_vars(JoinStep)
    /\ WF_vars(AnswerStep)
    /\ WF_vars(Closing)
    /\ WF_vars(TakeFeedback \/ TakeStop)
    /\ SF_vars(TakeStop)

Spec == Init /\ [][Next]_vars /\ Fairness
-----------------------------------------------------------------------------
(* Properties.                                                             *)

TypeOK ==
    /\ at \in {"idle", "join", "subscriber", "publisher", "enter", "answer",
               "replay", "create", "panicked"}
    /\ call \in Calls \cup {None}
    /\ call = None <=> at \in {"idle", "panicked"}
    /\ requests \in Seq(Calls \cup Candidates)
    /\ to_call \subseteq Calls /\ to_send \subseteq Candidates
    /\ responses \in [Calls -> Seq({"answer", "error", "exists", "none", "ignored"})]
    /\ signaling \in {"none", "stable", "have-remote-offer", "closed"}
    /\ candidates \in Seq(Candidates) /\ applied \subseteq Candidates \ Refused
    /\ ice \in {"none", "up", "failed", "closed", "over"}
    /\ feedback \in 0 .. MaxFeedback /\ stop \in 0 .. 2
    /\ writer \in {"none", "running", "ended"}
    /\ config \in JoinConfig
    /\ {session, subscriber, publisher, in_session, remote_description, upset}
           \subseteq BOOLEAN

\* The calls that the handler has taken and finished.
Handled ==
    {id \in Calls \ to_call :
        call # id /\ \A i \in DOMAIN requests : requests[i] # id}

\* The connection failed, or an offer was refused or left half answered.
Failed == upset \/ ice \in {"failed", "closed", "over"}

\* The client is never left with a call that was handled and not responded to, nor
\* answered twice, whatever failed on the way, and who gets an answer is in its
\* session; but a join whose offer meets no publisher or one that refuses it is not
\* responded to, which takes a join that publishes nothing, or a failure.
EveryCallIsAnswered ==
    \A id \in Calls :
        /\ Len(responses[id]) <= 1
        /\ responses[id] = <<"answer">> => in_session
        /\ id \in Handled /\ responses[id] = <<>> =>
              id \in Joins /\ (Failed \/ config.no_publish)

\* An offer is ignored, as one that comes "in unstable state" (errors.rs:17), only
\* after a failure: however offers and joins follow each other, none meets
\* another's negotiation.
IgnoredOnlyAfterAFailure ==
    \A id \in Calls : responses[id] = <<"ignored">> => Failed

\* Between two requests, every candidate received that the connection accepts has
\* reached it once it has a remote description, in whatever order candidates,
\* joins and offers came, refused ones included.
CandidatesReachTheConnection ==
    at = "idle" /\ remote_description /\ signaling # "closed" =>
        \A c \in Candidates \ (to_send \cup Refused) :
            c \in applied \/ \E i \in DOMAIN requests : requests[i] = c

\* Once ICE has failed, the task that sends RTCP ends, however much feedback the
\* buffers go on giving it.
WriterEnds == ice = "failed" ~> writer = "ended"
=============================================================================
