---------------------------- MODULE Negotiation -----------------------------
(***************************************************************************)
(* The offers of one peer's subscriber (rsfu/src/sfu/peer.rs,              *)
(* subscriber.rs) and the requests of its client that concern it           *)
(* (app/jrpc2-server/src/server/signal.rs).                                *)
(*                                                                         *)
(* Tasks of other peers change what the subscriber's connection carries (a *)
(* down track added or removed, a data channel) and then call negotiate;   *)
(* the handler of the client's requests, which takes them one at a time,   *)
(* calls it too.  Negotiate holds the lock of on_negotiate_handler from    *)
(* beginning to end; the two flags are read and written without a lock.    *)
(* The peer connection is of another crate: create_offer offers everything *)
(* added so far and leaves the connection waiting for an answer.           *)
(***************************************************************************)
EXTENDS Naturals, Sequences, FiniteSets

CONSTANTS
    Changes,     \* the changes, each made and negotiated by a task of its own
    Handler,     \* the handler of the client's requests
    Candidates,  \* the ICE candidates the client sends for the subscriber
    Refused,     \* those that the connection does not accept
    None         \* nobody holds the lock

ASSUME NegotiationAssumption ==
    /\ Handler \notin Changes
    /\ None \notin Changes \cup {Handler}
    /\ Refused \subseteq Candidates

Tasks == Changes \cup {Handler}

VARIABLES
    at,                     \* where each task stands
    negotiating,            \* the holder of on_negotiate_handler's lock
    remote_answer_pending,
    negotiation_pending,
    added,                  \* the changes made to the connection
    offered,                \* those an offer has been made of
    signaling,              \* the connection: "stable" or "have-local-offer"
    remote_description,     \* the connection: an answer has been set
    candidates,             \* the queue of candidates
    applied,                \* the candidates given to the connection
    to_client,              \* offers on their way
    from_client,            \* answers and candidates on their way
    to_send                 \* the candidates the client has still to send

vars == <<at, negotiating, remote_answer_pending, negotiation_pending, added,
          offered, signaling, remote_description, candidates, applied,
          to_client, from_client, to_send>>

connection == <<signaling, remote_description, applied>>
flags      == <<remote_answer_pending, negotiation_pending>>
network    == <<to_client, from_client, to_send>>

Answer     == [type |-> "answer"]
Trickle(c) == [type |-> "trickle", candidate |-> c]

Init ==
    /\ at = [t \in Tasks |-> "idle"]
    /\ negotiating = None
    /\ remote_answer_pending = FALSE
    /\ negotiation_pending = FALSE
    /\ added = {}
    /\ offered = {}
    /\ signaling = "stable"
    /\ remote_description = FALSE
    /\ candidates = <<>>
    /\ applied = {}
    /\ to_client = <<>>
    /\ from_client = <<>>
    /\ to_send = Candidates

MoveTo(t, step) == at' = [at EXCEPT ![t] = step]
-----------------------------------------------------------------------------
(* A change of the connection, and negotiate.                              *)

Change(t) ==
    /\ at[t] = "idle"
    /\ added' = added \cup {t}
    /\ MoveTo(t, "negotiate")
    /\ UNCHANGED <<negotiating, flags, offered, connection, candidates, network>>

\* Slip: an offer is made whether or not the last one was answered.
NegotiateAlways(t) ==
    /\ at[t] = "negotiate"
    /\ negotiating = None
    /\ negotiating' = t
    /\ MoveTo(t, "offer")
    /\ UNCHANGED <<flags, added, offered, connection, candidates, network>>

\* The lock is taken and remote_answer_pending read.
Negotiate(t) ==
    /\ at[t] = "negotiate"
    /\ negotiating = None
    /\ negotiating' = t
    /\ MoveTo(t, IF remote_answer_pending THEN "defer" ELSE "offer")
    /\ UNCHANGED <<flags, added, offered, connection, candidates, network>>

\* Slip: the handler does not come back to the next request.
NegotiatedForGood(t) == "done"
Negotiated(t) == IF t = Handler THEN "idle" ELSE "done"

\* An offer is already out: note that another is wanted.
Defer(t) ==
    /\ at[t] = "defer"
    /\ negotiation_pending' = TRUE
    /\ negotiating' = None
    /\ MoveTo(t, Negotiated(t))
    /\ UNCHANGED <<remote_answer_pending, added, offered, connection,
                   candidates, network>>

\* Slip: the offer made before is sent again.
CreateOfferAgain(t) ==
    /\ at[t] = "offer"
    /\ signaling' = "have-local-offer"
    /\ MoveTo(t, "send")
    /\ UNCHANGED <<negotiating, flags, added, offered, remote_description,
                   candidates, applied, network>>

\* create_offer and set_local_description.
CreateOffer(t) ==
    /\ at[t] = "offer"
    /\ signaling' = "have-local-offer"
    /\ offered' = added
    /\ MoveTo(t, "send")
    /\ UNCHANGED <<negotiating, flags, added, remote_description, candidates,
                   applied, network>>

\* Slip: the flag is not set.
SendOfferUnflagged(t) ==
    /\ at[t] = "send"
    /\ to_client' = Append(to_client, offered)
    /\ negotiating' = None
    /\ MoveTo(t, Negotiated(t))
    /\ UNCHANGED <<flags, added, offered, connection, candidates,
                   from_client, to_send>>

\* The flag is set before the offer is sent.
SendOffer(t) ==
    /\ at[t] = "send"
    /\ remote_answer_pending' = TRUE
    /\ to_client' = Append(to_client, offered)
    /\ negotiating' = None
    /\ MoveTo(t, Negotiated(t))
    /\ UNCHANGED <<negotiation_pending, added, offered, connection, candidates,
                   from_client, to_send>>
-----------------------------------------------------------------------------
(* The handler of the client's requests, set_remote_description by steps.  *)

Receives(msg) ==
    /\ at[Handler] = "idle"
    /\ from_client # <<>>
    /\ Head(from_client) = msg
    /\ from_client' = Tail(from_client)

SetRemoteDescription ==
    /\ Receives(Answer)
    /\ signaling' = "stable"
    /\ remote_description' = TRUE
    /\ MoveTo(Handler, "drain")
    /\ UNCHANGED <<negotiating, flags, added, offered, candidates, applied,
                   to_client, to_send>>

\* The candidates of the queue given to the connection until one is refused.
Accepted ==
    {candidates[i] : i \in {j \in DOMAIN candidates :
                               \A k \in 1 .. j : candidates[k] \notin Refused}}

AddQueuedCandidates ==
    /\ at[Handler] = "drain"
    /\ \A i \in DOMAIN candidates : candidates[i] \notin Refused
    /\ applied' = applied \cup Accepted
    /\ candidates' = <<>>
    /\ MoveTo(Handler, "clear")
    /\ UNCHANGED <<negotiating, flags, added, offered, signaling,
                   remote_description, network>>

\* The error is answered to a request without an id, which panics (signal.rs:80).
QueuedCandidateRefused ==
    /\ at[Handler] = "drain"
    /\ \E i \in DOMAIN candidates : candidates[i] \in Refused
    /\ applied' = applied \cup Accepted
    /\ MoveTo(Handler, "panicked")
    /\ UNCHANGED <<negotiating, flags, added, offered, signaling,
                   remote_description, candidates, network>>

\* Slip: the deferred negotiation is looked for before the flag is cleared.
ClearAnswerPendingLate ==
    /\ at[Handler] = "clear"
    /\ remote_answer_pending' = negotiation_pending
    /\ MoveTo(Handler, "check")
    /\ UNCHANGED <<negotiating, negotiation_pending, added, offered, connection,
                   candidates, network>>

ClearAnswerPending ==
    /\ at[Handler] = "clear"
    /\ remote_answer_pending' = FALSE
    /\ MoveTo(Handler, "check")
    /\ UNCHANGED <<negotiating, negotiation_pending, added, offered, connection,
                   candidates, network>>

\* Slip: the flag is cleared and the negotiation it asks for not begun.
CheckNegotiationPendingOnly ==
    /\ at[Handler] = "check"
    /\ negotiation_pending' = FALSE
    /\ MoveTo(Handler, "idle")
    /\ UNCHANGED <<negotiating, remote_answer_pending, added, offered,
                   connection, candidates, network>>

CheckNegotiationPending ==
    /\ at[Handler] = "check"
    /\ MoveTo(Handler, IF negotiation_pending THEN "reset" ELSE "idle")
    /\ UNCHANGED <<negotiating, flags, added, offered, connection, candidates,
                   network>>

ResetNegotiationPending ==
    /\ at[Handler] = "reset"
    /\ negotiation_pending' = FALSE
    /\ MoveTo(Handler, "negotiate")
    /\ UNCHANGED <<negotiating, remote_answer_pending, added, offered,
                   connection, candidates, network>>

\* Slip: the candidate is queued whether or not the queue has been emptied.
QueueCandidateAlways(c) ==
    /\ Receives(Trickle(c))
    /\ candidates' = Append(candidates, c)
    /\ UNCHANGED <<at, negotiating, flags, added, offered, connection,
                   to_client, to_send>>

\* trickle: kept for later, given to the connection, or refused by it.
QueueCandidate(c) ==
    /\ Receives(Trickle(c))
    /\ ~remote_description
    /\ candidates' = Append(candidates, c)
    /\ UNCHANGED <<at, negotiating, flags, added, offered, connection,
                   to_client, to_send>>

AddCandidate(c) ==
    /\ Receives(Trickle(c))
    /\ remote_description
    /\ c \notin Refused
    /\ applied' = applied \cup {c}
    /\ UNCHANGED <<at, negotiating, flags, added, offered, signaling,
                   remote_description, candidates, to_client, to_send>>

CandidateRefused(c) ==
    /\ Receives(Trickle(c))
    /\ remote_description
    /\ c \in Refused
    /\ MoveTo(Handler, "panicked")
    /\ UNCHANGED <<negotiating, flags, added, offered, connection, candidates,
                   to_client, to_send>>
-----------------------------------------------------------------------------
(* The client.  The first offer makes it gather candidates.                *)

ClientAnswers ==
    /\ to_client # <<>>
    /\ to_client' = Tail(to_client)
    /\ from_client' = Append(from_client, Answer)
    /\ UNCHANGED <<at, negotiating, flags, added, offered, connection,
                   candidates, to_send>>

ClientTrickles(c) ==
    /\ to_client # <<>> \/ remote_description
    /\ c \in to_send
    /\ to_send' = to_send \ {c}
    /\ from_client' = Append(from_client, Trickle(c))
    /\ UNCHANGED <<at, negotiating, flags, added, offered, connection,
                   candidates, to_client>>

NegotiateStep(t) == Negotiate(t) \/ Defer(t) \/ CreateOffer(t) \/ SendOffer(t)

HandlerStep ==
    \/ SetRemoteDescription
    \/ AddQueuedCandidates
    \/ QueuedCandidateRefused
    \/ ClearAnswerPending
    \/ CheckNegotiationPending
    \/ ResetNegotiationPending
    \/ \E c \in Candidates : \/ QueueCandidate(c)
                             \/ AddCandidate(c)
                             \/ CandidateRefused(c)

Next ==
    \/ \E t \in Changes : Change(t)
    \/ \E t \in Tasks : NegotiateStep(t)
    \/ HandlerStep
    \/ ClientAnswers
    \/ \E c \in Candidates : ClientTrickles(c)

\* Every task the runtime polls goes on; the client answers an offer it got.
Fairness ==
    /\ \A t \in Tasks : WF_vars(NegotiateStep(t))
    /\ WF_vars(HandlerStep)
    /\ WF_vars(ClientAnswers)

Spec == Init /\ [][Next]_vars /\ Fairness
-----------------------------------------------------------------------------
(* Properties.                                                             *)

Steps == {"idle", "negotiate", "defer", "offer", "send"}

HandlerSteps == Steps \cup {"drain", "clear", "check", "reset", "panicked"}

TypeOK ==
    /\ at \in [Tasks -> HandlerSteps \cup {"done"}]
    /\ at[Handler] \in HandlerSteps
    /\ \A t \in Changes : at[t] \in Steps \cup {"done"}
    /\ negotiating \in Tasks \cup {None}
    /\ remote_answer_pending \in BOOLEAN
    /\ negotiation_pending \in BOOLEAN
    /\ added \subseteq Changes
    /\ offered \subseteq added
    /\ signaling \in {"stable", "have-local-offer"}
    /\ remote_description \in BOOLEAN
    /\ candidates \in Seq(Candidates)
    /\ applied \subseteq Candidates
    /\ to_client \in Seq(SUBSET Changes)
    /\ from_client \in Seq({Answer} \cup {Trickle(c) : c \in Candidates})
    /\ to_send \subseteq Candidates

\* The offers made and not answered, wherever they or their answers are.
Outstanding ==
    Cardinality({t \in Tasks : at[t] = "send"}) + Len(to_client)
    + Cardinality({i \in DOMAIN from_client : from_client[i] = Answer})

\* Whoever negotiates, there is at most one offer to answer, and there is one
\* exactly while the connection waits for an answer (peer.rs, the closure of
\* join given to on_negotiate; set_remote_description).
OneOfferOutstanding ==
    Outstanding = (IF signaling = "have-local-offer" THEN 1 ELSE 0)

\* create_offer finds the connection stable, as set_local_description requires,
\* and no two tasks negotiate at once.
OffersFromStable ==
    /\ \A t \in Tasks : at[t] = "offer" => signaling = "stable"
    /\ \A t \in Tasks : at[t] \in {"defer", "offer", "send"} => negotiating = t

\* The candidates the handler has taken off the network.
Received ==
    {c \in Candidates \ to_send :
        \A i \in DOMAIN from_client : from_client[i] # Trickle(c)}

\* Between two requests, every candidate received has reached the connection once
\* it can take them, in whatever order candidates and answers came.
NoCandidateIsLost ==
    at[Handler] = "idle" /\ remote_description => Received \subseteq applied

\* A change whose negotiation was put off stays noted until somebody negotiates
\* again: no order of the flags' reads and writes forgets it.
NothingIsForgotten ==
    \A t \in Changes :
        at[t] = "done" =>
            \/ t \in offered
            \/ negotiation_pending
            \/ at[Handler] \in {"negotiate", "defer", "offer"}

\* An offer does not block the next ones for ever, unless a candidate is refused.
OffersAreSettled ==
    remote_answer_pending ~> (~remote_answer_pending \/ at[Handler] = "panicked")

\* What a subscriber's negotiation promises to those who ask for one.
Promise == INSTANCE Offers WITH unanswered <- signaling = "have-local-offer",
                                ended <- at[Handler] = "panicked"

\* However the tasks and the handler interleave, each offer is made of everything
\* added when it is made, after the one before it was answered, and is answered
\* unless a refused candidate ends the handler (join's closure, negotiate,
\* set_remote_description).
ImplementsOffers == Promise!Spec

\* Each track added for a peer is offered to it, so that it reaches its client.
EveryChangeIsOffered ==
    \A t \in Changes : t \in added ~> t \in offered
=============================================================================
