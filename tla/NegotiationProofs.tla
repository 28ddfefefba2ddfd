-------------------------- MODULE NegotiationProofs --------------------------
(***************************************************************************)
(* What is proved of Negotiation for any number of tasks and candidates.   *)
(***************************************************************************)
EXTENDS Negotiation, FiniteSetTheorems, SequenceTheorems, TLAPS

-----------------------------------------------------------------------------
(* The inductive invariant.                                                *)

\* The offer made last is on its way, or its answer is.
Underway(s) == \E i \in DOMAIN s : s[i] = Answer
Unique(s)   == \A i, j \in DOMAIN s : s[i] = Answer /\ s[j] = Answer => i = j
Awaited     == to_client # <<>> \/ Underway(from_client)

Offering == \E t \in Tasks : at[t] \in {"offer", "send"}
Sending  == \E t \in Tasks : at[t] = "send"

LockInv == \A t \in Tasks : at[t] \in {"defer", "offer", "send"} => negotiating = t

\* There is one offer or answer underway at most.
UniqueInv ==
    /\ Len(to_client) <= 1
    /\ to_client # <<>> => ~Underway(from_client)
    /\ Unique(from_client)

\* While it is, the flag keeps everybody from making another ...
AwaitedInv ==
    Awaited => /\ remote_answer_pending
               /\ signaling = "have-local-offer"
               /\ ~Offering

\* ... and so it does while the handler has the answer in hand.
AnsweredInv ==
    at[Handler] \in {"drain", "clear"} =>
        /\ remote_answer_pending
        /\ signaling = "stable"
        /\ ~Offering
        /\ ~Awaited

\* The connection waits for an answer to what is being sent or is underway.
SignalingInv ==
    /\ \A t \in Tasks : at[t] = "offer" => signaling = "stable"
    /\ signaling = "have-local-offer" <=> Sending \/ Awaited

OfferInv == LockInv /\ UniqueInv /\ AwaitedInv /\ AnsweredInv /\ SignalingInv

\* What a task has negotiated is in the offer, or noted.
ForgottenInv ==
    \A t \in Changes :
        /\ at[t] # "idle" => t \in added
        /\ at[t] = "send" => t \in offered

NoteInv == ForgottenInv /\ NothingIsForgotten

Kept == {candidates[i] : i \in DOMAIN candidates}

\* Every candidate received is applied, kept, or has been refused.
CandidateInv ==
    at[Handler] # "panicked" =>
        /\ Received \subseteq applied \cup Kept
        /\ remote_description /\ at[Handler] # "drain" => Received \subseteq applied
-----------------------------------------------------------------------------
(* Sequences of messages.                                                  *)

Messages == {Answer} \cup {Trickle(c) : c \in Candidates}

LEMMA TrickleIsNoAnswer == \A c \in Candidates : Trickle(c) # Answer
<1> SUFFICES ASSUME NEW c \in Candidates, Trickle(c) = Answer PROVE FALSE
  OBVIOUS
<1>1. Trickle(c).type = "trickle" /\ Answer.type = "answer"
  BY DEF Trickle, Answer
<1> QED
  BY <1>1

LEMMA AppendFacts ==
    ASSUME NEW S, NEW s \in Seq(S), NEW e \in S
    PROVE  /\ Append(s, e) \in Seq(S)
           /\ DOMAIN s = 1 .. Len(s) /\ Len(s) \in Nat
           /\ DOMAIN Append(s, e) = 1 .. Len(s) + 1
           /\ Len(Append(s, e)) = Len(s) + 1
           /\ \A i \in 1 .. Len(s) : Append(s, e)[i] = s[i]
           /\ Append(s, e)[Len(s) + 1] = e
BY LenProperties, AppendProperties

LEMMA TailFacts ==
    ASSUME NEW S, NEW s \in Seq(S), s # <<>>
    PROVE  /\ Tail(s) \in Seq(S)
           /\ Head(s) = s[1]
           /\ Len(s) \in Nat \ {0} /\ DOMAIN s = 1 .. Len(s)
           /\ Len(Tail(s)) = Len(s) - 1
           /\ DOMAIN Tail(s) = 1 .. Len(s) - 1
           /\ \A i \in 1 .. Len(s) - 1 : Tail(s)[i] = s[i + 1]
<1>1. Tail(s) \in Seq(S) /\ Len(Tail(s)) = Len(s) - 1
  BY HeadTailProperties
<1>2. Len(s) \in Nat \ {0} /\ DOMAIN s = 1 .. Len(s)
  BY EmptySeq, LenProperties
<1>3. DOMAIN Tail(s) = 1 .. Len(s) - 1
  BY <1>1, LenProperties
<1> QED
  BY <1>1, <1>2, <1>3, HeadTailProperties

LEMMA AppendMessage ==
    ASSUME NEW s \in Seq(Messages), NEW e \in Messages
    PROVE  /\ Underway(Append(s, e)) <=> Underway(s) \/ e = Answer
           /\ Unique(s) /\ ~(Underway(s) /\ e = Answer) => Unique(Append(s, e))
<1>1. PICK n \in Nat : n = Len(s)
  BY LenProperties
<1>2. /\ DOMAIN s = 1 .. n /\ DOMAIN Append(s, e) = 1 .. n + 1
      /\ \A i \in 1 .. n : Append(s, e)[i] = s[i]
      /\ Append(s, e)[n + 1] = e
  BY <1>1, AppendFacts
<1>3. \A i \in 1 .. n + 1 : i \in 1 .. n \/ i = n + 1
  OBVIOUS
<1>4. 1 .. n \subseteq 1 .. n + 1 /\ n + 1 \in 1 .. n + 1
  OBVIOUS
<1> QED
  BY <1>2, <1>3, <1>4 DEF Underway, Unique

LEMMA TakeMessage ==
    ASSUME NEW s \in Seq(Messages), s # <<>>
    PROVE  /\ Underway(s) <=> Head(s) = Answer \/ Underway(Tail(s))
           /\ Unique(s) => Unique(Tail(s))
           /\ Unique(s) /\ Head(s) = Answer => ~Underway(Tail(s))
<1>1. PICK n \in Nat \ {0} : n = Len(s)
  BY TailFacts
<1>2. /\ DOMAIN s = 1 .. n /\ DOMAIN Tail(s) = 1 .. n - 1
      /\ \A i \in 1 .. n - 1 : Tail(s)[i] = s[i + 1]
      /\ Head(s) = s[1]
  BY <1>1, TailFacts
<1>3. /\ \A i \in 1 .. n : i = 1 \/ (i - 1 \in 1 .. n - 1 /\ s[i] = Tail(s)[i - 1])
      /\ \A i \in 1 .. n - 1 : i + 1 \in 1 .. n /\ i + 1 # 1
      /\ 1 \in 1 .. n
      /\ \A i, j \in 1 .. n - 1 : i + 1 = j + 1 => i = j
  BY <1>2
<1>4. Underway(s) <=> Head(s) = Answer \/ Underway(Tail(s))
  <2>1. ASSUME NEW i \in 1 .. n, s[i] = Answer
        PROVE  s[1] = Answer \/ \E j \in 1 .. n - 1 : Tail(s)[j] = Answer
    BY <1>3, <2>1
  <2>2. ASSUME NEW j \in 1 .. n - 1, Tail(s)[j] = Answer
        PROVE  \E i \in 1 .. n : s[i] = Answer
    BY <1>2, <1>3, <2>2
  <2> QED
    BY <1>2, <1>3, <2>1, <2>2 DEF Underway
<1>5. Unique(s) => Unique(Tail(s))
  BY <1>2, <1>3 DEF Unique
<1>6. Unique(s) /\ Head(s) = Answer => ~Underway(Tail(s))
  BY <1>2, <1>3 DEF Unique, Underway
<1> QED
  BY <1>4, <1>5, <1>6
-----------------------------------------------------------------------------
(* Types.                                                                  *)

LEMMA InitType == Init => TypeOK
BY EmptySeq, NegotiationAssumption
   DEF Init, TypeOK, Tasks, Steps, HandlerSteps

LEMMA NegotiateStepType ==
    ASSUME TypeOK, NEW t \in Tasks, NegotiateStep(t)
    PROVE  TypeOK'
<1> USE NegotiationAssumption DEF TypeOK, Tasks, Steps, HandlerSteps, MoveTo
<1>1. CASE Negotiate(t)
  BY <1>1 DEF Negotiate, connection, flags, network
<1>2. CASE Defer(t)
  BY <1>2 DEF Defer, Negotiated, connection, network
<1>3. CASE CreateOffer(t)
  BY <1>3 DEF CreateOffer, flags, network
<1>4. CASE SendOffer(t)
  <2>1. to_client' \in Seq(SUBSET Changes)
    BY <1>4, AppendProperties DEF SendOffer
  <2> QED
    BY <1>4, <2>1 DEF SendOffer, Negotiated, connection
<1> QED
  BY <1>1, <1>2, <1>3, <1>4 DEF NegotiateStep

LEMMA HandlerStepType ==
    ASSUME TypeOK, HandlerStep
    PROVE  TypeOK'
<1> USE NegotiationAssumption DEF TypeOK, Tasks, Steps, HandlerSteps, MoveTo
<1>0. ASSUME from_client # <<>>
      PROVE  Tail(from_client) \in Seq({Answer} \cup {Trickle(c) : c \in Candidates})
  BY <1>0, HeadTailProperties
<1>00. Accepted \subseteq Candidates
  BY ElementOfSeq, LenProperties DEF Accepted
<1>1. CASE SetRemoteDescription
  BY <1>0, <1>1 DEF SetRemoteDescription, Receives, flags
<1>2. CASE AddQueuedCandidates
  BY <1>00, <1>2, EmptySeq DEF AddQueuedCandidates, flags, network
<1>3. CASE QueuedCandidateRefused
  BY <1>00, <1>3 DEF QueuedCandidateRefused, flags, network
<1>4. CASE ClearAnswerPending
  BY <1>4 DEF ClearAnswerPending, connection, network
<1>5. CASE CheckNegotiationPending
  BY <1>5 DEF CheckNegotiationPending, connection, network, flags
<1>6. CASE ResetNegotiationPending
  BY <1>6 DEF ResetNegotiationPending, connection, network
<1>7. ASSUME NEW c \in Candidates, QueueCandidate(c) PROVE TypeOK'
  BY <1>0, <1>7, AppendProperties DEF QueueCandidate, Receives, connection, flags
<1>8. ASSUME NEW c \in Candidates, AddCandidate(c) PROVE TypeOK'
  BY <1>0, <1>8 DEF AddCandidate, Receives, flags
<1>9. ASSUME NEW c \in Candidates, CandidateRefused(c) PROVE TypeOK'
  BY <1>0, <1>9 DEF CandidateRefused, Receives, connection, flags
<1> QED
  BY <1>1, <1>2, <1>3, <1>4, <1>5, <1>6, <1>7, <1>8, <1>9 DEF HandlerStep

LEMMA TypeStep == TypeOK /\ [Next]_vars => TypeOK'
<1> SUFFICES ASSUME TypeOK, [Next]_vars PROVE TypeOK'
  OBVIOUS
<1> USE NegotiationAssumption
<1>1. ASSUME NEW t \in Changes, Change(t) PROVE TypeOK'
  BY <1>1 DEF Change, TypeOK, Tasks, Steps, HandlerSteps, MoveTo, connection,
              network, flags
<1>2. CASE ClientAnswers
  <2>1. /\ to_client' \in Seq(SUBSET Changes)
        /\ from_client' \in Seq({Answer} \cup {Trickle(c) : c \in Candidates})
    BY <1>2, HeadTailProperties, AppendProperties DEF ClientAnswers, TypeOK
  <2> QED
    BY <1>2, <2>1 DEF ClientAnswers, TypeOK, connection, flags
<1>3. ASSUME NEW c \in Candidates, ClientTrickles(c) PROVE TypeOK'
  <2>1. from_client' \in Seq({Answer} \cup {Trickle(d) : d \in Candidates})
    BY <1>3, AppendProperties DEF ClientTrickles, TypeOK
  <2> QED
    BY <1>3, <2>1 DEF ClientTrickles, TypeOK, connection, flags
<1>4. CASE UNCHANGED vars
  BY <1>4 DEF vars, TypeOK
<1> QED
  BY <1>1, <1>2, <1>3, <1>4, NegotiateStepType, HandlerStepType DEF Next

\* Every variable keeps its type, and no task gets to a step that is not its own.
THEOREM TypeCorrect == Spec => []TypeOK
BY InitType, TypeStep, PTL DEF Spec
-----------------------------------------------------------------------------
(* One offer at a time.                                                    *)

LEMMA InitOffer == Init => OfferInv
<1> SUFFICES ASSUME Init PROVE OfferInv
  OBVIOUS
<1>1. ~Awaited /\ ~Offering /\ ~Sending /\ ~Underway(from_client)
  BY DEF Init, Awaited, Underway, Offering, Sending
<1>2. Handler \in Tasks /\ Len(to_client) = 0 /\ DOMAIN from_client = {}
  BY EmptySeq DEF Init, Tasks
<1> QED
  BY <1>1, <1>2 DEF OfferInv, LockInv, UniqueInv, Unique, AwaitedInv, AnsweredInv,
                    SignalingInv, Init

\* What the invariant needs to know of a step of negotiate.
LEMMA NegotiateStepOffer ==
    ASSUME TypeOK, OfferInv, NEW t \in Tasks, NegotiateStep(t)
    PROVE  OfferInv'
<1>0. /\ at \in [Tasks -> HandlerSteps \cup {"done"}] /\ Handler \in Tasks
      /\ None \notin Tasks /\ from_client' = from_client
      /\ remote_answer_pending \in BOOLEAN
      /\ to_client \in Seq(SUBSET Changes)
  BY NegotiationAssumption
     DEF TypeOK, Tasks, NegotiateStep, Negotiate, Defer, CreateOffer, SendOffer,
         network
<1>1. CASE Negotiate(t)
  <2>1. /\ \A u \in Tasks : at[u] \notin {"defer", "offer", "send"}
        /\ at' = [at EXCEPT ![t] = IF remote_answer_pending THEN "defer" ELSE "offer"]
        /\ negotiating' = t
        /\ UNCHANGED <<remote_answer_pending, signaling, to_client>>
    BY <1>0, <1>1 DEF OfferInv, LockInv, Negotiate, MoveTo, connection, flags, network
  <2>2. Awaited' = Awaited /\ ~Sending /\ ~Sending'
    BY <1>0, <2>1 DEF Awaited, Underway, Sending
  <2>3. LockInv' /\ UniqueInv'
    BY <1>0, <2>1 DEF OfferInv, LockInv, UniqueInv, Underway
  <2>4. remote_answer_pending => ~Offering'
    BY <1>0, <2>1 DEF Offering
  <2>5. AwaitedInv' /\ AnsweredInv'
    BY <1>0, <2>1, <2>2, <2>4 DEF OfferInv, AwaitedInv, AnsweredInv
  <2>6. SignalingInv'
    <3>1. ~remote_answer_pending => signaling = "stable"
      BY <2>2 DEF OfferInv, SignalingInv, AwaitedInv, TypeOK
    <3> QED
      BY <1>0, <2>1, <2>2, <3>1 DEF OfferInv, SignalingInv
  <2> QED
    BY <2>3, <2>5, <2>6 DEF OfferInv
<1>2. CASE Defer(t)
  <2>1. /\ at[t] = "defer" /\ \A u \in Tasks : at[u] \in {"offer", "send"} => u = t
        /\ at'= [at EXCEPT ![t] = Negotiated(t)] /\ Negotiated(t) \in {"idle", "done"}
        /\ UNCHANGED <<remote_answer_pending, signaling, to_client>>
    BY <1>2 DEF OfferInv, LockInv, Defer, MoveTo, Negotiated, connection, network
  <2>2. ~Offering /\ ~Offering' /\ ~Sending /\ ~Sending' /\ Awaited' = Awaited
    BY <1>0, <2>1 DEF Offering, Sending, Awaited, Underway
  <2>3. \A u \in Tasks : at'[u] \notin {"defer", "offer", "send"}
    BY <1>0, <2>1 DEF OfferInv, LockInv
  <2> QED
    BY <1>0, <2>1, <2>2, <2>3
       DEF OfferInv, LockInv, UniqueInv, AwaitedInv, AnsweredInv, SignalingInv, Underway
<1>3. CASE CreateOffer(t)
  <2>1. /\ at[t] = "offer" /\ \A u \in Tasks : at[u] \in {"offer", "send"} => u = t
        /\ at'= [at EXCEPT ![t] = "send"] /\ signaling' = "have-local-offer"
        /\ UNCHANGED <<remote_answer_pending, negotiating, to_client>>
    BY <1>3 DEF OfferInv, LockInv, CreateOffer, MoveTo, flags, network
  <2>2. Offering /\ Sending' /\ Awaited' = Awaited
    BY <1>0, <2>1 DEF Offering, Sending, Awaited, Underway
  <2>3. ~Awaited /\ at[Handler] \notin {"drain", "clear"}
    BY <2>2 DEF OfferInv, AwaitedInv, AnsweredInv
  <2> QED
    BY <1>0, <2>1, <2>2, <2>3
       DEF OfferInv, LockInv, UniqueInv, AwaitedInv, AnsweredInv, SignalingInv, Underway
<1>4. CASE SendOffer(t)
  <2>1. /\ at[t] = "send" /\ \A u \in Tasks : at[u] \in {"offer", "send"} => u = t
        /\ at'= [at EXCEPT ![t] = Negotiated(t)] /\ Negotiated(t) \in {"idle", "done"}
        /\ remote_answer_pending' = TRUE /\ signaling' = signaling
        /\ to_client' = Append(to_client, offered) /\ offered \in SUBSET Changes
    BY <1>4 DEF OfferInv, LockInv, SendOffer, MoveTo, Negotiated, connection, TypeOK
  <2>2. Offering /\ Sending /\ ~Offering' /\ ~Sending'
    BY <1>0, <2>1 DEF Offering, Sending
  <2>3. ~Awaited /\ at[Handler] \notin {"drain", "clear"} /\ signaling = "have-local-offer"
    BY <1>0, <2>1, <2>2 DEF OfferInv, AwaitedInv, AnsweredInv, SignalingInv
  <2>4. Len(to_client') = 1 /\ to_client' # <<>> /\ Awaited'
    BY <1>0, <2>1, <2>3, AppendProperties, EmptySeq DEF Awaited
  <2>5. \A u \in Tasks : at'[u] \notin {"defer", "offer", "send"}
    BY <1>0, <2>1 DEF OfferInv, LockInv
  <2> QED
    BY <1>0, <2>1, <2>2, <2>3, <2>4, <2>5
       DEF OfferInv, LockInv, UniqueInv, AwaitedInv, AnsweredInv, SignalingInv,
           Awaited, Underway
<1> QED
  BY <1>1, <1>2, <1>3, <1>4 DEF NegotiateStep

\* A step that leaves the offers, their answers and the flags as they are, and
\* takes t neither into negotiate nor into the handling of an answer.
LEMMA OtherStepOffer ==
    ASSUME TypeOK, OfferInv, NEW t \in Tasks, NEW step,
           at' = [at EXCEPT ![t] = step],
           step \notin {"defer", "offer", "send", "drain", "clear"},
           at[t] \notin {"defer", "offer", "send"},
           Underway(from_client)' = Underway(from_client),
           Unique(from_client'),
           UNCHANGED <<negotiating, signaling, to_client>>,
           remote_answer_pending' # remote_answer_pending => ~Awaited /\ t = Handler
    PROVE  OfferInv'
<1>1. /\ at \in [Tasks -> HandlerSteps \cup {"done"}] /\ Handler \in Tasks
  BY DEF TypeOK, Tasks
<1>2. \A u \in Tasks : (at'[u] = at[u] \/ u = t) /\ at'[t] = step
  BY <1>1
<1>3. Offering' = Offering /\ Sending' = Sending /\ Awaited' = Awaited
  BY <1>2 DEF Offering, Sending, Awaited
<1>4. \A u \in Tasks : at'[u] \in {"defer", "offer", "send", "drain", "clear"} => at'[u] = at[u]
  BY <1>2
<1>5. LockInv' /\ UniqueInv'
  BY <1>2 DEF OfferInv, LockInv, UniqueInv, Unique
<1>6. AwaitedInv' /\ SignalingInv'
  BY <1>2, <1>3 DEF OfferInv, AwaitedInv, SignalingInv
<1>7. AnsweredInv'
  BY <1>1, <1>3, <1>4 DEF OfferInv, AnsweredInv
<1> QED
  BY <1>5, <1>6, <1>7 DEF OfferInv

\* A step that moves no task and changes no offer on its way to the client.
LEMMA StandingStepOffer ==
    ASSUME OfferInv,
           Underway(from_client)' = Underway(from_client),
           Unique(from_client'),
           UNCHANGED <<at, negotiating, signaling, to_client, remote_answer_pending>>
    PROVE  OfferInv'
<1>1. Offering' = Offering /\ Sending' = Sending /\ Awaited' = Awaited
  BY DEF Offering, Sending, Awaited
<1> QED
  BY <1>1 DEF OfferInv, LockInv, UniqueInv, Unique, AwaitedInv, AnsweredInv, SignalingInv

LEMMA MessageTypes ==
    ASSUME TypeOK
    PROVE  /\ from_client \in Seq(Messages)
           /\ \A c \in Candidates : Trickle(c) \in Messages
           /\ Answer \in Messages
BY DEF TypeOK, Messages

LEMMA HandlerStepOffer ==
    ASSUME TypeOK, OfferInv, HandlerStep
    PROVE  OfferInv'
<1>0. /\ at \in [Tasks -> HandlerSteps \cup {"done"}] /\ Handler \in Tasks
      /\ Unique(from_client) /\ from_client \in Seq(Messages)
  BY MessageTypes DEF TypeOK, Tasks, OfferInv, UniqueInv, Unique
<1>1. CASE SetRemoteDescription
  <2>1. /\ at[Handler] = "idle" /\ at' = [at EXCEPT ![Handler] = "drain"]
        /\ from_client # <<>> /\ Head(from_client) = Answer
        /\ from_client' = Tail(from_client) /\ signaling' = "stable"
        /\ UNCHANGED <<negotiating, remote_answer_pending, to_client>>
    BY <1>1 DEF SetRemoteDescription, Receives, MoveTo, flags
  <2>2. Underway(from_client) /\ ~Underway(from_client') /\ Unique(from_client')
    BY <1>0, <2>1, TakeMessage
  <2>3. Awaited /\ to_client = <<>> /\ ~Awaited'
    BY <2>1, <2>2 DEF Awaited, OfferInv, UniqueInv
  <2>4. ~Offering /\ ~Offering' /\ ~Sending' /\ remote_answer_pending
    BY <1>0, <2>1, <2>3 DEF OfferInv, AwaitedInv, Offering, Sending
  <2>5. LockInv'
    BY <1>0, <2>1 DEF OfferInv, LockInv
  <2>6. UniqueInv'
    BY <2>1, <2>2, <2>3 DEF UniqueInv, Unique, OfferInv
  <2>7. AwaitedInv' /\ AnsweredInv' /\ SignalingInv'
    BY <2>1, <2>3, <2>4 DEF AwaitedInv, AnsweredInv, SignalingInv
  <2> QED
    BY <2>5, <2>6, <2>7 DEF OfferInv
<1>2. CASE AddQueuedCandidates
  <2>1. /\ at[Handler] = "drain" /\ at' = [at EXCEPT ![Handler] = "clear"]
        /\ UNCHANGED <<negotiating, remote_answer_pending, signaling, to_client,
                       from_client>>
    BY <1>2 DEF AddQueuedCandidates, MoveTo, flags, network
  <2>2. Offering' = Offering /\ Sending' = Sending /\ Awaited' = Awaited
    BY <1>0, <2>1 DEF Offering, Sending, Awaited
  <2> QED
    BY <1>0, <2>1, <2>2 DEF OfferInv, LockInv, UniqueInv, AwaitedInv, AnsweredInv,
                            SignalingInv
<1>3. CASE QueuedCandidateRefused
  BY <1>0, <1>3, OtherStepOffer
     DEF QueuedCandidateRefused, MoveTo, flags, network
<1>4. CASE ClearAnswerPending
  <2>1. ~Awaited
    BY <1>4 DEF ClearAnswerPending, OfferInv, AnsweredInv
  <2> QED
    BY <1>0, <1>4, <2>1, OtherStepOffer DEF ClearAnswerPending, MoveTo, connection, network
<1>5. CASE CheckNegotiationPending
  BY <1>0, <1>5, OtherStepOffer
     DEF CheckNegotiationPending, MoveTo, flags, connection, network
<1>6. CASE ResetNegotiationPending
  BY <1>0, <1>6, OtherStepOffer DEF ResetNegotiationPending, MoveTo, connection, network
<1>7. ASSUME NEW c \in Candidates, Receives(Trickle(c))
      PROVE  Underway(from_client)' = Underway(from_client) /\ Unique(from_client')
  BY <1>0, <1>7, TakeMessage, TrickleIsNoAnswer DEF Receives, Underway
<1>8. ASSUME NEW c \in Candidates, QueueCandidate(c) \/ AddCandidate(c) PROVE OfferInv'
  BY <1>7, <1>8, StandingStepOffer DEF QueueCandidate, AddCandidate, flags, connection
<1>9. ASSUME NEW c \in Candidates, CandidateRefused(c) PROVE OfferInv'
  BY <1>0, <1>7, <1>9, OtherStepOffer
     DEF CandidateRefused, Receives, MoveTo, flags, connection
<1> QED
  BY <1>1, <1>2, <1>3, <1>4, <1>5, <1>6, <1>8, <1>9 DEF HandlerStep

LEMMA OfferStep == TypeOK /\ OfferInv /\ [Next]_vars => OfferInv'
<1> SUFFICES ASSUME TypeOK, OfferInv, [Next]_vars PROVE OfferInv'
  OBVIOUS
<1>0. Unique(from_client) /\ from_client \in Seq(Messages)
  BY MessageTypes DEF OfferInv, UniqueInv, Unique
<1>1. ASSUME NEW t \in Changes, Change(t) PROVE OfferInv'
  BY <1>0, <1>1, OtherStepOffer DEF Change, MoveTo, Tasks, flags, connection, network
<1>2. CASE ClientAnswers
  <2>1. /\ to_client # <<>> /\ to_client' = Tail(to_client)
        /\ from_client' = Append(from_client, Answer) /\ ~Underway(from_client)
        /\ UNCHANGED <<at, negotiating, remote_answer_pending, signaling>>
    BY <1>2 DEF ClientAnswers, flags, connection, OfferInv, UniqueInv
  <2>2. Underway(from_client') /\ Unique(from_client')
    BY <1>0, <2>1, AppendMessage, MessageTypes
  <2>3. Tail(to_client) = <<>>
    <3>1. to_client \in Seq(SUBSET Changes) /\ Len(to_client) <= 1
      BY DEF TypeOK, OfferInv, UniqueInv
    <3> QED
      BY <2>1, <3>1, TailFacts, EmptySeq
  <2>4. Awaited /\ Awaited' /\ Offering' = Offering /\ Sending' = Sending
    BY <2>1, <2>2 DEF Awaited, Offering, Sending
  <2>5. UniqueInv'
    BY <2>1, <2>2, <2>3, EmptySeq DEF UniqueInv, Unique
  <2> QED
    BY <2>1, <2>4, <2>5
       DEF OfferInv, LockInv, AwaitedInv, AnsweredInv, SignalingInv
<1>3. ASSUME NEW c \in Candidates, ClientTrickles(c) PROVE OfferInv'
  <2>1. Underway(from_client)' = Underway(from_client) /\ Unique(from_client')
    BY <1>0, <1>3, AppendMessage, MessageTypes, TrickleIsNoAnswer
       DEF ClientTrickles, Underway
  <2> QED
    BY <1>3, <2>1, StandingStepOffer DEF ClientTrickles, flags, connection
<1>4. CASE UNCHANGED vars
  BY <1>0, <1>4, StandingStepOffer DEF vars, Underway
<1> QED
  BY <1>1, <1>2, <1>3, <1>4, NegotiateStepOffer, HandlerStepOffer DEF Next

\* The invariant that the next two rest on: whoever negotiates holds the lock of
\* is_negotiation_ongoing, and the flag and the connection's state say where the
\* offer and its answer are.
THEOREM OffersAreSerial == Spec => []OfferInv
<1>1. Init => TypeOK /\ OfferInv
  BY InitType, InitOffer
<1>2. TypeOK /\ OfferInv /\ [Next]_vars => (TypeOK /\ OfferInv)'
  BY TypeStep, OfferStep
<1> QED
  BY <1>1, <1>2, PTL DEF Spec

\* No two tasks negotiate at once, and create_offer finds the connection stable,
\* however many negotiate and whenever answers come.
THEOREM StableWhenOffering == Spec => []OffersFromStable
<1>1. OfferInv => OffersFromStable
  BY DEF OfferInv, LockInv, SignalingInv, OffersFromStable
<1> QED
  BY <1>1, OffersAreSerial, PTL

\* At most one offer has still to be answered, and exactly one while the
\* connection waits for an answer.
THEOREM OneOffer == Spec => []OneOfferOutstanding
<1>1. TypeOK /\ OfferInv => OneOfferOutstanding
  <2> SUFFICES ASSUME TypeOK, OfferInv PROVE OneOfferOutstanding
    OBVIOUS
  <2>1. Cardinality({t \in Tasks : at[t] = "send"}) = IF Sending THEN 1 ELSE 0
    <3>1. \A t, u \in Tasks : at[t] = "send" /\ at[u] = "send" => t = u
      BY DEF OfferInv, LockInv
    <3>2. CASE Sending
      <4>1. PICK t \in Tasks : at[t] = "send"
        BY <3>2 DEF Sending
      <4>2. {u \in Tasks : at[u] = "send"} = {t}
        BY <3>1, <4>1
      <4> QED
        BY <3>2, <4>2, FS_Singleton
    <3>3. CASE ~Sending
      <4>1. {u \in Tasks : at[u] = "send"} = {}
        BY <3>3 DEF Sending
      <4> QED
        BY <3>3, <4>1, FS_EmptySet
    <3> QED
      BY <3>2, <3>3
  <2>2. Cardinality({i \in DOMAIN from_client : from_client[i] = Answer})
            = IF Underway(from_client) THEN 1 ELSE 0
    <3>2. CASE Underway(from_client)
      <4>1. PICK i \in DOMAIN from_client : from_client[i] = Answer
        BY <3>2 DEF Underway
      <4>2. {j \in DOMAIN from_client : from_client[j] = Answer} = {i}
        BY <4>1 DEF OfferInv, UniqueInv, Unique
      <4> QED
        BY <3>2, <4>2, FS_Singleton
    <3>3. CASE ~Underway(from_client)
      <4>1. {j \in DOMAIN from_client : from_client[j] = Answer} = {}
        BY <3>3 DEF Underway
      <4> QED
        BY <3>3, <4>1, FS_EmptySet
    <3> QED
      BY <3>2, <3>3
  <2>3. Len(to_client) = IF to_client # <<>> THEN 1 ELSE 0
    <3>1. to_client \in Seq(SUBSET Changes) /\ Len(to_client) <= 1
      BY DEF TypeOK, OfferInv, UniqueInv
    <3>2. Len(to_client) \in Nat /\ (to_client # <<>> => Len(to_client) # 0)
      BY <3>1, EmptySeq, LenProperties
    <3>3. to_client = <<>> => Len(to_client) = 0
      BY EmptySeq
    <3>4. ASSUME NEW n \in Nat, n <= 1, n # 0 PROVE n = 1
      BY <3>4
    <3> QED
      BY <3>1, <3>2, <3>3, <3>4, Zenon
  <2>4. /\ Sending => Offering /\ ~Awaited
        /\ to_client # <<>> => ~Underway(from_client)
        /\ signaling = "have-local-offer" <=> Sending \/ Awaited
    BY DEF OfferInv, AwaitedInv, UniqueInv, SignalingInv, Sending, Offering
  <2> QED
    BY <2>1, <2>2, <2>3, <2>4 DEF OneOfferOutstanding, Outstanding, Awaited
<1> QED
  BY <1>1, TypeCorrect, OffersAreSerial, PTL
-----------------------------------------------------------------------------
(* The refinement of Offers.                                               *)

\* Each step of the tasks, of the handler and of the client is one of what a
\* negotiation promises, or changes nothing of it.
THEOREM EveryStepIsPromised == Spec => Promise!Init /\ [][Promise!Next]_(Promise!vars)
<1>1. Init => Promise!Init
  BY DEF Init, Promise!Init, Tasks
<1>2. TypeOK /\ OfferInv /\ [Next]_vars => [Promise!Next]_(Promise!vars)
  <2> SUFFICES ASSUME TypeOK, OfferInv, [Next]_vars
               PROVE  Promise!Next \/ UNCHANGED Promise!vars
    OBVIOUS
  <2>0. /\ at \in [Tasks -> HandlerSteps \cup {"done"}] /\ Handler \in Tasks
        /\ Handler \notin Changes
        /\ signaling \in {"stable", "have-local-offer"}
    BY NegotiationAssumption DEF TypeOK, Tasks
  <2>1. ASSUME NEW t \in Changes, Change(t)
        PROVE  Promise!Next \/ UNCHANGED Promise!vars
    <3>1. /\ added' = added \cup {t} /\ at'[Handler] = at[Handler]
          /\ UNCHANGED <<offered, signaling>>
      BY <2>0, <2>1 DEF Change, MoveTo, connection
    <3>2. CASE t \in added
      BY <3>1, <3>2 DEF Promise!vars
    <3>3. CASE t \notin added
      BY <3>1, <3>3 DEF Promise!Next, Promise!Add
    <3> QED
      BY <3>2, <3>3
  <2>2. ASSUME NEW t \in Tasks, NegotiateStep(t)
        PROVE  Promise!Next \/ UNCHANGED Promise!vars
    <3>1. \/ at'[Handler] # "panicked" /\ at[Handler] # "panicked"
          \/ at'[Handler] = at[Handler]
      BY <2>0, <2>2 DEF NegotiateStep, Negotiate, Defer, CreateOffer, SendOffer,
                        Negotiated, MoveTo
    <3>2. CASE CreateOffer(t)
      <4>1. signaling = "stable" /\ signaling' = "have-local-offer" /\ offered' = added
            /\ added' = added
        BY <3>2 DEF CreateOffer, OfferInv, SignalingInv
      <4> QED
        BY <3>1, <4>1 DEF Promise!Next, Promise!Offer
    <3>3. CASE Negotiate(t) \/ Defer(t) \/ SendOffer(t)
      <4>1. UNCHANGED <<added, offered, signaling>>
        BY <3>3 DEF Negotiate, Defer, SendOffer, connection
      <4> QED
        BY <3>1, <4>1 DEF Promise!vars
    <3> QED
      BY <2>2, <3>2, <3>3 DEF NegotiateStep
  <2>3. CASE SetRemoteDescription
    <3>1. /\ at[Handler] = "idle" /\ at'[Handler] = "drain" /\ signaling' = "stable"
          /\ from_client # <<>> /\ Head(from_client) = Answer
          /\ UNCHANGED <<added, offered>>
      BY <2>0, <2>3 DEF SetRemoteDescription, Receives, MoveTo
    <3>2. signaling = "have-local-offer"
      BY <3>1, TakeMessage, MessageTypes DEF OfferInv, AwaitedInv, Awaited
    <3> QED
      BY <3>1, <3>2 DEF Promise!Next, Promise!Answer
  <2>4. ASSUME QueuedCandidateRefused \/ \E c \in Candidates : CandidateRefused(c)
        PROVE  Promise!Next \/ UNCHANGED Promise!vars
    <3>1. /\ at[Handler] # "panicked" /\ at'[Handler] = "panicked"
          /\ UNCHANGED <<added, offered, signaling>>
      BY <2>0, <2>4 DEF QueuedCandidateRefused, CandidateRefused, Receives, MoveTo,
                        connection
    <3> QED
      BY <3>1 DEF Promise!Next, Promise!End
  <2>5. ASSUME \/ AddQueuedCandidates \/ ClearAnswerPending \/ CheckNegotiationPending
               \/ ResetNegotiationPending
        PROVE  Promise!Next \/ UNCHANGED Promise!vars
    <3>1. /\ at[Handler] # "panicked" /\ at'[Handler] # "panicked"
          /\ UNCHANGED <<added, offered, signaling>>
      BY <2>0, <2>5 DEF AddQueuedCandidates, ClearAnswerPending,
                        CheckNegotiationPending, ResetNegotiationPending, MoveTo,
                        connection
    <3> QED
      BY <3>1 DEF Promise!vars
  <2>6. ASSUME \/ ClientAnswers \/ UNCHANGED vars
               \/ \E c \in Candidates : \/ QueueCandidate(c) \/ AddCandidate(c)
                                         \/ ClientTrickles(c)
        PROVE  Promise!Next \/ UNCHANGED Promise!vars
    <3>1. UNCHANGED <<at, added, offered, signaling>>
      BY <2>6 DEF ClientAnswers, vars, QueueCandidate, AddCandidate, ClientTrickles,
                  connection
    <3> QED
      BY <3>1 DEF Promise!vars
  <2> QED
    BY <2>1, <2>2, <2>3, <2>4, <2>5, <2>6 DEF Next, HandlerStep
<1> QED
  BY <1>1, <1>2, TypeCorrect, OffersAreSerial, PTL DEF Spec
-----------------------------------------------------------------------------
(* What was put off.                                                       *)

LEMMA NoteStep == TypeOK /\ NoteInv /\ [Next]_vars => NoteInv'
<1> SUFFICES ASSUME TypeOK, NoteInv, [Next]_vars PROVE NoteInv'
  OBVIOUS
<1>0. /\ at \in [Tasks -> HandlerSteps \cup {"done"}] /\ Handler \in Tasks
      /\ Handler \notin Changes /\ Changes \subseteq Tasks
      /\ at[Handler] # "done"
  BY NegotiationAssumption DEF TypeOK, Tasks, Steps, HandlerSteps
<1> USE DEF NoteInv, ForgottenInv, NothingIsForgotten, MoveTo
<1>1. ASSUME NEW t \in Changes, Change(t) PROVE NoteInv'
  BY <1>0, <1>1 DEF Change, flags
<1>2. ASSUME NEW t \in Tasks, Negotiate(t) PROVE NoteInv'
  BY <1>0, <1>2 DEF Negotiate, flags
<1>3. ASSUME NEW t \in Tasks, Defer(t) PROVE NoteInv'
  BY <1>0, <1>3 DEF Defer, Negotiated
<1>4. ASSUME NEW t \in Tasks, CreateOffer(t) PROVE NoteInv'
  <2>1. \A u \in Changes : at'[u] # "idle" => u \in added' /\ u \in offered'
    BY <1>0, <1>4 DEF CreateOffer
  <2> QED
    BY <2>1
<1>5. ASSUME NEW t \in Tasks, SendOffer(t) PROVE NoteInv'
  <2>1. /\ at' = [at EXCEPT ![t] = Negotiated(t)] /\ at[t] = "send"
        /\ UNCHANGED <<added, offered, negotiation_pending>>
    BY <1>5 DEF SendOffer
  <2>2. \A u \in Changes : u # t => at'[u] = at[u]
    BY <1>0, <2>1
  <2>3. at'[Handler] = at[Handler] \/ at[Handler] = "send"
    BY <1>0, <2>1
  <2>4. t \in Changes => t \in added /\ t \in offered
    BY <2>1
  <2>5. ForgottenInv'
    BY <1>0, <2>1, <2>2, <2>4 DEF Negotiated
  <2>6. NothingIsForgotten'
    BY <2>1, <2>2, <2>3, <2>4
  <2> QED
    BY <2>5, <2>6
<1>6. CASE SetRemoteDescription
  BY <1>0, <1>6 DEF SetRemoteDescription, Receives, flags
<1>7. CASE AddQueuedCandidates
  BY <1>0, <1>7 DEF AddQueuedCandidates, flags
<1>8. CASE QueuedCandidateRefused
  BY <1>0, <1>8 DEF QueuedCandidateRefused, flags
<1>9. CASE ClearAnswerPending
  BY <1>0, <1>9 DEF ClearAnswerPending
<1>10. CASE CheckNegotiationPending
  BY <1>0, <1>10 DEF CheckNegotiationPending, flags
<1>11. CASE ResetNegotiationPending
  BY <1>0, <1>11 DEF ResetNegotiationPending
<1>12. ASSUME NEW c \in Candidates, CandidateRefused(c) PROVE NoteInv'
  BY <1>0, <1>12 DEF CandidateRefused, Receives, flags
<1>13. ASSUME NEW c \in Candidates,
              QueueCandidate(c) \/ AddCandidate(c) \/ ClientTrickles(c)
       PROVE  NoteInv'
  BY <1>13 DEF QueueCandidate, AddCandidate, ClientTrickles, flags
<1>14. CASE ClientAnswers \/ UNCHANGED vars
  BY <1>14 DEF ClientAnswers, vars, flags
<1> QED
  BY <1>1, <1>2, <1>3, <1>4, <1>5, <1>6, <1>7, <1>8, <1>9, <1>10, <1>11, <1>12,
     <1>13, <1>14 DEF Next, NegotiateStep, HandlerStep

\* A change whose negotiation was put off is offered, or noted, or the handler is
\* about to negotiate: no order of the flags' reads and writes forgets it.
THEOREM NothingForgotten == Spec => []NothingIsForgotten
<1>1. Init => TypeOK /\ NoteInv
  BY InitType DEF Init, Tasks, NoteInv, ForgottenInv, NothingIsForgotten
<1>2. TypeOK /\ NoteInv /\ [Next]_vars => (TypeOK /\ NoteInv)'
  BY TypeStep, NoteStep
<1>3. NoteInv => NothingIsForgotten
  BY DEF NoteInv
<1> QED
  BY <1>1, <1>2, <1>3, PTL DEF Spec

-----------------------------------------------------------------------------
(* Candidates.                                                             *)

LEMMA TrickleIsInjective ==
    \A c, d \in Candidates : Trickle(c) = Trickle(d) => c = d
<1> SUFFICES ASSUME NEW c \in Candidates, NEW d \in Candidates, Trickle(c) = Trickle(d)
             PROVE  c = d
  OBVIOUS
<1>1. Trickle(c).candidate = c /\ Trickle(d).candidate = d
  BY DEF Trickle
<1> QED
  BY <1>1

\* What is sent is not received; what is taken off the network is.
LEMMA ReceivedAfterSend ==
    ASSUME TypeOK, NEW e \in Messages, from_client' = Append(from_client, e),
           \/ to_send' = to_send
           \/ \E c \in Candidates : e = Trickle(c) /\ to_send' = to_send \ {c}
    PROVE  Received' \subseteq Received
<1>1. PICK n \in Nat : n = Len(from_client)
  BY LenProperties DEF TypeOK
<1>2. /\ DOMAIN from_client = 1 .. n /\ DOMAIN from_client' = 1 .. n + 1
      /\ \A i \in 1 .. n : from_client'[i] = from_client[i]
      /\ from_client'[n + 1] = e
  BY <1>1, AppendFacts, MessageTypes
<1>3. 1 .. n \subseteq 1 .. n + 1 /\ n + 1 \in 1 .. n + 1
  OBVIOUS
<1>4. SUFFICES ASSUME NEW c \in Candidates, c \notin to_send',
                      \A i \in 1 .. n + 1 : from_client'[i] # Trickle(c)
               PROVE  c \notin to_send /\ \A i \in 1 .. n : from_client[i] # Trickle(c)
  BY <1>2 DEF Received
<1>5. e # Trickle(c)
  BY <1>2, <1>3, <1>4
<1> QED
  BY <1>2, <1>3, <1>4, <1>5

LEMMA ReceivedAfterTaking ==
    ASSUME TypeOK, from_client # <<>>, from_client' = Tail(from_client),
           to_send' = to_send
    PROVE  Received' \subseteq
               Received \cup {c \in Candidates : Head(from_client) = Trickle(c)}
<1>1. PICK n \in Nat \ {0} : n = Len(from_client)
  BY TailFacts, MessageTypes
<1>2. /\ DOMAIN from_client = 1 .. n /\ DOMAIN from_client' = 1 .. n - 1
      /\ \A i \in 1 .. n - 1 : from_client'[i] = from_client[i + 1]
      /\ Head(from_client) = from_client[1]
  BY <1>1, TailFacts, MessageTypes
<1>3. SUFFICES ASSUME NEW c \in Candidates, c \notin to_send,
                      \A i \in 1 .. n - 1 : from_client'[i] # Trickle(c),
                      Head(from_client) # Trickle(c),
                      NEW i \in 1 .. n
               PROVE  from_client[i] # Trickle(c)
  BY <1>2 DEF Received
<1>4. CASE i = 1
  BY <1>2, <1>3, <1>4
<1>5. CASE i # 1
  <2>1. i - 1 \in 1 .. n - 1 /\ (i - 1) + 1 = i
    BY <1>5
  <2>2. from_client'[i - 1] = from_client[i]
    BY <1>2, <2>1
  <2> QED
    BY <1>3, <2>1, <2>2
<1> QED
  BY <1>4, <1>5

LEMMA CandidateStep == TypeOK /\ CandidateInv /\ [Next]_vars => CandidateInv'
<1> SUFFICES ASSUME TypeOK, CandidateInv, [Next]_vars PROVE CandidateInv'
  OBVIOUS
<1>0. /\ at \in [Tasks -> HandlerSteps \cup {"done"}] /\ Handler \in Tasks
      /\ Handler \notin Changes
  BY NegotiationAssumption DEF TypeOK, Tasks
<1>1. ASSUME UNCHANGED <<candidates, applied, remote_description>>,
             Received' \subseteq Received,
             at'[Handler] \in {at[Handler], "panicked"} \/ at[Handler] \notin {"drain", "panicked"}
      PROVE  CandidateInv'
  BY <1>1 DEF CandidateInv, Kept
<1>2. ASSUME UNCHANGED <<from_client, to_send>> PROVE Received' = Received
  BY <1>2 DEF Received
<1>3. ASSUME NEW t \in Changes, Change(t) PROVE CandidateInv'
  BY <1>0, <1>1, <1>2, <1>3 DEF Change, MoveTo, connection, network
<1>4. ASSUME NEW t \in Tasks, NegotiateStep(t) PROVE CandidateInv'
  BY <1>0, <1>1, <1>2, <1>4
     DEF NegotiateStep, Negotiate, Defer, CreateOffer, SendOffer, MoveTo, connection,
         network
<1>5. CASE SetRemoteDescription
  <2>1. Received' \subseteq Received
    BY <1>5, ReceivedAfterTaking, TrickleIsNoAnswer DEF SetRemoteDescription, Receives
  <2> QED
    BY <1>0, <1>5, <2>1 DEF SetRemoteDescription, Receives, MoveTo, CandidateInv, Kept
<1>6. CASE AddQueuedCandidates
  <2>1. Accepted = Kept
    <3>1. candidates \in Seq(Candidates) /\ \A i \in DOMAIN candidates : candidates[i] \notin Refused
      BY <1>6 DEF AddQueuedCandidates, TypeOK
    <3>2. \A j \in DOMAIN candidates : \A k \in 1 .. j : k \in DOMAIN candidates
      BY <3>1, LenProperties
    <3> QED
      BY <3>1, <3>2 DEF Accepted, Kept
  <2>2. Received \subseteq applied'
    BY <1>6, <2>1 DEF AddQueuedCandidates, CandidateInv
  <2> QED
    BY <1>2, <1>6, <2>2 DEF AddQueuedCandidates, network, CandidateInv
<1>7. CASE ClearAnswerPending \/ CheckNegotiationPending \/ ResetNegotiationPending
  BY <1>0, <1>1, <1>2, <1>7
     DEF ClearAnswerPending, CheckNegotiationPending, ResetNegotiationPending, MoveTo,
         connection, network
<1>8. ASSUME QueuedCandidateRefused \/ \E c \in Candidates : CandidateRefused(c)
      PROVE  CandidateInv'
  BY <1>0, <1>8 DEF QueuedCandidateRefused, CandidateRefused, MoveTo, CandidateInv
<1>9. ASSUME NEW c \in Candidates, Receives(Trickle(c)), to_send' = to_send
      PROVE  Received' \subseteq Received \cup {c}
  <2>1. {d \in Candidates : Trickle(c) = Trickle(d)} = {c}
    BY TrickleIsInjective
  <2> QED
    BY <1>9, <2>1, ReceivedAfterTaking DEF Receives
<1>10. ASSUME NEW c \in Candidates, QueueCandidate(c) PROVE CandidateInv'
  <2>1. c \in Kept' /\ Kept \subseteq Kept'
    <3>1. candidates \in Seq(Candidates) /\ candidates' = Append(candidates, c)
      BY <1>10 DEF QueueCandidate, TypeOK
    <3>2. PICK n \in Nat : n = Len(candidates)
      BY <3>1, LenProperties
    <3>3. /\ DOMAIN candidates = 1 .. n /\ DOMAIN candidates' = 1 .. n + 1
          /\ \A i \in 1 .. n : candidates'[i] = candidates[i]
          /\ candidates'[n + 1] = c
      BY <3>1, <3>2, AppendFacts
    <3>4. 1 .. n \subseteq 1 .. n + 1 /\ n + 1 \in 1 .. n + 1
      OBVIOUS
    <3> QED
      BY <3>3, <3>4 DEF Kept
  <2>2. Received' \subseteq Received \cup {c}
    BY <1>9, <1>10 DEF QueueCandidate
  <2> QED
    BY <1>10, <2>1, <2>2 DEF QueueCandidate, Receives, connection, CandidateInv
<1>11. ASSUME NEW c \in Candidates, AddCandidate(c) PROVE CandidateInv'
  <2>1. Received' \subseteq Received \cup {c}
    BY <1>9, <1>11 DEF AddCandidate
  <2> QED
    BY <1>11, <2>1 DEF AddCandidate, Receives, CandidateInv
<1>12. CASE ClientAnswers
  <2>1. Received' \subseteq Received
    BY <1>12, ReceivedAfterSend, MessageTypes DEF ClientAnswers
  <2> QED
    BY <1>1, <1>12, <2>1 DEF ClientAnswers, connection
<1>13. ASSUME NEW c \in Candidates, ClientTrickles(c) PROVE CandidateInv'
  <2>1. Received' \subseteq Received
    BY <1>13, ReceivedAfterSend, MessageTypes DEF ClientTrickles
  <2> QED
    BY <1>1, <1>13, <2>1 DEF ClientTrickles, connection
<1>14. CASE UNCHANGED vars
  BY <1>1, <1>2, <1>14 DEF vars
<1> QED
  BY <1>3, <1>4, <1>5, <1>6, <1>7, <1>8, <1>10, <1>11, <1>12, <1>13, <1>14
     DEF Next, HandlerStep

\* Between two requests, every candidate received has reached the connection once
\* it can take them, in whatever order any number of them and of answers came.
THEOREM CandidatesArrive == Spec => []NoCandidateIsLost
<1>1. Init => TypeOK /\ CandidateInv
  BY InitType DEF Init, CandidateInv, Received
<1>2. TypeOK /\ CandidateInv /\ [Next]_vars => (TypeOK /\ CandidateInv)'
  BY TypeStep, CandidateStep
<1>3. CandidateInv => NoCandidateIsLost
  BY DEF CandidateInv, NoCandidateIsLost
<1> QED
  BY <1>1, <1>2, <1>3, PTL DEF Spec
=============================================================================
