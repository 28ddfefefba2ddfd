---------------------------- MODULE FanoutProofs ----------------------------
(***************************************************************************)
(* What is proved of Fanout for any peers, labels and owners.              *)
(***************************************************************************)
EXTENDS Fanout, SequenceFacts

-----------------------------------------------------------------------------
(* The inductive invariant.                                                *)

Made(p, l) == channels[p][l] # None

\* What a join has where it stands: the labels it has still to go through are in the
\* list, and the label in hand has a channel before its peers are asked.
JoinInv(k) ==
    /\ at[k] \notin {"idle", "add_peer"} => k[2] \in peers
    /\ \A l \in Labels : Occurs(l, left[k]) => HasLabel(l)
    /\ at[k] \in {"create", "collect", "collecting", "handler"} =>
          /\ left[k] # <<>> /\ chan[k] \in Channel
          /\ chan[k].at = k[2] /\ chan[k].label = Head(left[k])
    /\ at[k] \in {"collect", "collecting", "handler"} => Made(k[2], Head(left[k]))
    /\ at[k] \in {"media", "joined"} => left[k] = <<>>

\* What the task of an owner has: it has collected nothing if its label was new.
AddInv(k) ==
    /\ at[k] \in {"get_peer", "register", "copy_peers", "peers", "create", "handler"} =>
          HasLabel(k[3])
    /\ at[k] \in {"push", "get_peer", "register", "copy_peers", "peers", "create",
                  "handler"} =>
          data_channels_out[k] = {}
    /\ at[k] \in {"create", "handler"} =>
          /\ chan[k] \in Channel /\ chan[k].label = k[3]
          /\ chan[k].at \in peers \ (todo[k] \cup {k[2]})
    /\ data_channels_out[k] # {} => HasLabel(k[3])
    /\ at[k] = "find" => todo[k] = {}

\* A task never looks at its own peer for whom to pass messages to.
TaskInv(k) ==
    /\ k[2] \notin todo[k]
    /\ \A d \in data_channels_out[k] : d.at # k[2]
    /\ k \in Joins => JoinInv(k)
    /\ k \in Adds => AddInv(k)

\* A channel of a map has a label of the list, and a handler unless the task that
\* made it is about to give it one.
Handling(c) ==
    /\ chan[c.by] = c
    /\ \/ at[c.by] = "handler"
       \/ c.by \in Joins /\ at[c.by] \in {"collect", "collecting"}

ChannelInv ==
    \A p \in Peers, l \in Labels : Made(p, l) =>
        /\ HasLabel(l)
        /\ channels[p][l] \in DOMAIN on_message \/ Handling(channels[p][l])

\* The task of an owner that is to make, or find, a channel of its label for p.
Reaches(k, p) ==
    \/ at[k] \in {"get_peer", "register"}
    \/ at[k] = "copy_peers" /\ p # k[2]
    \/ at[k] \in {"peers", "create", "handler"} /\ p \in todo[k]
    \/ at[k] = "create" /\ chan[k].at = p

\* Who has read the list has a channel of each of its labels, or goes to have it, or
\* is reached by a task that brings it.
HasRead(p) == at[Join(p)] \notin {"idle", "add_peer", "subscribe"}

CoverInv ==
    \A p \in Peers, l \in Labels : HasRead(p) /\ HasLabel(l) =>
        \/ Made(p, l)
        \/ Occurs(l, left[Join(p)])
        \/ \E k \in Adds : k[3] = l /\ Reaches(k, p)

\* The channel that a task is about to make was never there.
Seen(c) == channels[c.at][c.label] = c \/ \E k \in Tasks : c \in due[k]

BeforeOwn == {"idle", "collect", "collecting", "find", "push", "get_peer", "register"}

FreshInv ==
    /\ \A k \in Tasks : at[k] = "create" => chan[k].by = k /\ ~Seen(chan[k])
    /\ \A k \in Adds : at[k] \in BeforeOwn => ~Seen(Own(k))

\* What a task could collect was open, and is as long as it is in a map; the task
\* of an owner has it, or has its peer still to ask.
DueInv ==
    \A k \in Tasks : \A c \in due[k] :
        /\ Made(c.at, c.label)
        /\ channels[c.at][c.label] = c => c \in open
        /\ k \in Adds /\ at[k] \in {"collecting", "find"} =>
              /\ c.label = k[3]
              /\ channels[c.at][c.label] = c =>
                    c \in data_channels_out[k] \/ c.at \in todo[k]

FanoutInv == /\ \A k \in Tasks : TaskInv(k)
             /\ ChannelInv /\ CoverInv /\ FreshInv /\ DueInv /\ NoEcho
-----------------------------------------------------------------------------
(* Tasks, labels and channels.                                             *)

LEMMA TaskFacts ==
    /\ Tasks = Joins \cup Adds /\ Joins \cap Adds = {}
    /\ None \notin Tasks /\ None \notin Channel
    /\ \A p \in Peers : Join(p) \in Joins /\ Join(p)[2] = p
    /\ \A k \in Joins : k[2] \in Peers /\ k = Join(k[2])
    /\ \A k \in Adds : k[2] \in Peers /\ k[3] \in Labels
<1>1. \A o \in Opens : o[1] \in Peers /\ o[2] \in Labels
  BY FanoutAssumption
<1>2. \A k \in Joins : \E p \in Peers : k = <<"join", p>> /\ k[1] = "join" /\ k[2] = p
  BY DEF Joins, Join
<1>3. \A k \in Adds : \E o \in Opens :
          k = <<"add", o[1], o[2]>> /\ k[1] = "add" /\ k[2] = o[1] /\ k[3] = o[2]
  BY DEF Adds, Add
<1>4. Joins \cap Adds = {}
  BY <1>2, <1>3
<1>5. \A k \in Joins : k[2] \in Peers /\ k = Join(k[2])
  BY <1>2 DEF Join
<1>6. \A k \in Adds : k[2] \in Peers /\ k[3] \in Labels
  BY <1>1, <1>3
<1>7. \A p \in Peers : Join(p) \in Joins /\ Join(p)[2] = p
  BY DEF Joins, Join
<1> QED
  BY <1>4, <1>5, <1>6, <1>7, FanoutAssumption DEF Tasks

LEMMA TaskKinds ==
    \A k \in Tasks : (k \in Joins /\ k \notin Adds) \/ (k \in Adds /\ k \notin Joins)
<1>1. Tasks = Joins \cup Adds /\ Joins \cap Adds = {}
  BY TaskFacts
<1> QED
  BY <1>1

LEMMA JoinOfPeer ==
    \A p \in Peers : Join(p) \in Tasks /\ Join(p) \in Joins /\ Join(p) \notin Adds
                    /\ Join(p)[2] = p
BY TaskFacts

LEMMA OwnFacts ==
    \A k \in Adds : /\ Own(k) \in Channel /\ Own(k).at = k[2] /\ Own(k).label = k[3]
                    /\ Own(k).by = k
BY TaskFacts DEF Own, Channel

LEMMA ChannelFacts ==
    \A c \in Channel : /\ c.at \in Peers /\ c.label \in Labels /\ c.by \in Tasks
                       /\ c # None
BY TaskFacts DEF Channel

\* The label in hand.
LEMMA LabelFacts ==
    ASSUME TypeOK, NEW k \in Tasks
    PROVE  /\ k \in Adds => LabelOf(k) = k[3] /\ LabelOf(k) \in Labels
           /\ k \in Joins => LabelOf(k) = Head(left[k])
           /\ k \in Joins /\ left[k] # <<>> =>
                 LabelOf(k) \in Labels /\ Occurs(LabelOf(k), left[k])
<1>1. left[k] \in Seq(Labels)
  BY DEF TypeOK
<1>2. left[k] # <<>> => Head(left[k]) \in Labels /\ Occurs(Head(left[k]), left[k])
  BY <1>1, TailOccurs
<1> QED
  BY <1>2, TaskFacts DEF LabelOf

\* What is collected from peers: the channels of the label in their maps.
LEMMA HeardFacts ==
    ASSUME TypeOK, NEW k \in Tasks, LabelOf(k) \in Labels, NEW S \in SUBSET Peers
    PROVE  /\ Heard(k, S) \subseteq Channel
           /\ \A c \in Heard(k, S) :
                 /\ c.at \in S /\ c.label = LabelOf(k) /\ c \in open
                 /\ channels[c.at][c.label] = c /\ Made(c.at, c.label)
           /\ \A c \in open : c.at \in S /\ c.label = LabelOf(k) => c \in Heard(k, S)
<1>1. ASSUME NEW s \in S, CanHear(s, LabelOf(k))
      PROVE  /\ channels[s][LabelOf(k)] \in open
             /\ channels[s][LabelOf(k)].at = s
             /\ channels[s][LabelOf(k)].label = LabelOf(k)
             /\ Made(s, LabelOf(k))
  BY <1>1 DEF TypeOK, CanHear, Made
<1>2. open \subseteq Channel
  BY DEF TypeOK
<1>3. ASSUME NEW c \in open, c.at \in S, c.label = LabelOf(k)
      PROVE  c \in Heard(k, S)
  BY <1>3, ChannelFacts DEF TypeOK, Heard, CanHear
<1> QED
  BY <1>1, <1>2, <1>3 DEF Heard
-----------------------------------------------------------------------------
(* Types.                                                                  *)

LEMMA InitType == Init => TypeOK
<1> SUFFICES ASSUME Init PROVE TypeOK
  OBVIOUS
<1>1. <<>> \in Seq(Labels)
  BY EmptySeq
<1>2. DOMAIN on_message = {} /\ on_message \in [{} -> SUBSET Channel]
  BY DEF Init
<1>3. at \in [Tasks -> {"joined", "idle"}] /\ \A k \in Adds : at[k] = "idle"
  BY TaskFacts, FanoutAssumption DEF Init
<1> QED
  BY <1>1, <1>2, <1>3, TaskFacts, FanoutAssumption
     DEF Init, TypeOK, JoinSteps, AddSteps

LEMMA CollectType ==
    ASSUME TypeOK, NEW k \in Tasks, TaskInv(k), CollectStep(k)
    PROVE  TypeOK'
<1>0. LabelOf(k) \in Labels
  BY LabelFacts, TaskFacts DEF TaskInv, JoinInv, CollectStep, BeginCollect, CollectFrom
<1>1. ASSUME NEW rest \in SUBSET peers, Collecting(k, rest),
             at[k] \in {"collect", "collecting"}
      PROVE  /\ todo' \in [Tasks -> SUBSET peers]
             /\ peers_lock' \in Tasks \cup {None}
             /\ at' \in [Tasks -> JoinSteps \cup AddSteps]
             /\ \A j \in Joins : at'[j] \in JoinSteps
             /\ \A j \in Adds : at'[j] \in AddSteps
  <2>1. (k \in Joins /\ k \notin Adds) \/ (k \in Adds /\ k \notin Joins)
    BY TaskKinds
  <2> QED
    BY <1>1, <2>1, TaskKinds DEF Collecting, TypeOK, JoinSteps, AddSteps
<1>2. CASE BeginCollect(k)
  <2>1. peers \ {k[2]} \in SUBSET peers /\ peers \ {k[2]} \in SUBSET Peers
    BY DEF TypeOK
  <2>2. Heard(k, peers \ {k[2]}) \subseteq Channel
    BY <1>0, <2>1, HeardFacts
  <2> QED
    BY <1>1, <1>2, <2>1, <2>2 DEF BeginCollect, TypeOK, shared
<1>3. CASE CollectFrom(k)
  <2>1. PICK s \in todo[k] :
            /\ Collecting(k, todo[k] \ {s})
            /\ data_channels_out' =
                   [data_channels_out EXCEPT ![k] = data_channels_out[k] \cup Heard(k, {s})]
    BY <1>3 DEF CollectFrom, TypeOK
  <2>2. todo[k] \ {s} \in SUBSET peers /\ {s} \in SUBSET Peers
    BY DEF TypeOK
  <2>3. Heard(k, {s}) \subseteq Channel
    BY <1>0, <2>2, HeardFacts
  <2>4. /\ todo' \in [Tasks -> SUBSET peers]
        /\ peers_lock' \in Tasks \cup {None}
        /\ at' \in [Tasks -> JoinSteps \cup AddSteps]
        /\ \A j \in Joins : at'[j] \in JoinSteps
        /\ \A j \in Adds : at'[j] \in AddSteps
    BY <1>1, <1>3, <2>1, <2>2 DEF CollectFrom
  <2>5. data_channels_out' \in [Tasks -> SUBSET Channel]
    BY <2>1, <2>3 DEF TypeOK
  <2>6. UNCHANGED <<left, chan, due, provider_lock, fanout_lock, peers, fanout_data_channels,
                    channels, negotiated, open, on_message>>
    BY <1>3 DEF CollectFrom, shared
  <2> QED
    BY <2>4, <2>5, <2>6 DEF TypeOK
<1> QED
  BY <1>2, <1>3 DEF CollectStep

\* A channel takes the place of another in the map, and is not open yet.
LEMMA ReplaceType ==
    ASSUME TypeOK, NEW c \in Channel,
           channels' = [channels EXCEPT ![c.at][c.label] = c],
           open' = open \ {channels[c.at][c.label]}
    PROVE  /\ channels' \in [Peers -> [Labels -> Channel \cup {None}]]
           /\ \A p \in Peers, l \in Labels :
                 channels'[p][l] = IF p = c.at /\ l = c.label THEN c ELSE channels[p][l]
           /\ \A p \in Peers, l \in Labels :
                 channels'[p][l] # None => channels'[p][l].at = p /\ channels'[p][l].label = l
           /\ open' \subseteq {d \in Channel : channels'[d.at][d.label] = d}
<1>0. c.at \in Peers /\ c.label \in Labels
  BY ChannelFacts
<1>1. channels' \in [Peers -> [Labels -> Channel \cup {None}]]
  BY <1>0 DEF TypeOK
<1>2. \A p \in Peers, l \in Labels :
          channels'[p][l] = IF p = c.at /\ l = c.label THEN c ELSE channels[p][l]
  BY <1>0 DEF TypeOK
<1>3. \A p \in Peers, l \in Labels :
          channels'[p][l] # None => channels'[p][l].at = p /\ channels'[p][l].label = l
  BY <1>2 DEF TypeOK
<1>4. ASSUME NEW d \in open' PROVE d \in Channel /\ channels'[d.at][d.label] = d
  <2>1. d \in Channel /\ channels[d.at][d.label] = d /\ d # channels[c.at][c.label]
    BY <1>4 DEF TypeOK
  <2> QED
    BY <1>2, <2>1, ChannelFacts
<1> QED
  BY <1>1, <1>2, <1>3, <1>4

LEMMA HandledType ==
    ASSUME TypeOK, NEW c \in Channel, NEW targets \in SUBSET Channel,
           on_message' = Handled(c, targets)
    PROVE  /\ DOMAIN on_message' = DOMAIN on_message \cup {c}
           /\ DOMAIN on_message' \subseteq Channel
           /\ on_message' \in [DOMAIN on_message' -> SUBSET Channel]
           /\ on_message'[c] = targets
           /\ \A d \in DOMAIN on_message \ {c} : on_message'[d] = on_message[d]
BY DEF TypeOK, Handled

LEMMA CreateType ==
    ASSUME TypeOK, NEW k \in Tasks, TaskInv(k), Create(k)
    PROVE  TypeOK'
<1>1. chan[k] \in Channel
  BY TaskFacts DEF Create, Goes, TaskInv, JoinInv, AddInv
<1>2. /\ channels' = [channels EXCEPT ![chan[k].at][chan[k].label] = chan[k]]
      /\ open' = open \ {channels[chan[k].at][chan[k].label]}
      /\ Goes(k, "create", IF k \in Joins THEN "collect" ELSE "handler")
      /\ UNCHANGED <<locals, locks, peers, fanout_data_channels, negotiated, on_message>>
  BY DEF Create
<1>3. /\ channels' \in [Peers -> [Labels -> Channel \cup {None}]]
      /\ \A p \in Peers, l \in Labels :
            channels'[p][l] # None => channels'[p][l].at = p /\ channels'[p][l].label = l
      /\ open' \subseteq {d \in Channel : channels'[d.at][d.label] = d}
  BY <1>1, <1>2, ReplaceType
<1> QED
  BY <1>2, <1>3, TaskFacts DEF Goes, TypeOK, JoinSteps, AddSteps, locals, locks
LEMMA LookupType ==
    ASSUME TypeOK, NEW k \in Tasks, NEW s \in Peers, NEW then, Lookup(k, s, then),
           LabelOf(k) \in Labels
    PROVE  /\ chan' \in [Tasks -> Channel \cup {None}]
           /\ at' = [at EXCEPT ![k] = IF Made(s, LabelOf(k)) THEN then ELSE "create"]
           /\ chan'[k] \in Channel /\ chan'[k].at = s /\ chan'[k].label = LabelOf(k)
           /\ Made(s, LabelOf(k)) => chan'[k] = channels[s][LabelOf(k)]
           /\ ~Made(s, LabelOf(k)) => chan'[k].by = k
           /\ \A j \in Tasks \ {k} : chan'[j] = chan[j]
<1> DEFINE new == [at |-> s, label |-> LabelOf(k), by |-> k]
<1>1. new \in Channel /\ new.at = s /\ new.label = LabelOf(k) /\ new.by = k
  BY DEF Channel
<1>2. /\ at' = [at EXCEPT ![k] = IF channels[s][LabelOf(k)] = None THEN "create" ELSE then]
      /\ chan' = [chan EXCEPT ![k] = IF channels[s][LabelOf(k)] # None
                                    THEN channels[s][LabelOf(k)] ELSE new]
  BY DEF Lookup
<1> HIDE DEF new
<1>3. /\ channels[s][LabelOf(k)] \in Channel \cup {None}
      /\ channels[s][LabelOf(k)] # None =>
            channels[s][LabelOf(k)].at = s /\ channels[s][LabelOf(k)].label = LabelOf(k)
      /\ chan \in [Tasks -> Channel \cup {None}]
  BY DEF TypeOK
<1>4. CASE Made(s, LabelOf(k))
  BY <1>2, <1>3, <1>4 DEF Made
<1>5. CASE ~Made(s, LabelOf(k))
  BY <1>1, <1>2, <1>3, <1>5 DEF Made
<1> QED
  BY <1>4, <1>5

LEMMA JoinType ==
    ASSUME TypeOK, NEW p \in Peers, TaskInv(Join(p)), BeginJoin(p) \/ JoinStep(p)
    PROVE  TypeOK'
<1> DEFINE k == Join(p)
<1>0. /\ k \in Tasks /\ k \in Joins /\ k \notin Adds /\ k[2] = p
      /\ k \in Joins \cup {None} /\ k \in Tasks \cup {None}
  BY JoinOfPeer
<1>00. TaskInv(k) /\ JoinInv(k)
  BY <1>0 DEF TaskInv
<1> HIDE DEF k
<1>1. CASE BeginJoin(p)
  BY <1>0, <1>1 DEF BeginJoin, Goes, TypeOK, JoinSteps, locals, shared, k
<1>2. CASE AddPeer(p)
  BY <1>0, <1>2 DEF AddPeer, Goes, TypeOK, JoinSteps, locals, locks, k
<1>3. CASE Subscribe(p)
  BY <1>0, <1>3 DEF Subscribe, Goes, TypeOK, JoinSteps, shared, k
<1>4. CASE SubscribeToLabel(p)
  <2>1. /\ Lookup(k, p, "collect") /\ at[k] = "labels"
        /\ UNCHANGED <<todo, left, data_channels_out, due, locks, shared>>
    BY <1>4 DEF SubscribeToLabel, k
  <2>2. LabelOf(k) \in Labels
    BY <1>0, <1>4, LabelFacts DEF SubscribeToLabel, k
  <2>3. /\ chan' \in [Tasks -> Channel \cup {None}]
        /\ at' = [at EXCEPT ![k] = IF Made(p, LabelOf(k)) THEN "collect" ELSE "create"]
    BY <1>0, <2>1, <2>2, LookupType
  <2> QED
    BY <1>0, <2>1, <2>3 DEF TypeOK, JoinSteps, shared, locks
<1>5. CASE CollectStep(k)
  BY <1>0, <1>00, <1>5, CollectType
<1>6. CASE Create(k)
  BY <1>0, <1>00, <1>6, CreateType
<1>7. CASE HandlerOfJoin(p)
  <2>1. /\ Goes(k, "handler", "labels") /\ on_message' = Handled(chan[k], data_channels_out[k])
        /\ left' = [left EXCEPT ![k] = Tail(left[k])] /\ Forget(k)
        /\ UNCHANGED <<todo, locks, peers, fanout_data_channels, channels, negotiated, open>>
    BY <1>0, <1>7 DEF HandlerOfJoin, TypeOK, k
  <2>2. chan[k] \in Channel /\ data_channels_out[k] \in SUBSET Channel /\ left[k] # <<>>
    BY <1>0, <1>00, <2>1 DEF JoinInv, Goes, TypeOK
  <2>3. /\ DOMAIN on_message' \subseteq Channel
        /\ on_message' \in [DOMAIN on_message' -> SUBSET Channel]
    BY <2>1, <2>2, HandledType
  <2>4. Tail(left[k]) \in Seq(Labels)
    BY <1>0, <2>2, TailFacts DEF TypeOK
  <2> QED
    BY <1>0, <2>1, <2>3, <2>4 DEF Goes, Forget, TypeOK, JoinSteps, locks
<1>8. CASE SubscribeToMedia(p)
  BY <1>0, <1>8 DEF SubscribeToMedia, Goes, TypeOK, JoinSteps, locals, shared, k
<1>9. CASE EndJoin(p)
  BY <1>0, <1>00, <1>9 DEF EndJoin, Goes, TypeOK, JoinSteps, JoinInv, locals, k
<1> QED
  BY <1>1, <1>2, <1>3, <1>4, <1>5, <1>6, <1>7, <1>8, <1>9 DEF JoinStep, k
LEMMA AddType ==
    ASSUME TypeOK, NEW k \in Adds, TaskInv(k), OnDataChannel(k) \/ AddStep(k)
    PROVE  TypeOK'
<1>0. /\ k \in Tasks /\ k \notin Joins /\ AddInv(k) /\ LabelOf(k) = k[3]
      /\ LabelOf(k) \in Labels /\ k[2] \in Peers /\ k[3] \in Labels
  BY TaskFacts DEF TaskInv, LabelOf
<1>1. CASE OnDataChannel(k)
  BY <1>0, <1>1 DEF OnDataChannel, Goes, TypeOK, AddSteps, locals, locks
<1>2. CASE CollectStep(k)
  BY <1>0, <1>2, CollectType
<1>3. CASE LateOpener(k)
  <2>1. /\ Goes(k, "find", "done") /\ on_message' = Handled(Own(k), data_channels_out[k])
        /\ Forget(k)
        /\ UNCHANGED <<todo, left, locks, peers, fanout_data_channels, channels,
                       negotiated, open>>
    BY <1>3 DEF LateOpener
  <2>2. Own(k) \in Channel /\ data_channels_out[k] \in SUBSET Channel
    BY <1>0, OwnFacts DEF TypeOK
  <2>3. /\ DOMAIN on_message' \subseteq Channel
        /\ on_message' \in [DOMAIN on_message' -> SUBSET Channel]
    BY <2>1, <2>2, HandledType
  <2> QED
    BY <1>0, <2>1, <2>3 DEF Goes, Forget, TypeOK, AddSteps, locks
<1>4. CASE NewLabel(k)
  BY <1>0, <1>4 DEF NewLabel, Goes, TypeOK, AddSteps, locks, shared
<1>5. CASE PushLabel(k)
  <2>1. fanout_data_channels' \in Seq(Labels)
    BY <1>0, <1>5, AppendFacts DEF PushLabel, TypeOK
  <2> QED
    BY <1>0, <1>5, <2>1 DEF PushLabel, Goes, TypeOK, AddSteps, locals, locks
<1>6. CASE GetPeer(k)
  BY <1>0, <1>6 DEF GetPeer, Goes, TypeOK, AddSteps, locals, locks, shared
<1>7. CASE RegisterOwn(k)
  <2>1. /\ Goes(k, "register", "copy_peers")
        /\ on_message' = Handled(Own(k), data_channels_out[k])
        /\ channels' = [channels EXCEPT ![Own(k).at][Own(k).label] = Own(k)]
        /\ open' = open \ {channels[Own(k).at][Own(k).label]}
        /\ UNCHANGED <<locals, locks, peers, fanout_data_channels, negotiated>>
    BY <1>7, OwnFacts DEF RegisterOwn
  <2>2. Own(k) \in Channel /\ data_channels_out[k] \in SUBSET Channel
    BY <1>0, OwnFacts DEF TypeOK
  <2>3. /\ DOMAIN on_message' \subseteq Channel
        /\ on_message' \in [DOMAIN on_message' -> SUBSET Channel]
    BY <2>1, <2>2, HandledType
  <2>4. /\ channels' \in [Peers -> [Labels -> Channel \cup {None}]]
        /\ \A p \in Peers, l \in Labels :
              channels'[p][l] # None => channels'[p][l].at = p /\ channels'[p][l].label = l
        /\ open' \subseteq {d \in Channel : channels'[d.at][d.label] = d}
    BY <2>1, <2>2, ReplaceType
  <2> QED
    BY <1>0, <2>1, <2>3, <2>4 DEF Goes, TypeOK, AddSteps, locals, locks
<1>8. CASE CopyPeers(k)
  BY <1>0, <1>8 DEF CopyPeers, Goes, TypeOK, AddSteps, locks, shared
<1>9. CASE AddToPeer(k)
  <2>1. PICK s \in todo[k] : /\ Lookup(k, s, "handler") /\ at[k] = "peers"
                             /\ todo' = [todo EXCEPT ![k] = todo[k] \ {s}]
                             /\ UNCHANGED <<left, data_channels_out, due, locks, shared>>
    BY <1>0, <1>9 DEF AddToPeer, TypeOK
  <2>2. s \in Peers
    BY <1>0 DEF TypeOK
  <2>3. /\ chan' \in [Tasks -> Channel \cup {None}]
        /\ at' = [at EXCEPT ![k] = IF Made(s, LabelOf(k)) THEN "handler" ELSE "create"]
    BY <1>0, <2>1, <2>2, LookupType
  <2> QED
    BY <1>0, <2>1, <2>3 DEF TypeOK, AddSteps, shared, locks
<1>10. CASE Create(k)
  BY <1>0, <1>10, CreateType
<1>11. CASE HandlerOfPeer(k)
  <2>1. /\ Goes(k, "handler", "peers") /\ on_message' = Handled(chan[k], data_channels_out[k])
        /\ negotiated' = negotiated \cup {chan[k].at} /\ chan' = [chan EXCEPT ![k] = None]
        /\ UNCHANGED <<todo, left, data_channels_out, due, locks, peers,
                       fanout_data_channels, channels, open>>
    BY <1>11 DEF HandlerOfPeer
  <2>2. chan[k] \in Channel /\ chan[k].at \in peers /\ data_channels_out[k] \in SUBSET Channel
    BY <1>0, <2>1 DEF AddInv, Goes, TypeOK
  <2>3. /\ DOMAIN on_message' \subseteq Channel
        /\ on_message' \in [DOMAIN on_message' -> SUBSET Channel]
    BY <2>1, <2>2, HandledType
  <2> QED
    BY <1>0, <2>1, <2>2, <2>3 DEF Goes, TypeOK, AddSteps, locks
<1>12. CASE EndAdd(k)
  BY <1>0, <1>12 DEF EndAdd, Goes, Forget, TypeOK, AddSteps, locks, shared
<1> QED
  BY <1>1, <1>2, <1>3, <1>4, <1>5, <1>6, <1>7, <1>8, <1>9, <1>10, <1>11, <1>12
     DEF AddStep

LEMMA OpenType ==
    ASSUME TypeOK, NEW p \in Peers, NEW l \in Labels, Open(p, l)
    PROVE  TypeOK'
<1>1. /\ channels[p][l] \in Channel /\ channels[p][l].at = p /\ channels[p][l].label = l
      /\ open' = open \cup {channels[p][l]}
      /\ UNCHANGED <<at, locals, locks, peers, fanout_data_channels, channels,
                     negotiated, on_message>>
  BY DEF Open, TypeOK
<1> QED
  BY <1>1 DEF TypeOK, locals, locks

\* A step is one of a task, or a channel that opens.
JoinActs(p) == BeginJoin(p) \/ JoinStep(p)
AddActs(k)  == OnDataChannel(k) \/ AddStep(k)

LEMMA NextIs ==
    [Next]_vars <=> \/ \E p \in Peers : JoinActs(p)
                    \/ \E k \in Adds : AddActs(k)
                    \/ \E p \in Peers, l \in Labels : Open(p, l)
                    \/ UNCHANGED vars
BY DEF Next, Working, JoinActs, AddActs

LEMMA TypeStep == TypeOK /\ FanoutInv /\ [Next]_vars => TypeOK'
<1>1. ASSUME TypeOK, FanoutInv, NEW p \in Peers, JoinActs(p) PROVE TypeOK'
  BY <1>1, JoinOfPeer, JoinType DEF FanoutInv, JoinActs
<1>2. ASSUME TypeOK, FanoutInv, NEW k \in Adds, AddActs(k) PROVE TypeOK'
  BY <1>2, TaskFacts, AddType DEF FanoutInv, AddActs
<1>3. TypeOK /\ UNCHANGED vars => TypeOK'
  BY DEF vars, TypeOK
<1> QED
  BY <1>1, <1>2, <1>3, OpenType, NextIs
-----------------------------------------------------------------------------
(* What a step leaves alone.                                               *)

\* The other tasks stay where they are.
Others(k) ==
    \A j \in Tasks \ {k} :
        /\ at'[j] = at[j] /\ todo'[j] = todo[j] /\ left'[j] = left[j]
        /\ chan'[j] = chan[j] /\ due'[j] = due[j]
        /\ data_channels_out'[j] = data_channels_out[j]

\* Nobody leaves, and no label or channel is taken away.
Grows ==
    /\ peers \subseteq peers'
    /\ \A l \in Labels : HasLabel(l) => HasLabel(l)'
    /\ \A p \in Peers, l \in Labels : Made(p, l) => Made(p, l)'

LEMMA CollectOthers ==
    ASSUME TypeOK, NEW k \in Tasks, CollectStep(k)
    PROVE  Others(k) /\ UNCHANGED shared
<1>1. CASE BeginCollect(k)
  BY <1>1 DEF BeginCollect, Collecting, Others, TypeOK
<1>2. CASE CollectFrom(k)
  BY <1>2 DEF CollectFrom, Collecting, Others, TypeOK
<1> QED
  BY <1>1, <1>2 DEF CollectStep

LEMMA JoinOthers ==
    ASSUME TypeOK, NEW p \in Peers, JoinActs(p)
    PROVE  Others(Join(p))
<1> DEFINE k == Join(p)
<1>0. k \in Tasks
  BY JoinOfPeer
<1> HIDE DEF k
<1>1. CASE BeginJoin(p) \/ AddPeer(p) \/ Subscribe(p) \/ SubscribeToMedia(p) \/ EndJoin(p)
  BY <1>0, <1>1 DEF BeginJoin, AddPeer, Subscribe, SubscribeToMedia, EndJoin, Goes,
                    Others, TypeOK, locals, k
<1>2. CASE SubscribeToLabel(p)
  BY <1>0, <1>2 DEF SubscribeToLabel, Lookup, Others, TypeOK, k
<1>3. CASE CollectStep(k)
  BY <1>0, <1>3, CollectOthers DEF k
<1>4. CASE Create(k)
  BY <1>0, <1>4 DEF Create, Goes, Others, TypeOK, locals, k
<1>5. CASE HandlerOfJoin(p)
  BY <1>0, <1>5 DEF HandlerOfJoin, Goes, Forget, Others, TypeOK, k
<1> QED
  BY <1>1, <1>2, <1>3, <1>4, <1>5 DEF JoinActs, JoinStep, k

LEMMA AddOthers ==
    ASSUME TypeOK, NEW k \in Adds, AddActs(k)
    PROVE  Others(k)
<1>0. k \in Tasks
  BY TaskFacts
<1>1. CASE OnDataChannel(k) \/ NewLabel(k) \/ PushLabel(k) \/ GetPeer(k) \/ RegisterOwn(k)
           \/ CopyPeers(k)
  BY <1>0, <1>1 DEF OnDataChannel, NewLabel, PushLabel, GetPeer, RegisterOwn, CopyPeers,
                    Goes, Others, TypeOK, locals
<1>2. CASE LateOpener(k) \/ EndAdd(k)
  BY <1>0, <1>2 DEF LateOpener, EndAdd, Goes, Forget, Others, TypeOK
<1>3. CASE CollectStep(k)
  BY <1>0, <1>3, CollectOthers
<1>4. CASE AddToPeer(k)
  BY <1>0, <1>4 DEF AddToPeer, Lookup, Others, TypeOK
<1>5. CASE Create(k) \/ HandlerOfPeer(k)
  BY <1>0, <1>5 DEF Create, HandlerOfPeer, Goes, Others, TypeOK, locals
<1> QED
  BY <1>1, <1>2, <1>3, <1>4, <1>5 DEF AddActs, AddStep

\* What the steps that change the shared state do to it, point by point.
LEMMA CreateFacts ==
    ASSUME TypeOK, NEW k \in Tasks, TaskInv(k), Create(k)
    PROVE  /\ chan[k] \in Channel
           /\ \A p \in Peers, l \in Labels :
                 channels'[p][l] = IF p = chan[k].at /\ l = chan[k].label
                                   THEN chan[k] ELSE channels[p][l]
           /\ open' = open \ {channels[chan[k].at][chan[k].label]}
           /\ at[k] = "create" /\ at'[k] = IF k \in Joins THEN "collect" ELSE "handler"
           /\ UNCHANGED <<todo, left, chan, data_channels_out, due, peers,
                          fanout_data_channels, negotiated, on_message>>
<1>1. chan[k] \in Channel
  BY TaskFacts DEF Create, Goes, TaskInv, JoinInv, AddInv
<1>2. /\ channels' = [channels EXCEPT ![chan[k].at][chan[k].label] = chan[k]]
      /\ open' = open \ {channels[chan[k].at][chan[k].label]}
      /\ Goes(k, "create", IF k \in Joins THEN "collect" ELSE "handler")
      /\ UNCHANGED <<locals, locks, peers, fanout_data_channels, negotiated, on_message>>
  BY DEF Create
<1>3. at'[k] = IF k \in Joins THEN "collect" ELSE "handler"
  BY <1>2 DEF Goes, TypeOK
<1> QED
  BY <1>1, <1>2, <1>3, ReplaceType DEF Goes, locals

LEMMA RegisterFacts ==
    ASSUME TypeOK, NEW k \in Adds, RegisterOwn(k)
    PROVE  /\ \A p \in Peers, l \in Labels :
                 channels'[p][l] = IF p = k[2] /\ l = k[3] THEN Own(k) ELSE channels[p][l]
           /\ open' = open \ {channels[k[2]][k[3]]}
           /\ DOMAIN on_message' = DOMAIN on_message \cup {Own(k)}
           /\ on_message'[Own(k)] = data_channels_out[k]
           /\ \A d \in DOMAIN on_message \ {Own(k)} : on_message'[d] = on_message[d]
           /\ at[k] = "register" /\ at'[k] = "copy_peers"
           /\ UNCHANGED <<todo, left, chan, data_channels_out, due, peers,
                          fanout_data_channels, negotiated>>
<1>1. /\ Goes(k, "register", "copy_peers")
      /\ on_message' = Handled(Own(k), data_channels_out[k])
      /\ channels' = [channels EXCEPT ![Own(k).at][Own(k).label] = Own(k)]
      /\ open' = open \ {channels[Own(k).at][Own(k).label]}
      /\ UNCHANGED <<locals, locks, peers, fanout_data_channels, negotiated>>
  BY OwnFacts DEF RegisterOwn
<1>2. /\ Own(k) \in Channel /\ data_channels_out[k] \in SUBSET Channel /\ k \in Tasks
      /\ Own(k).at = k[2] /\ Own(k).label = k[3]
  BY OwnFacts, TaskFacts DEF TypeOK
<1>3. at'[k] = "copy_peers"
  BY <1>1, <1>2 DEF Goes, TypeOK
<1>4. \A p \in Peers, l \in Labels :
          channels'[p][l] = IF p = k[2] /\ l = k[3] THEN Own(k) ELSE channels[p][l]
  BY <1>1, <1>2, ReplaceType
<1>5. /\ DOMAIN on_message' = DOMAIN on_message \cup {Own(k)}
      /\ on_message'[Own(k)] = data_channels_out[k]
      /\ \A d \in DOMAIN on_message \ {Own(k)} : on_message'[d] = on_message[d]
  BY <1>1, <1>2, HandledType
<1> QED
  BY <1>1, <1>2, <1>3, <1>4, <1>5 DEF Goes, locals
LEMMA PushFacts ==
    ASSUME TypeOK, NEW k \in Adds, PushLabel(k), NEW l \in Labels
    PROVE  HasLabel(l)' <=> HasLabel(l) \/ l = k[3]
<1>1. fanout_data_channels \in Seq(Labels) /\ k[3] \in Labels
  BY TaskFacts DEF TypeOK
<1>2. fanout_data_channels' = Append(fanout_data_channels, k[3])
  BY DEF PushLabel
<1>3. Occurs(l, fanout_data_channels') <=> Occurs(l, fanout_data_channels) \/ l = k[3]
  BY <1>1, <1>2, AppendOccurs
<1> QED
  BY <1>3 DEF HasLabel, Occurs

\* Most steps of a join change nothing that is shared; so with those of an owner.
LEMMA JoinShared ==
    ASSUME TypeOK, NEW p \in Peers, JoinActs(p)
    PROVE  \/ UNCHANGED shared
           \/ AddPeer(p) \/ Create(Join(p)) \/ HandlerOfJoin(p) \/ EndJoin(p)
BY JoinOfPeer, CollectOthers
   DEF JoinActs, JoinStep, BeginJoin, Subscribe, SubscribeToLabel, SubscribeToMedia

LEMMA AddShared ==
    ASSUME TypeOK, NEW k \in Adds, AddActs(k)
    PROVE  \/ UNCHANGED shared
           \/ LateOpener(k) \/ PushLabel(k) \/ RegisterOwn(k) \/ Create(k) \/ HandlerOfPeer(k)
<1>1. k \in Tasks
  BY TaskFacts
<1>2. CollectStep(k) => UNCHANGED shared
  BY <1>1, CollectOthers
<1> QED
  BY <1>2 DEF AddActs, AddStep, OnDataChannel, NewLabel, GetPeer, CopyPeers, AddToPeer,
              EndAdd, shared

LEMMA GrowsStep ==
    ASSUME TypeOK, FanoutInv, [Next]_vars
    PROVE  Grows
<1>1. ASSUME peers \subseteq peers', UNCHANGED <<fanout_data_channels, channels>>
      PROVE  Grows
  BY <1>1 DEF Grows, HasLabel, Made
<1>2. ASSUME NEW k \in Tasks, Create(k) PROVE Grows
  <2>1. /\ UNCHANGED <<peers, fanout_data_channels>>
        /\ \A p \in Peers, l \in Labels :
              channels'[p][l] = channels[p][l] \/ channels'[p][l] = chan[k]
        /\ chan[k] # None
    BY <1>2, CreateFacts, ChannelFacts DEF FanoutInv
  <2> QED
    BY <2>1 DEF Grows, HasLabel, Made
<1>3. ASSUME NEW k \in Adds, RegisterOwn(k) PROVE Grows
  <2>0. \A p \in Peers, l \in Labels :
            channels'[p][l] = IF p = k[2] /\ l = k[3] THEN Own(k) ELSE channels[p][l]
    BY <1>3, RegisterFacts
  <2>1. /\ UNCHANGED <<peers, fanout_data_channels>>
        /\ \A p \in Peers, l \in Labels :
              channels'[p][l] = channels[p][l] \/ channels'[p][l] = Own(k)
    BY <1>3, <2>0 DEF RegisterOwn
  <2>2. Own(k) # None
    BY OwnFacts, ChannelFacts
  <2> QED
    BY <2>1, <2>2 DEF Grows, HasLabel, Made
<1>4. ASSUME NEW k \in Adds, PushLabel(k) PROVE Grows
  BY <1>4, PushFacts DEF Grows, Made, PushLabel
<1>5. UNCHANGED shared => Grows
  BY <1>1 DEF shared
<1>6. ASSUME NEW p \in Peers, JoinActs(p) PROVE Grows
  <2>1. Join(p) \in Tasks
    BY JoinOfPeer
  <2>2. AddPeer(p) \/ HandlerOfJoin(p) \/ EndJoin(p) => Grows
    BY <1>1 DEF AddPeer, HandlerOfJoin, EndJoin
  <2> QED
    BY <1>2, <1>5, <1>6, <2>1, <2>2, JoinShared
<1>7. ASSUME NEW k \in Adds, AddActs(k) PROVE Grows
  <2>1. LateOpener(k) \/ HandlerOfPeer(k) => Grows
    BY <1>1 DEF LateOpener, HandlerOfPeer
  <2> QED
    BY <1>2, <1>3, <1>4, <1>5, <1>7, <2>1, TaskFacts, AddShared
<1>8. ASSUME NEW p \in Peers, NEW l \in Labels, Open(p, l) PROVE Grows
  BY <1>1, <1>8 DEF Open
<1>9. UNCHANGED vars => Grows
  BY <1>1 DEF vars
<1> QED
  BY <1>6, <1>7, <1>8, <1>9, NextIs

\* What a task has is not taken away by the steps of others.
LEMMA TaskKeeps ==
    ASSUME TypeOK, Grows, NEW j \in Tasks, TaskInv(j),
           at'[j] = at[j], todo'[j] = todo[j], left'[j] = left[j], chan'[j] = chan[j],
           data_channels_out'[j] = data_channels_out[j]
    PROVE  TaskInv(j)'
<1>0. left[j] \in Seq(Labels) /\ (left[j] # <<>> => Head(left[j]) \in Labels)
  BY TailFacts, HeadTailProperties DEF TypeOK
<1>1. ASSUME j \in Joins, JoinInv(j) PROVE JoinInv(j)'
  <2>1. j[2] \in Peers
    BY <1>1, TaskFacts
  <2> QED
    BY <1>0, <1>1, <2>1 DEF JoinInv, Grows
<1>2. ASSUME j \in Adds, AddInv(j) PROVE AddInv(j)'
  <2>1. j[3] \in Labels
    BY <1>2, TaskFacts
  <2> QED
    BY <1>2, <2>1 DEF AddInv, Grows
<1> QED
  BY <1>1, <1>2 DEF TaskInv
-----------------------------------------------------------------------------
(* What a task has where it stands.                                        *)

LEMMA CollectTask ==
    ASSUME TypeOK, FanoutInv, Grows, NEW k \in Tasks, CollectStep(k)
    PROVE  TaskInv(k)'
<1>0. /\ TaskInv(k) /\ at[k] \in {"collect", "collecting"}
      /\ UNCHANGED <<left, chan, peers, fanout_data_channels, channels>>
  BY DEF FanoutInv, CollectStep, BeginCollect, CollectFrom, shared
<1>1. LabelOf(k) \in Labels /\ (k \in Adds => LabelOf(k) = k[3])
  BY <1>0, LabelFacts, TaskKinds DEF TaskInv, JoinInv
<1>2. PICK rest \in SUBSET peers : Collecting(k, rest) /\ k[2] \notin rest
  BY <1>0 DEF CollectStep, BeginCollect, CollectFrom, TypeOK, TaskInv
<1>3. /\ at'[k] = IF rest # {} THEN "collecting" ELSE IF k \in Joins THEN "handler" ELSE "find"
      /\ todo'[k] = rest
  BY <1>2 DEF Collecting, TypeOK
<1>4. /\ \A d \in data_channels_out'[k] : d.at # k[2]
      /\ k \in Adds /\ data_channels_out'[k] # {} => HasLabel(k[3])
  <2>1. CASE BeginCollect(k)
    BY <2>1 DEF BeginCollect, TypeOK
  <2>2. CASE CollectFrom(k)
    <3>1. PICK s \in todo[k] :
              data_channels_out'[k] = data_channels_out[k] \cup Heard(k, {s})
      BY <2>2 DEF CollectFrom, TypeOK
    <3>2. {s} \in SUBSET Peers /\ s \in Peers
      BY DEF TypeOK
    <3>3. \A d \in Heard(k, {s}) : d.at = s /\ Made(s, LabelOf(k))
      BY <1>1, <3>2, HeardFacts
    <3>4. Made(s, LabelOf(k)) => HasLabel(LabelOf(k))
      BY <1>1, <3>2 DEF FanoutInv, ChannelInv
    <3> QED
      BY <1>0, <1>1, <3>1, <3>3, <3>4 DEF TaskInv, AddInv
  <2> QED
    BY <2>1, <2>2 DEF CollectStep
<1>5. ASSUME k \in Joins PROVE JoinInv(k)'
  BY <1>0, <1>3, <1>5 DEF TaskInv, JoinInv, HasLabel, Made
<1>6. ASSUME k \in Adds PROVE AddInv(k)'
  <2>1. k \notin Joins
    BY <1>6, TaskKinds
  <2> QED
    BY <1>0, <1>3, <1>4, <1>6, <2>1 DEF TaskInv, AddInv, HasLabel
<1> QED
  BY <1>2, <1>3, <1>4, <1>5, <1>6 DEF TaskInv

LEMMA CreateTask ==
    ASSUME TypeOK, FanoutInv, NEW k \in Tasks, Create(k)
    PROVE  TaskInv(k)'
<1>0. TaskInv(k)
  BY DEF FanoutInv
<1>1. /\ chan[k] \in Channel /\ at[k] = "create"
      /\ at'[k] = IF k \in Joins THEN "collect" ELSE "handler"
      /\ UNCHANGED <<todo, left, chan, data_channels_out, peers, fanout_data_channels>>
  BY <1>0, CreateFacts
<1>2. channels'[chan[k].at][chan[k].label] = chan[k] /\ chan[k] # None
  BY <1>0, CreateFacts, ChannelFacts
<1>3. ASSUME k \in Joins PROVE JoinInv(k)'
  BY <1>0, <1>1, <1>2, <1>3 DEF TaskInv, JoinInv, HasLabel, Made
<1>4. ASSUME k \in Adds PROVE AddInv(k)'
  <2>1. k \notin Joins
    BY <1>4, TaskKinds
  <2> QED
    BY <1>0, <1>1, <1>4, <2>1 DEF TaskInv, AddInv, HasLabel
<1> QED
  BY <1>0, <1>1, <1>3, <1>4 DEF TaskInv

LEMMA JoinTask ==
    ASSUME TypeOK, FanoutInv, Grows, NEW p \in Peers, JoinActs(p)
    PROVE  TaskInv(Join(p))'
<1> DEFINE k == Join(p)
<1>0. /\ k \in Tasks /\ k \in Joins /\ k \notin Adds /\ k[2] = p
  BY JoinOfPeer
<1>00. TaskInv(k) /\ JoinInv(k)
  BY <1>0 DEF FanoutInv, TaskInv
<1> HIDE DEF k
<1>000. left[k] \in Seq(Labels) /\ \A l : Occurs(l, fanout_data_channels) <=> HasLabel(l)
  BY <1>0 DEF TypeOK, HasLabel, Occurs
<1>1. CASE BeginJoin(p) \/ AddPeer(p)
  <2>1. /\ at'[k] \in {"add_peer", "subscribe"} /\ at[k] \in {"idle", "add_peer"}
        /\ at'[k] = "subscribe" => p \in peers'
        /\ UNCHANGED <<todo, left, data_channels_out, fanout_data_channels>>
    BY <1>0, <1>1 DEF BeginJoin, AddPeer, Goes, TypeOK, locals, shared, k
  <2> QED
    BY <1>0, <1>00, <2>1 DEF TaskInv, JoinInv, HasLabel, k
<1>2. CASE Subscribe(p)
  <2>1. /\ at'[k] = "labels" /\ at[k] = "subscribe" /\ left'[k] = fanout_data_channels
        /\ UNCHANGED <<todo, data_channels_out, fanout_data_channels, peers>>
    BY <1>0, <1>2 DEF Subscribe, Goes, TypeOK, shared, k
  <2> QED
    BY <1>0, <1>00, <1>000, <2>1 DEF TaskInv, JoinInv, HasLabel, k
<1>3. CASE SubscribeToLabel(p)
  <2>1. /\ Lookup(k, p, "collect") /\ at[k] = "labels" /\ left[k] # <<>>
        /\ UNCHANGED <<todo, left, data_channels_out, shared>>
    BY <1>3 DEF SubscribeToLabel, k
  <2>2. LabelOf(k) \in Labels /\ LabelOf(k) = Head(left[k])
    BY <1>0, <2>1, LabelFacts
  <2>3. /\ at'[k] = IF Made(p, LabelOf(k)) THEN "collect" ELSE "create"
        /\ chan'[k] \in Channel /\ chan'[k].at = p /\ chan'[k].label = LabelOf(k)
    BY <1>0, <2>1, <2>2, LookupType DEF TypeOK
  <2> QED
    BY <1>0, <1>00, <2>1, <2>2, <2>3 DEF TaskInv, JoinInv, HasLabel, Made, shared, k
<1>4. CASE HandlerOfJoin(p)
  <2>1. /\ at'[k] = "labels" /\ at[k] = "handler" /\ left'[k] = Tail(left[k])
        /\ data_channels_out'[k] = {} /\ UNCHANGED <<todo, fanout_data_channels, peers>>
    BY <1>0, <1>4 DEF HandlerOfJoin, Goes, Forget, TypeOK, k
  <2>2. \A l \in Labels : Occurs(l, Tail(left[k])) => Occurs(l, left[k])
    BY <1>00, <1>000, <2>1, TailOccurs DEF JoinInv
  <2> QED
    BY <1>0, <1>00, <2>1, <2>2 DEF TaskInv, JoinInv, HasLabel, k
<1>5. CASE SubscribeToMedia(p) \/ EndJoin(p)
  <2>1. /\ at'[k] \in {"media", "joined"} /\ at[k] \in {"labels", "media"}
        /\ left[k] = <<>> \/ at[k] = "media"
        /\ UNCHANGED <<todo, left, data_channels_out, fanout_data_channels, peers>>
    BY <1>0, <1>5 DEF SubscribeToMedia, EndJoin, Goes, TypeOK, locals, shared, k
  <2> QED
    BY <1>0, <1>00, <2>1 DEF TaskInv, JoinInv, HasLabel, k
<1> QED
  BY <1>0, <1>1, <1>2, <1>3, <1>4, <1>5, CollectTask, CreateTask DEF JoinActs, JoinStep, k
LEMMA AddTask ==
    ASSUME TypeOK, FanoutInv, Grows, NEW k \in Adds, AddActs(k)
    PROVE  TaskInv(k)'
<1>0. /\ k \in Tasks /\ k \notin Joins /\ LabelOf(k) = k[3] /\ LabelOf(k) \in Labels
      /\ k[2] \in Peers /\ k[3] \in Labels
  BY TaskFacts, TaskKinds DEF LabelOf
<1>00. TaskInv(k) /\ AddInv(k)
  BY <1>0 DEF FanoutInv, TaskInv
<1> USE DEF TaskInv, AddInv
<1>1. CASE OnDataChannel(k) \/ LateOpener(k) \/ EndAdd(k)
  <2>1. /\ at'[k] \in {"collect", "done"} /\ todo' = todo
        /\ data_channels_out'[k] \in {{}, data_channels_out[k]}
        /\ fanout_data_channels' = fanout_data_channels
    BY <1>0, <1>1 DEF OnDataChannel, LateOpener, EndAdd, Goes, Forget, TypeOK, locals,
                      shared
  <2> QED
    BY <1>0, <1>00, <2>1 DEF HasLabel
<1>2. CASE NewLabel(k)
  <2>1. /\ at'[k] = "push" /\ ~HasLabel(k[3])
        /\ UNCHANGED <<todo, data_channels_out, fanout_data_channels>>
    BY <1>0, <1>2 DEF NewLabel, Goes, TypeOK, shared
  <2> QED
    BY <1>0, <1>00, <2>1 DEF HasLabel
<1>3. CASE PushLabel(k)
  <2>1. /\ at'[k] = "get_peer" /\ at[k] = "push" /\ HasLabel(k[3])'
        /\ UNCHANGED <<todo, data_channels_out>>
    BY <1>0, <1>3, PushFacts DEF PushLabel, Goes, TypeOK, locals
  <2> QED
    BY <1>0, <1>00, <2>1
<1>4. CASE GetPeer(k) \/ RegisterOwn(k)
  <2>1. /\ at'[k] \in {"register", "copy_peers"} /\ at[k] \in {"get_peer", "register"}
        /\ UNCHANGED <<todo, data_channels_out, fanout_data_channels>>
    BY <1>0, <1>4 DEF GetPeer, RegisterOwn, Goes, TypeOK, locals, shared
  <2> QED
    BY <1>0, <1>00, <2>1 DEF HasLabel
<1>5. CASE CopyPeers(k)
  <2>1. /\ at'[k] = "peers" /\ at[k] = "copy_peers" /\ todo'[k] = peers \ {k[2]}
        /\ UNCHANGED <<data_channels_out, fanout_data_channels>>
    BY <1>0, <1>5 DEF CopyPeers, Goes, TypeOK, shared
  <2> QED
    BY <1>0, <1>00, <2>1 DEF HasLabel
<1>6. CASE AddToPeer(k)
  <2>1. PICK s \in todo[k] : /\ Lookup(k, s, "handler") /\ at[k] = "peers"
                             /\ todo'[k] = todo[k] \ {s}
                             /\ UNCHANGED <<data_channels_out, fanout_data_channels, peers>>
    BY <1>0, <1>6 DEF AddToPeer, TypeOK, shared
  <2>2. s \in Peers /\ s \in peers
    BY <1>0 DEF TypeOK
  <2>3. /\ at'[k] = IF Made(s, k[3]) THEN "handler" ELSE "create"
        /\ chan'[k] \in Channel /\ chan'[k].at = s /\ chan'[k].label = k[3]
    BY <1>0, <2>1, <2>2, LookupType DEF TypeOK
  <2> QED
    BY <1>0, <1>00, <2>1, <2>2, <2>3 DEF HasLabel
<1>7. CASE HandlerOfPeer(k)
  <2>1. /\ at'[k] = "peers" /\ at[k] = "handler"
        /\ UNCHANGED <<todo, data_channels_out, fanout_data_channels>>
    BY <1>0, <1>7 DEF HandlerOfPeer, Goes, TypeOK
  <2> QED
    BY <1>0, <1>00, <2>1 DEF HasLabel
<1> QED
  BY <1>0, <1>1, <1>2, <1>3, <1>4, <1>5, <1>6, <1>7, CollectTask, CreateTask
     DEF AddActs, AddStep

LEMMA TaskStep ==
    ASSUME TypeOK, FanoutInv, [Next]_vars
    PROVE  \A j \in Tasks : TaskInv(j)'
<1>0. Grows /\ \A j \in Tasks : TaskInv(j)
  BY GrowsStep DEF FanoutInv
<1>1. ASSUME NEW p \in Peers, JoinActs(p), NEW j \in Tasks PROVE TaskInv(j)'
  <2>1. j = Join(p) => TaskInv(j)'
    BY <1>0, <1>1, JoinTask
  <2>2. j # Join(p) => TaskInv(j)'
    BY <1>0, <1>1, JoinOthers, TaskKeeps DEF Others
  <2> QED
    BY <2>1, <2>2
<1>2. ASSUME NEW k \in Adds, AddActs(k), NEW j \in Tasks PROVE TaskInv(j)'
  <2>1. j = k => TaskInv(j)'
    BY <1>0, <1>2, AddTask
  <2>2. j # k => TaskInv(j)'
    BY <1>0, <1>2, AddOthers, TaskKeeps DEF Others
  <2> QED
    BY <2>1, <2>2
<1>3. ASSUME UNCHANGED <<at, locals>>, NEW j \in Tasks PROVE TaskInv(j)'
  BY <1>0, <1>3, TaskKeeps DEF locals
<1>4. ASSUME NEW p \in Peers, NEW l \in Labels, Open(p, l) PROVE UNCHANGED <<at, locals>>
  BY <1>4 DEF Open
<1>5. UNCHANGED vars => UNCHANGED <<at, locals>>
  BY DEF vars, locals
<1> QED
  BY <1>1, <1>2, <1>3, <1>4, <1>5, NextIs
-----------------------------------------------------------------------------
(* Handlers.                                                               *)

HasHandler(c) == c \in DOMAIN on_message \/ Handling(c)

\* Handlers are never taken away.
LEMMA HandlersGrow ==
    ASSUME TypeOK, FanoutInv, [Next]_vars
    PROVE  DOMAIN on_message \subseteq DOMAIN on_message'
<1>1. ASSUME NEW p \in Peers, JoinActs(p)
      PROVE  DOMAIN on_message \subseteq DOMAIN on_message'
  BY <1>1, JoinShared DEF AddPeer, Create, HandlerOfJoin, EndJoin, Handled, shared
<1>2. ASSUME NEW k \in Adds, AddActs(k)
      PROVE  DOMAIN on_message \subseteq DOMAIN on_message'
  BY <1>2, AddShared
     DEF LateOpener, PushLabel, RegisterOwn, Create, HandlerOfPeer, Handled, shared
<1>3. ASSUME NEW p \in Peers, NEW l \in Labels, Open(p, l)
      PROVE  DOMAIN on_message \subseteq DOMAIN on_message'
  BY <1>3 DEF Open
<1> QED
  BY <1>1, <1>2, <1>3, NextIs DEF vars

\* What a task is about to give a handler is given one.
LEMMA JoinHandles ==
    ASSUME TypeOK, FanoutInv, NEW p \in Peers, JoinActs(p),
           NEW c \in Channel, c.by = Join(p), Handling(c)
    PROVE  HasHandler(c)'
<1> DEFINE k == Join(p)
<1>0. k \in Tasks /\ k \in Joins /\ c.by = k
  BY JoinOfPeer
<1>00. at[k] \in {"collect", "collecting", "handler"} /\ chan[k] = c
  BY <1>0 DEF Handling
<1> HIDE DEF k
<1>1. CASE CollectStep(k)
  <2>1. at'[k] \in {"collecting", "handler"} /\ chan' = chan
    BY <1>0, <1>1 DEF CollectStep, BeginCollect, CollectFrom, Collecting, TypeOK
  <2> QED
    BY <1>0, <1>00, <2>1 DEF HasHandler, Handling
<1>2. CASE HandlerOfJoin(p)
  BY <1>0, <1>00, <1>2 DEF HandlerOfJoin, Handled, HasHandler, k
<1> QED
  BY <1>00, <1>1, <1>2
     DEF JoinActs, JoinStep, BeginJoin, AddPeer, Subscribe, SubscribeToLabel, Create,
         SubscribeToMedia, EndJoin, Goes, k

LEMMA AddHandles ==
    ASSUME TypeOK, FanoutInv, NEW k \in Adds, AddActs(k),
           NEW c \in Channel, c.by = k, Handling(c)
    PROVE  HasHandler(c)'
<1>1. at[k] = "handler" /\ chan[k] = c
  BY TaskKinds, TaskFacts DEF Handling
<1>2. HandlerOfPeer(k)
  BY <1>1 DEF AddActs, AddStep, OnDataChannel, CollectStep, BeginCollect, CollectFrom,
              LateOpener, NewLabel, PushLabel, GetPeer, RegisterOwn, CopyPeers,
              AddToPeer, Create, EndAdd, Goes
<1> QED
  BY <1>1, <1>2 DEF HandlerOfPeer, Handled, HasHandler

LEMMA HandlerKept ==
    ASSUME TypeOK, FanoutInv, [Next]_vars, NEW c \in Channel, HasHandler(c)
    PROVE  HasHandler(c)'
<1>0. c.by \in Tasks
  BY ChannelFacts
<1> SUFFICES ASSUME Handling(c) PROVE HasHandler(c)'
  BY HandlersGrow DEF HasHandler
<1>1. ASSUME NEW p \in Peers, JoinActs(p) PROVE HasHandler(c)'
  <2>1. c.by # Join(p) => HasHandler(c)'
    BY <1>0, <1>1, JoinOthers DEF Others, HasHandler, Handling
  <2> QED
    BY <1>1, <2>1, JoinHandles
<1>2. ASSUME NEW k \in Adds, AddActs(k) PROVE HasHandler(c)'
  <2>1. c.by # k => HasHandler(c)'
    BY <1>0, <1>2, AddOthers DEF Others, HasHandler, Handling
  <2> QED
    BY <1>2, <2>1, AddHandles
<1>3. ASSUME NEW p \in Peers, NEW l \in Labels, Open(p, l) PROVE HasHandler(c)'
  BY <1>3 DEF Open, locals, HasHandler, Handling
<1>4. UNCHANGED vars => HasHandler(c)'
  BY DEF vars, HasHandler, Handling
<1> QED
  BY <1>1, <1>2, <1>3, <1>4, NextIs

\* The maps change with Create and RegisterOwn only.
LEMMA MapsChange ==
    ASSUME TypeOK, [Next]_vars
    PROVE  \/ UNCHANGED channels
           \/ \E k \in Tasks : Create(k)
           \/ \E k \in Adds : RegisterOwn(k)
<1>1. ASSUME NEW p \in Peers, JoinActs(p) PROVE Create(Join(p)) \/ UNCHANGED channels
  BY <1>1, JoinShared DEF AddPeer, HandlerOfJoin, EndJoin, shared
<1>2. ASSUME NEW k \in Adds, AddActs(k)
      PROVE  Create(k) \/ RegisterOwn(k) \/ UNCHANGED channels
  BY <1>2, AddShared DEF LateOpener, PushLabel, HandlerOfPeer, shared
<1>3. ASSUME NEW p \in Peers, NEW l \in Labels, Open(p, l) PROVE UNCHANGED channels
  BY <1>3 DEF Open
<1> QED
  BY <1>1, <1>2, <1>3, NextIs, JoinOfPeer, TaskFacts DEF vars

LEMMA ChannelStep ==
    ASSUME TypeOK, FanoutInv, [Next]_vars
    PROVE  ChannelInv'
<1> SUFFICES ASSUME NEW p \in Peers, NEW l \in Labels, Made(p, l)'
             PROVE  HasLabel(l)' /\ HasHandler(channels[p][l])'
  BY DEF ChannelInv, HasHandler
<1>0. channels[p][l] \in Channel \cup {None}
  BY DEF TypeOK
<1>1. ASSUME channels'[p][l] = channels[p][l]
      PROVE  HasLabel(l)' /\ HasHandler(channels[p][l])'
  <2>1. Made(p, l) /\ channels[p][l] \in Channel
    BY <1>0, <1>1 DEF Made
  <2>2. HasLabel(l) /\ HasHandler(channels[p][l])
    BY <2>1 DEF FanoutInv, ChannelInv, HasHandler
  <2>3. HasLabel(l)'
    BY <2>2, GrowsStep DEF Grows
  <2>4. ASSUME NEW c \in Channel, HasHandler(c) PROVE HasHandler(c)'
    BY <2>4, HandlerKept
  <2> QED
    BY <1>1, <2>1, <2>2, <2>3, <2>4 DEF HasHandler, Handling
<1>2. ASSUME NEW k \in Tasks, Create(k), channels'[p][l] # channels[p][l]
      PROVE  HasLabel(l)' /\ HasHandler(channels[p][l])'
  <2>0. TaskInv(k)
    BY DEF FanoutInv
  <2>1. /\ channels'[p][l] = chan[k] /\ l = chan[k].label /\ at[k] = "create"
        /\ at'[k] = IF k \in Joins THEN "collect" ELSE "handler"
        /\ chan' = chan /\ fanout_data_channels' = fanout_data_channels
    BY <1>2, <2>0, CreateFacts
  <2>2. chan[k].by = k
    BY <2>1 DEF FanoutInv, FreshInv
  <2>3. HasLabel(l)
    <3>1. left[k] \in Seq(Labels)
      BY DEF TypeOK
    <3>2. left[k] # <<>> => Occurs(Head(left[k]), left[k])
      BY <3>1, TailOccurs
    <3> QED
      BY <2>0, <2>1, <3>2, TaskKinds DEF TaskInv, JoinInv, AddInv
  <2> QED
    BY <2>1, <2>2, <2>3 DEF HasHandler, Handling, HasLabel
<1>3. ASSUME NEW k \in Adds, RegisterOwn(k), channels'[p][l] # channels[p][l]
      PROVE  HasLabel(l)' /\ HasHandler(channels[p][l])'
  <2>1. /\ channels'[p][l] = Own(k) /\ l = k[3] /\ at[k] = "register"
        /\ DOMAIN on_message' = DOMAIN on_message \cup {Own(k)}
        /\ fanout_data_channels' = fanout_data_channels
    BY <1>3, RegisterFacts
  <2>2. HasLabel(k[3])
    BY <2>1, TaskFacts DEF FanoutInv, TaskInv, AddInv
  <2> QED
    BY <2>1, <2>2 DEF HasHandler, HasLabel
<1> QED
  BY <1>1, <1>2, <1>3, MapsChange
-----------------------------------------------------------------------------
(* Channels that were never there.                                         *)

\* What a task could collect changes only where it begins to, or is forgotten.
LEMMA DueChange ==
    ASSUME TypeOK, [Next]_vars, NEW j \in Tasks
    PROVE  BeginCollect(j) \/ due'[j] \subseteq due[j]
<1>1. ASSUME NEW k \in Tasks, CollectFrom(k) PROVE due' = due
  BY <1>1 DEF CollectFrom
<1>2. ASSUME NEW k \in Tasks, BeginCollect(k), k # j PROVE due'[j] = due[j]
  BY <1>2 DEF BeginCollect, TypeOK
<1>3. ASSUME NEW k \in Tasks, Create(k) PROVE due' = due
  BY <1>3 DEF Create, locals
<1>4. ASSUME NEW k \in Tasks, Forget(k) PROVE due'[j] \subseteq due[j]
  BY <1>4 DEF Forget, TypeOK
<1>5. ASSUME NEW p \in Peers, JoinActs(p)
      PROVE  BeginCollect(j) \/ due'[j] \subseteq due[j]
  BY <1>1, <1>2, <1>3, <1>4, <1>5, JoinOfPeer
     DEF JoinActs, JoinStep, BeginJoin, AddPeer, Subscribe, SubscribeToLabel,
         CollectStep, HandlerOfJoin, SubscribeToMedia, EndJoin, locals
<1>6. ASSUME NEW k \in Adds, AddActs(k)
      PROVE  BeginCollect(j) \/ due'[j] \subseteq due[j]
  <2>1. k \in Tasks
    BY TaskFacts
  <2>2. NewLabel(k) => due'[j] \subseteq due[j]
    BY <2>1 DEF NewLabel, TypeOK
  <2> QED
    BY <1>1, <1>2, <1>3, <1>4, <1>6, <2>1, <2>2
       DEF AddActs, AddStep, OnDataChannel, CollectStep, LateOpener, PushLabel, GetPeer,
           RegisterOwn, CopyPeers, AddToPeer, HandlerOfPeer, EndAdd, locals
<1>7. ASSUME NEW p \in Peers, NEW l \in Labels, Open(p, l) PROVE due' = due
  BY <1>7 DEF Open, locals
<1> QED
  BY <1>5, <1>6, <1>7, NextIs DEF vars

LEMMA BeginFacts ==
    ASSUME TypeOK, FanoutInv, NEW k \in Tasks, BeginCollect(k)
    PROVE  /\ due'[k] = Heard(k, peers \ {k[2]}) /\ LabelOf(k) \in Labels
           /\ peers \ {k[2]} \in SUBSET Peers /\ k[2] \in Peers
           /\ todo'[k] = peers \ {k[2]} /\ data_channels_out'[k] = {}
           /\ UNCHANGED <<channels, open>>
<1>1. k[2] \in Peers
  BY TaskKinds, TaskFacts
<1>2. LabelOf(k) \in Labels
  BY LabelFacts, TaskKinds DEF FanoutInv, TaskInv, JoinInv, BeginCollect
<1> QED
  BY <1>1, <1>2 DEF BeginCollect, Collecting, TypeOK, shared

\* A channel is there for the first time when it is made.
LEMMA SeenChange ==
    ASSUME TypeOK, FanoutInv, [Next]_vars, NEW c \in Channel, Seen(c)'
    PROVE  \/ Seen(c)
           \/ \E k \in Tasks : Create(k) /\ c = chan[k]
           \/ \E k \in Adds : RegisterOwn(k) /\ c = Own(k)
<1>1. CASE channels'[c.at][c.label] = c
  <2>0. c.at \in Peers /\ c.label \in Labels
    BY ChannelFacts
  <2>1. ASSUME NEW k \in Tasks, Create(k), c # chan[k] PROVE Seen(c)
    BY <1>1, <2>0, <2>1, CreateFacts DEF FanoutInv, Seen
  <2>2. ASSUME NEW k \in Adds, RegisterOwn(k), c # Own(k) PROVE Seen(c)
    <3>1. \A p \in Peers, l \in Labels :
              channels'[p][l] = IF p = k[2] /\ l = k[3] THEN Own(k) ELSE channels[p][l]
      BY <2>2, RegisterFacts
    <3> QED
      BY <1>1, <2>0, <2>2, <3>1 DEF Seen
  <2> QED
    BY <1>1, <2>1, <2>2, MapsChange DEF Seen
<1>2. ASSUME NEW j \in Tasks, c \in due'[j] PROVE Seen(c)
  <2>1. CASE BeginCollect(j)
    <3>1. /\ c \in Heard(j, peers \ {j[2]}) /\ LabelOf(j) \in Labels
          /\ peers \ {j[2]} \in SUBSET Peers
      BY <1>2, <2>1, BeginFacts
    <3> QED
      BY <3>1, HeardFacts DEF Seen
  <2> QED
    BY <1>2, <2>1, DueChange DEF Seen
<1> QED
  BY <1>1, <1>2 DEF Seen

\* A task makes a channel where it found none.
LEMMA JoinLooks ==
    ASSUME TypeOK, NEW p \in Peers, JoinActs(p), at'[Join(p)] = "create"
    PROVE  /\ SubscribeToLabel(p) /\ Lookup(Join(p), p, "collect")
           /\ LabelOf(Join(p)) \in Labels /\ UNCHANGED <<channels, due>>
<1> DEFINE k == Join(p)
<1>0. k \in Tasks /\ k \in Joins
  BY JoinOfPeer
<1> HIDE DEF k
<1>1. ~CollectStep(k)
  BY <1>0 DEF CollectStep, BeginCollect, CollectFrom, Collecting, TypeOK, k
<1>2. ~Create(k)
  BY <1>0 DEF Create, Goes, TypeOK, k
<1>3. SubscribeToLabel(p)
  BY <1>0, <1>1, <1>2
     DEF JoinActs, JoinStep, BeginJoin, AddPeer, Subscribe, HandlerOfJoin,
         SubscribeToMedia, EndJoin, Goes, TypeOK, k
<1>4. LabelOf(k) \in Labels
  BY <1>0, <1>3, LabelFacts DEF SubscribeToLabel, k
<1> QED
  BY <1>3, <1>4 DEF SubscribeToLabel, shared, k

LEMMA AddLooks ==
    ASSUME TypeOK, NEW k \in Adds, AddActs(k), at'[k] = "create"
    PROVE  /\ AddToPeer(k) /\ LabelOf(k) \in Labels /\ UNCHANGED <<channels, due>>
           /\ \E s \in Peers : Lookup(k, s, "handler")
<1>0. k \in Tasks /\ k \notin Joins /\ k[3] \in Labels
  BY TaskFacts, TaskKinds
<1>1. ~CollectStep(k)
  BY <1>0 DEF CollectStep, BeginCollect, CollectFrom, Collecting, TypeOK
<1>2. ~Create(k)
  BY <1>0 DEF Create, Goes, TypeOK
<1>3. AddToPeer(k)
  BY <1>0, <1>1, <1>2
     DEF AddActs, AddStep, OnDataChannel, LateOpener, NewLabel, PushLabel, GetPeer,
         RegisterOwn, CopyPeers, HandlerOfPeer, EndAdd, Goes, TypeOK
<1>4. \E s \in Peers : Lookup(k, s, "handler")
  BY <1>0, <1>3 DEF AddToPeer, TypeOK
<1> QED
  BY <1>0, <1>3, <1>4 DEF AddToPeer, LabelOf, shared
\* Nobody found a channel that a task could not find.
LEMMA FoundNone ==
    ASSUME TypeOK, FanoutInv, NEW j \in Tasks, NEW s \in Peers, NEW then,
           Lookup(j, s, then), LabelOf(j) \in Labels, then # "create",
           at'[j] = "create", UNCHANGED <<channels, due>>
    PROVE  chan'[j] \in Channel /\ chan'[j].by = j /\ ~Seen(chan[j])'
<1>1. /\ at'[j] = IF Made(s, LabelOf(j)) THEN then ELSE "create"
      /\ chan'[j] \in Channel /\ chan'[j].at = s /\ chan'[j].label = LabelOf(j)
      /\ ~Made(s, LabelOf(j)) => chan'[j].by = j
  BY LookupType DEF TypeOK
<1>2. ~Made(s, LabelOf(j)) /\ chan'[j].by = j /\ chan'[j] # None
  BY <1>1, ChannelFacts
<1>3. channels[chan'[j].at][chan'[j].label] # chan'[j]
  BY <1>1, <1>2 DEF Made
<1>4. \A k \in Tasks : chan'[j] \notin due[k]
  BY <1>1, <1>2 DEF FanoutInv, DueInv, Made
<1> QED
  BY <1>1, <1>2, <1>3, <1>4 DEF Seen

\* A task that looks for a channel stays with it until it has made it.
LEMMA FreshCreate ==
    ASSUME TypeOK, FanoutInv, [Next]_vars, NEW j \in Tasks, at'[j] = "create",
           at[j] = "create", chan'[j] = chan[j],
           ~Create(j), \A k \in Adds : RegisterOwn(k) => k # j
    PROVE  chan'[j].by = j /\ ~Seen(chan[j])'
<1>1. chan[j].by = j /\ ~Seen(chan[j]) /\ chan[j] \in Channel
  BY TaskKinds DEF FanoutInv, FreshInv, TaskInv, JoinInv, AddInv
<1>2. ASSUME NEW k \in Tasks, Create(k) PROVE chan[j] # chan[k]
  <2>1. chan[k].by = k /\ k # j
    BY <1>2 DEF FanoutInv, FreshInv, Create, Goes
  <2> QED
    BY <1>1, <2>1
<1>3. ASSUME NEW k \in Adds, RegisterOwn(k) PROVE chan[j] # Own(k)
  BY <1>1, <1>3, OwnFacts
<1>4. PICK c \in Channel : c = chan[j] /\ c = chan'[j]
  BY <1>1
<1>5. ~Seen(c)'
  BY <1>1, <1>2, <1>3, <1>4, SeenChange
<1>6. Seen(c)' <=> Seen(chan[j])'
  BY <1>4 DEF Seen
<1> QED
  BY <1>1, <1>5, <1>6
LEMMA FreshTask ==
    ASSUME TypeOK, FanoutInv, [Next]_vars, NEW j \in Tasks, at'[j] = "create"
    PROVE  chan'[j].by = j /\ ~Seen(chan[j])'
<1>0. ~Create(j) /\ \A k \in Adds : RegisterOwn(k) => k # j
  BY DEF Create, RegisterOwn, Goes, TypeOK
<1>1. ASSUME at[j] = "create", chan'[j] = chan[j] PROVE chan'[j].by = j /\ ~Seen(chan[j])'
  BY <1>0, <1>1, FreshCreate
<1>2. ASSUME NEW p \in Peers, JoinActs(p) PROVE chan'[j].by = j /\ ~Seen(chan[j])'
  <2>1. j # Join(p) => chan'[j].by = j /\ ~Seen(chan[j])'
    BY <1>1, <1>2, JoinOthers DEF Others
  <2>2. ASSUME j = Join(p) PROVE chan'[j].by = j /\ ~Seen(chan[j])'
    <3>1. /\ Lookup(j, p, "collect") /\ LabelOf(j) \in Labels
          /\ UNCHANGED <<channels, due>>
      BY <1>2, <2>2, JoinLooks
    <3> QED
      BY <3>1, FoundNone
  <2> QED
    BY <2>1, <2>2
<1>3. ASSUME NEW k \in Adds, AddActs(k) PROVE chan'[j].by = j /\ ~Seen(chan[j])'
  <2>1. j # k => chan'[j].by = j /\ ~Seen(chan[j])'
    BY <1>1, <1>3, AddOthers DEF Others
  <2>2. ASSUME j = k PROVE chan'[j].by = j /\ ~Seen(chan[j])'
    <3>1. /\ \E s \in Peers : Lookup(j, s, "handler")
          /\ LabelOf(j) \in Labels /\ UNCHANGED <<channels, due>>
      BY <1>3, <2>2, AddLooks
    <3> QED
      BY <3>1, FoundNone
  <2> QED
    BY <2>1, <2>2
<1>4. ASSUME NEW p \in Peers, NEW l \in Labels, Open(p, l)
      PROVE  at[j] = "create" /\ chan'[j] = chan[j]
  BY <1>4 DEF Open, locals
<1>5. UNCHANGED vars => at[j] = "create" /\ chan'[j] = chan[j]
  BY DEF vars
<1> QED
  BY <1>1, <1>2, <1>3, <1>4, <1>5, NextIs

\* The channel of an owner is there from the moment it is registered.
LEMMA OwnTask ==
    ASSUME TypeOK, FanoutInv, [Next]_vars, NEW k \in Adds, at'[k] \in BeforeOwn
    PROVE  ~Seen(Own(k))'
<1>0. /\ k \in Tasks /\ Own(k) \in Channel /\ Own(k).by = k
  BY OwnFacts, TaskFacts
<1>1. at[k] \in BeforeOwn
  <2>1. ASSUME NEW p \in Peers, JoinActs(p) PROVE at'[k] = at[k]
    BY <1>0, <2>1, JoinOthers, JoinOfPeer DEF Others
  <2>2. ASSUME NEW j \in Adds, AddActs(j), j # k PROVE at'[k] = at[k]
    BY <1>0, <2>2, AddOthers DEF Others
  <2>3. CASE AddActs(k)
    <3>1. CASE AddToPeer(k)
      BY <1>0, <3>1 DEF AddToPeer, Lookup, TypeOK, BeforeOwn
    <3>2. CASE CollectStep(k)
      BY <3>2 DEF CollectStep, BeginCollect, CollectFrom, BeforeOwn
    <3>3. OnDataChannel(k) \/ LateOpener(k) \/ NewLabel(k) \/ PushLabel(k) \/ GetPeer(k)
              => at[k] \in BeforeOwn
      BY DEF OnDataChannel, LateOpener, NewLabel, PushLabel, GetPeer, Goes, BeforeOwn
    <3>4. RegisterOwn(k) \/ CopyPeers(k) \/ Create(k) \/ HandlerOfPeer(k) \/ EndAdd(k)
              => at'[k] \notin BeforeOwn
      BY <1>0, TaskKinds
         DEF RegisterOwn, CopyPeers, Create, HandlerOfPeer, EndAdd, Goes, TypeOK, BeforeOwn
    <3> QED
      BY <2>3, <3>1, <3>2, <3>3, <3>4 DEF AddActs, AddStep
  <2>4. ASSUME NEW p \in Peers, NEW l \in Labels, Open(p, l) PROVE at'[k] = at[k]
    BY <2>4 DEF Open
  <2> QED
    BY <2>1, <2>2, <2>3, <2>4, NextIs DEF vars
<1>2. ~Seen(Own(k))
  BY <1>1 DEF FanoutInv, FreshInv
<1>3. ASSUME NEW j \in Tasks, Create(j) PROVE Own(k) # chan[j]
  <2>1. chan[j].by = j
    BY <1>3 DEF FanoutInv, FreshInv, Create, Goes
  <2>2. j # k
    BY <1>0, <1>1, <1>3 DEF Create, Goes, BeforeOwn
  <2> QED
    BY <1>0, <2>1, <2>2
<1>4. ASSUME NEW j \in Adds, RegisterOwn(j) PROVE Own(k) # Own(j)
  <2>1. Own(j).by = j
    BY OwnFacts
  <2>2. j # k
    BY <1>0, <1>4 DEF RegisterOwn, Goes, BeforeOwn, TypeOK
  <2> QED
    BY <1>0, <2>1, <2>2
<1>5. PICK c \in Channel : c = Own(k)
  BY <1>0
<1>6. ~Seen(c)'
  BY <1>2, <1>3, <1>4, <1>5, SeenChange
<1> QED
  BY <1>5, <1>6 DEF Own

LEMMA FreshStep ==
    ASSUME TypeOK, FanoutInv, [Next]_vars
    PROVE  FreshInv'
BY FreshTask, OwnTask DEF FreshInv
-----------------------------------------------------------------------------
(* What is collected.                                                      *)

\* Nobody makes again what was there.
LEMMA NotMadeAgain ==
    ASSUME TypeOK, FanoutInv, [Next]_vars, NEW c \in Channel, Seen(c),
           channels'[c.at][c.label] = c
    PROVE  /\ channels[c.at][c.label] = c
           /\ c \in open => c \in open'
<1>0. c.at \in Peers /\ c.label \in Labels
  BY ChannelFacts
<1>1. ASSUME NEW k \in Tasks, Create(k)
      PROVE  channels[c.at][c.label] = c /\ (c \in open => c \in open')
  <2>1. /\ chan[k] # c /\ at[k] = "create" /\ chan[k] \in Channel
        /\ channels'[c.at][c.label] = IF c.at = chan[k].at /\ c.label = chan[k].label
                                      THEN chan[k] ELSE channels[c.at][c.label]
        /\ open' = open \ {channels[chan[k].at][chan[k].label]}
    BY <1>0, <1>1, CreateFacts DEF FanoutInv, FreshInv
  <2>2. channels[c.at][c.label] = c /\ ~(c.at = chan[k].at /\ c.label = chan[k].label)
    BY <2>1
  <2>3. chan[k].at \in Peers /\ chan[k].label \in Labels
    BY <2>1, ChannelFacts
  <2>4. c # channels[chan[k].at][chan[k].label]
    BY <2>2, <2>3, ChannelFacts DEF TypeOK
  <2> QED
    BY <2>1, <2>2, <2>4
<1>2. ASSUME NEW k \in Adds, RegisterOwn(k)
      PROVE  channels[c.at][c.label] = c /\ (c \in open => c \in open')
  <2>0. \A p \in Peers, l \in Labels :
            channels'[p][l] = IF p = k[2] /\ l = k[3] THEN Own(k) ELSE channels[p][l]
    BY <1>2, RegisterFacts
  <2>1. /\ channels'[c.at][c.label] = IF c.at = k[2] /\ c.label = k[3]
                                      THEN Own(k) ELSE channels[c.at][c.label]
        /\ open' = open \ {channels[k[2]][k[3]]} /\ at[k] = "register"
    BY <1>0, <1>2, <2>0 DEF RegisterOwn, Goes
  <2>2. Own(k) # c
    BY <2>1 DEF FanoutInv, FreshInv, BeforeOwn
  <2>3. channels[c.at][c.label] = c /\ ~(c.at = k[2] /\ c.label = k[3])
    BY <2>1, <2>2
  <2>4. c # channels[k[2]][k[3]]
    BY <2>3, ChannelFacts, TaskFacts DEF TypeOK
  <2> QED
    BY <2>1, <2>3, <2>4
<1>3. ASSUME UNCHANGED channels,
             ~(\E k \in Tasks : Create(k)), ~(\E k \in Adds : RegisterOwn(k))
      PROVE  channels[c.at][c.label] = c /\ (c \in open => c \in open')
  <2>1. ASSUME NEW p \in Peers, JoinActs(p) PROVE open' = open
    BY <1>3, <2>1, JoinShared, JoinOfPeer DEF AddPeer, HandlerOfJoin, EndJoin, shared
  <2>2. ASSUME NEW k \in Adds, AddActs(k) PROVE open' = open
    BY <1>3, <2>2, AddShared, TaskFacts DEF LateOpener, PushLabel, HandlerOfPeer, shared
  <2>3. ASSUME NEW p \in Peers, NEW l \in Labels, Open(p, l) PROVE open \subseteq open'
    BY <2>3 DEF Open
  <2>4. open \subseteq open'
    BY <2>1, <2>2, <2>3, NextIs DEF vars
  <2> QED
    BY <1>3, <2>4
<1> QED
  BY <1>1, <1>2, <1>3, MapsChange

\* What an owner's task has collected, or is still to look at.
LEMMA CollectDue ==
    ASSUME TypeOK, FanoutInv, NEW k \in Adds, CollectStep(k), NEW c \in due'[k]
    PROVE  /\ c.label = k[3]
           /\ channels'[c.at][c.label] = c =>
                 c \in data_channels_out'[k] \/ c.at \in todo'[k]
<1>0. /\ k \in Tasks /\ LabelOf(k) = k[3] /\ LabelOf(k) \in Labels
  BY TaskFacts DEF LabelOf
<1>1. CASE BeginCollect(k)
  <2>1. /\ c \in Heard(k, peers \ {k[2]}) /\ peers \ {k[2]} \in SUBSET Peers
        /\ todo'[k] = peers \ {k[2]}
    BY <1>0, <1>1, BeginFacts
  <2> QED
    BY <1>0, <2>1, HeardFacts
<1>2. CASE CollectFrom(k)
  <2>1. PICK s \in todo[k] :
            /\ Collecting(k, todo[k] \ {s})
            /\ data_channels_out'[k] = data_channels_out[k] \cup Heard(k, {s})
    BY <1>0, <1>2 DEF CollectFrom, TypeOK
  <2>2. todo'[k] = todo[k] \ {s} /\ {s} \in SUBSET Peers
    BY <1>0, <2>1 DEF Collecting, TypeOK
  <2>3. c \in due[k] /\ at[k] = "collecting" /\ UNCHANGED channels
    BY <1>2 DEF CollectFrom, shared
  <2>4. /\ c.label = k[3]
        /\ channels[c.at][c.label] = c =>
              c \in open /\ (c \in data_channels_out[k] \/ c.at \in todo[k])
    BY <1>0, <2>3 DEF FanoutInv, DueInv
  <2>5. c \in open /\ c.at = s => c \in Heard(k, {s})
    BY <1>0, <2>2, <2>4, HeardFacts
  <2> QED
    BY <2>1, <2>2, <2>3, <2>4, <2>5
<1> QED
  BY <1>1, <1>2 DEF CollectStep

LEMMA DueStep ==
    ASSUME TypeOK, FanoutInv, [Next]_vars
    PROVE  DueInv'
<1> SUFFICES ASSUME NEW j \in Tasks, NEW c \in due'[j]
             PROVE  /\ Made(c.at, c.label)'
                    /\ channels'[c.at][c.label] = c => c \in open'
                    /\ j \in Adds /\ at'[j] \in {"collecting", "find"} =>
                          /\ c.label = j[3]
                          /\ channels'[c.at][c.label] = c =>
                                c \in data_channels_out'[j] \/ c.at \in todo'[j]
  BY DEF DueInv, Made
<1>0. c \in Channel
  <2>1. TypeOK'
    BY TypeStep
  <2> QED
    BY <2>1 DEF TypeOK
<1>1. c.at \in Peers /\ c.label \in Labels
  BY <1>0, ChannelFacts
<1>2. ASSUME BeginCollect(j)
      PROVE  Made(c.at, c.label)' /\ (channels'[c.at][c.label] = c => c \in open')
  <2>1. /\ c \in Heard(j, peers \ {j[2]}) /\ LabelOf(j) \in Labels
        /\ peers \ {j[2]} \in SUBSET Peers /\ UNCHANGED <<channels, open>>
    BY <1>2, BeginFacts
  <2>2. c \in open /\ Made(c.at, c.label)
    BY <2>1, HeardFacts
  <2> QED
    BY <2>1, <2>2 DEF Made
<1>3. ASSUME c \in due[j]
      PROVE  Made(c.at, c.label)' /\ (channels'[c.at][c.label] = c => c \in open')
  <2>1. Made(c.at, c.label) /\ (channels[c.at][c.label] = c => c \in open) /\ Seen(c)
    BY <1>3 DEF FanoutInv, DueInv, Seen
  <2>2. Made(c.at, c.label)'
    BY <1>1, <2>1, GrowsStep DEF Grows
  <2> QED
    BY <1>0, <2>1, <2>2, NotMadeAgain
<1>4. ASSUME at'[j] = at[j], due'[j] = due[j], j \in Adds, at'[j] \in {"collecting", "find"},
             data_channels_out'[j] = data_channels_out[j], todo'[j] = todo[j]
      PROVE  /\ c.label = j[3]
             /\ channels'[c.at][c.label] = c =>
                   c \in data_channels_out'[j] \/ c.at \in todo'[j]
  <2>1. /\ c.label = j[3] /\ Seen(c)
        /\ channels[c.at][c.label] = c => c \in data_channels_out[j] \/ c.at \in todo[j]
    BY <1>4 DEF FanoutInv, DueInv, Seen
  <2> QED
    BY <1>0, <1>4, <2>1, NotMadeAgain
<1>5. ASSUME j \in Adds, at'[j] \in {"collecting", "find"}
      PROVE  /\ c.label = j[3]
             /\ channels'[c.at][c.label] = c =>
                   c \in data_channels_out'[j] \/ c.at \in todo'[j]
  <2>1. ASSUME NEW p \in Peers, JoinActs(p)
        PROVE  /\ at'[j] = at[j] /\ due'[j] = due[j] /\ todo'[j] = todo[j]
               /\ data_channels_out'[j] = data_channels_out[j]
    BY <1>5, <2>1, JoinOthers, JoinOfPeer DEF Others
  <2>2. ASSUME NEW k \in Adds, AddActs(k), k # j
        PROVE  /\ at'[j] = at[j] /\ due'[j] = due[j] /\ todo'[j] = todo[j]
               /\ data_channels_out'[j] = data_channels_out[j]
    BY <2>2, AddOthers DEF Others
  <2>3. AddActs(j) => CollectStep(j)
    BY <1>5, TaskKinds
       DEF AddActs, AddStep, OnDataChannel, LateOpener, NewLabel, PushLabel, GetPeer,
           RegisterOwn, CopyPeers, AddToPeer, Lookup, Create, HandlerOfPeer, EndAdd,
           Goes, TypeOK
  <2>4. ASSUME UNCHANGED <<at, locals>>
        PROVE  /\ at'[j] = at[j] /\ due'[j] = due[j] /\ todo'[j] = todo[j]
               /\ data_channels_out'[j] = data_channels_out[j]
    BY <2>4 DEF locals
  <2>5. UNCHANGED vars => UNCHANGED <<at, locals>>
    BY DEF vars, locals
  <2>6. ASSUME NEW p \in Peers, NEW l \in Labels, Open(p, l) PROVE UNCHANGED <<at, locals>>
    BY <2>6 DEF Open
  <2> QED
    BY <1>4, <1>5, <2>1, <2>2, <2>3, <2>4, <2>5, <2>6, CollectDue, NextIs
<1> QED
  BY <1>2, <1>3, <1>5, DueChange
-----------------------------------------------------------------------------
(* Whoever has read the list has its labels.                               *)

LEMMA ReachesActs ==
    ASSUME TypeOK, FanoutInv, Grows, NEW k \in Adds, AddActs(k), NEW p \in Peers,
           p \in peers, Reaches(k, p)
    PROVE  Reaches(k, p)' \/ Made(p, k[3])'
<1>0. /\ k \in Tasks /\ k \notin Joins /\ AddInv(k) /\ LabelOf(k) = k[3]
      /\ LabelOf(k) \in Labels /\ k[2] \in Peers /\ k[3] \in Labels
  BY TaskFacts, TaskKinds DEF LabelOf, FanoutInv, TaskInv
<1>1. CASE GetPeer(k)
  BY <1>0, <1>1 DEF GetPeer, Goes, TypeOK, Reaches
<1>2. CASE RegisterOwn(k)
  <2>1. \A q \in Peers, l \in Labels :
            channels'[q][l] = IF q = k[2] /\ l = k[3] THEN Own(k) ELSE channels[q][l]
    BY <1>2, RegisterFacts
  <2>2. at'[k] = "copy_peers"
    BY <1>0, <1>2 DEF RegisterOwn, Goes, TypeOK
  <2>3. Own(k) # None
    BY OwnFacts, ChannelFacts
  <2> QED
    BY <1>0, <2>1, <2>2, <2>3 DEF Reaches, Made
<1>3. CASE CopyPeers(k)
  BY <1>0, <1>3 DEF CopyPeers, Goes, TypeOK, Reaches
<1>4. CASE AddToPeer(k)
  <2>1. PICK s \in todo[k] : /\ Lookup(k, s, "handler") /\ at[k] = "peers"
                             /\ todo'[k] = todo[k] \ {s} /\ UNCHANGED channels
    BY <1>0, <1>4 DEF AddToPeer, TypeOK, shared
  <2>2. s \in Peers
    BY <1>0 DEF TypeOK
  <2>3. /\ at'[k] = IF Made(s, k[3]) THEN "handler" ELSE "create"
        /\ chan'[k].at = s
    BY <1>0, <2>1, <2>2, LookupType DEF TypeOK
  <2> QED
    BY <2>1, <2>3 DEF Reaches, Made
<1>5. CASE Create(k)
  <2>1. /\ at'[k] = "handler" /\ at[k] = "create" /\ todo' = todo
        /\ chan[k] \in Channel /\ chan[k].label = k[3]
        /\ \A q \in Peers, l \in Labels :
              channels'[q][l] = IF q = chan[k].at /\ l = chan[k].label
                                THEN chan[k] ELSE channels[q][l]
    BY <1>0, <1>5, CreateFacts DEF AddInv, FanoutInv
  <2>2. chan[k].at = p => Made(p, k[3])'
    BY <1>0, <2>1, ChannelFacts DEF Made
  <2> QED
    BY <2>1, <2>2 DEF Reaches
<1>6. CASE HandlerOfPeer(k)
  BY <1>0, <1>6 DEF HandlerOfPeer, Goes, TypeOK, Reaches
<1>7. ~(OnDataChannel(k) \/ LateOpener(k) \/ NewLabel(k) \/ PushLabel(k) \/ EndAdd(k)
        \/ CollectStep(k))
  BY DEF OnDataChannel, LateOpener, NewLabel, PushLabel, EndAdd, CollectStep,
         BeginCollect, CollectFrom, Goes, Reaches
<1> QED
  BY <1>1, <1>2, <1>3, <1>4, <1>5, <1>6, <1>7 DEF AddActs, AddStep

LEMMA ReachesStep ==
    ASSUME TypeOK, FanoutInv, [Next]_vars, NEW k \in Adds, NEW p \in Peers,
           p \in peers, Reaches(k, p)
    PROVE  Reaches(k, p)' \/ Made(p, k[3])'
<1>0. k \in Tasks /\ Grows
  BY TaskFacts, GrowsStep
<1>1. ASSUME at'[k] = at[k], todo'[k] = todo[k], chan'[k] = chan[k] PROVE Reaches(k, p)'
  BY <1>1 DEF Reaches
<1>2. ASSUME NEW q \in Peers, JoinActs(q) PROVE Reaches(k, p)'
  BY <1>0, <1>1, <1>2, JoinOthers, JoinOfPeer DEF Others
<1>3. ASSUME NEW j \in Adds, AddActs(j), j # k PROVE Reaches(k, p)'
  BY <1>0, <1>1, <1>3, AddOthers DEF Others
<1>4. ASSUME NEW q \in Peers, NEW l \in Labels, Open(q, l) PROVE Reaches(k, p)'
  BY <1>1, <1>4 DEF Open, locals
<1>5. UNCHANGED vars => Reaches(k, p)'
  BY <1>1 DEF vars
<1> QED
  BY <1>0, <1>2, <1>3, <1>4, <1>5, ReachesActs, NextIs

\* Only subscribe reads the list, only the handler of a label takes it off.
LEMMA LeftStep ==
    ASSUME TypeOK, [Next]_vars, NEW p \in Peers
    PROVE  \/ Subscribe(p) \/ HandlerOfJoin(p)
           \/ left'[Join(p)] = left[Join(p)] /\ (HasRead(p)' => HasRead(p))
<1>0. Join(p) \in Tasks /\ Join(p) \in Joins /\ Join(p) \notin Adds
  BY JoinOfPeer
<1>1. ASSUME at'[Join(p)] = at[Join(p)], left'[Join(p)] = left[Join(p)]
      PROVE  left'[Join(p)] = left[Join(p)] /\ (HasRead(p)' => HasRead(p))
  BY <1>1 DEF HasRead
<1>2. ASSUME NEW q \in Peers, JoinActs(q), q # p
      PROVE  at'[Join(p)] = at[Join(p)] /\ left'[Join(p)] = left[Join(p)]
  <2>1. Join(p) # Join(q)
    BY <1>2, JoinOfPeer
  <2> QED
    BY <1>0, <1>2, <2>1, JoinOthers DEF Others
<1>3. ASSUME NEW k \in Adds, AddActs(k)
      PROVE  at'[Join(p)] = at[Join(p)] /\ left'[Join(p)] = left[Join(p)]
  BY <1>0, <1>3, AddOthers DEF Others
<1>4. CASE JoinActs(p)
  <2>1. CASE BeginJoin(p) \/ AddPeer(p)
    BY <1>0, <2>1 DEF BeginJoin, AddPeer, Goes, TypeOK, HasRead, locals
  <2>2. CASE SubscribeToLabel(p) \/ CollectStep(Join(p)) \/ Create(Join(p))
             \/ SubscribeToMedia(p) \/ EndJoin(p)
    BY <2>2 DEF SubscribeToLabel, CollectStep, BeginCollect, CollectFrom, Create,
                SubscribeToMedia, EndJoin, Goes, HasRead, locals
  <2> QED
    BY <1>4, <2>1, <2>2 DEF JoinActs, JoinStep
<1>5. ASSUME NEW q \in Peers, NEW l \in Labels, Open(q, l)
      PROVE  at'[Join(p)] = at[Join(p)] /\ left'[Join(p)] = left[Join(p)]
  BY <1>5 DEF Open, locals
<1>6. UNCHANGED vars => at'[Join(p)] = at[Join(p)] /\ left'[Join(p)] = left[Join(p)]
  BY DEF vars
<1> QED
  BY <1>1, <1>2, <1>3, <1>4, <1>5, <1>6, NextIs

\* A label is new only where it is pushed.
LEMMA LabelsStep ==
    ASSUME TypeOK, [Next]_vars, NEW l \in Labels, HasLabel(l)'
    PROVE  HasLabel(l) \/ \E k \in Adds : PushLabel(k) /\ l = k[3]
<1>1. ASSUME UNCHANGED fanout_data_channels PROVE HasLabel(l)
  BY <1>1 DEF HasLabel
<1>2. ASSUME NEW k \in Adds, PushLabel(k), l # k[3] PROVE HasLabel(l)
  BY <1>2, PushFacts
<1>3. ASSUME NEW p \in Peers, JoinActs(p) PROVE UNCHANGED fanout_data_channels
  BY <1>3, JoinShared DEF AddPeer, Create, HandlerOfJoin, EndJoin, shared
<1>4. ASSUME NEW k \in Adds, AddActs(k) PROVE UNCHANGED fanout_data_channels \/ PushLabel(k)
  BY <1>4, AddShared DEF LateOpener, RegisterOwn, Create, HandlerOfPeer, shared
<1>5. ASSUME NEW p \in Peers, NEW m \in Labels, Open(p, m)
      PROVE  UNCHANGED fanout_data_channels
  BY <1>5 DEF Open
<1> QED
  BY <1>1, <1>2, <1>3, <1>4, <1>5, NextIs DEF vars

LEMMA CoverStep ==
    ASSUME TypeOK, FanoutInv, [Next]_vars
    PROVE  CoverInv'
<1> SUFFICES ASSUME NEW p \in Peers, NEW l \in Labels, HasRead(p)', HasLabel(l)'
             PROVE  \/ Made(p, l)' \/ Occurs(l, left'[Join(p)])
                    \/ \E k \in Adds : k[3] = l /\ Reaches(k, p)'
  BY DEF CoverInv
<1>0. Join(p) \in Tasks /\ Join(p)[2] = p /\ JoinInv(Join(p)) /\ Grows
  BY JoinOfPeer, GrowsStep DEF FanoutInv, TaskInv
<1>1. CASE Subscribe(p)
  <2>1. left'[Join(p)] = fanout_data_channels /\ UNCHANGED fanout_data_channels
    BY <1>0, <1>1 DEF Subscribe, TypeOK, shared
  <2> QED
    BY <2>1 DEF HasLabel, Occurs
<1>2. ASSUME ~HasLabel(l) PROVE \E k \in Adds : k[3] = l /\ Reaches(k, p)'
  <2>1. PICK k \in Adds : PushLabel(k) /\ l = k[3]
    BY <1>2, LabelsStep
  <2>2. at'[k] = "get_peer"
    BY <2>1, TaskFacts DEF PushLabel, Goes, TypeOK
  <2> QED
    BY <2>1, <2>2 DEF Reaches
<1>3. ASSUME HasRead(p), HasLabel(l), ~Subscribe(p)
      PROVE  \/ Made(p, l)' \/ Occurs(l, left'[Join(p)])
             \/ \E k \in Adds : k[3] = l /\ Reaches(k, p)'
  <2>1. CASE Made(p, l)
    BY <1>0, <2>1 DEF Grows
  <2>2. CASE Occurs(l, left[Join(p)])
    <3>1. CASE HandlerOfJoin(p)
      <4>1. /\ left'[Join(p)] = Tail(left[Join(p)]) /\ left[Join(p)] \in Seq(Labels)
            /\ at[Join(p)] = "handler"
        BY <1>0, <3>1 DEF HandlerOfJoin, Goes, TypeOK
      <4>2. left[Join(p)] # <<>> /\ Made(p, Head(left[Join(p)]))
        BY <1>0, <4>1 DEF JoinInv
      <4>3. l = Head(left[Join(p)]) \/ Occurs(l, left'[Join(p)])
        BY <2>2, <4>1, <4>2, TailOccurs
      <4> QED
        BY <1>0, <4>2, <4>3 DEF Grows
    <3> QED
      BY <1>3, <2>2, <3>1, LeftStep
  <2>3. ASSUME NEW k \in Adds, k[3] = l, Reaches(k, p)
        PROVE  Made(p, l)' \/ \E j \in Adds : j[3] = l /\ Reaches(j, p)'
    <3>1. p \in peers
      BY <1>0, <1>3 DEF HasRead, JoinInv
    <3> QED
      BY <2>3, <3>1, ReachesStep
  <2> QED
    BY <1>3, <2>1, <2>2, <2>3 DEF FanoutInv, CoverInv
<1>4. HandlerOfJoin(p) => HasRead(p)
  BY DEF HandlerOfJoin, Goes, HasRead
<1> QED
  BY <1>1, <1>2, <1>3, <1>4, LeftStep
-----------------------------------------------------------------------------
(* Nobody hears himself.                                                   *)

LEMMA EchoHandled ==
    ASSUME TypeOK, NoEcho, NEW c \in Channel, NEW targets \in SUBSET Channel,
           on_message' = Handled(c, targets), \A d \in targets : d.at # c.at
    PROVE  NoEcho'
<1>1. /\ DOMAIN on_message' = DOMAIN on_message \cup {c} /\ on_message'[c] = targets
      /\ \A d \in DOMAIN on_message \ {c} : on_message'[d] = on_message[d]
  BY HandledType
<1> QED
  BY <1>1 DEF NoEcho

LEMMA EchoStep ==
    ASSUME TypeOK, FanoutInv, [Next]_vars
    PROVE  NoEcho'
<1>0. NoEcho
  BY DEF FanoutInv
<1>1. UNCHANGED on_message => NoEcho'
  BY <1>0 DEF NoEcho
<1>2. ASSUME NEW p \in Peers, HandlerOfJoin(p) PROVE NoEcho'
  <2> DEFINE k == Join(p)
  <2>1. k \in Tasks /\ k[2] = p /\ TaskInv(k) /\ JoinInv(k)
    BY JoinOfPeer DEF FanoutInv, TaskInv
  <2> HIDE DEF k
  <2>2. at[k] = "handler" /\ on_message' = Handled(chan[k], data_channels_out[k])
    BY <1>2 DEF HandlerOfJoin, Goes, k
  <2>3. chan[k] \in Channel /\ \A d \in data_channels_out[k] : d.at # chan[k].at
    BY <2>1, <2>2 DEF TaskInv, JoinInv
  <2>4. data_channels_out[k] \in SUBSET Channel
    BY <2>1 DEF TypeOK
  <2> QED
    BY <1>0, <2>2, <2>3, <2>4, EchoHandled
<1>3. ASSUME NEW k \in Adds, LateOpener(k) \/ RegisterOwn(k) \/ HandlerOfPeer(k)
      PROVE  NoEcho'
  <2>1. k \in Tasks /\ TaskInv(k) /\ AddInv(k)
    BY TaskFacts DEF FanoutInv, TaskInv
  <2>2. data_channels_out[k] \in SUBSET Channel
    BY <2>1 DEF TypeOK
  <2>3. CASE LateOpener(k) \/ RegisterOwn(k)
    <3>1. on_message' = Handled(Own(k), data_channels_out[k])
      BY <2>3 DEF LateOpener, RegisterOwn
    <3>2. Own(k) \in Channel /\ \A d \in data_channels_out[k] : d.at # Own(k).at
      BY <2>1, OwnFacts DEF TaskInv
    <3> QED
      BY <1>0, <2>2, <3>1, <3>2, EchoHandled
  <2>4. CASE HandlerOfPeer(k)
    <3>1. at[k] = "handler" /\ on_message' = Handled(chan[k], data_channels_out[k])
      BY <2>4 DEF HandlerOfPeer, Goes
    <3>2. chan[k] \in Channel /\ data_channels_out[k] = {}
      BY <2>1, <3>1 DEF AddInv
    <3> QED
      BY <1>0, <2>2, <3>1, <3>2, EchoHandled
  <2> QED
    BY <1>3, <2>3, <2>4
<1>4. ASSUME NEW p \in Peers, JoinActs(p) PROVE NoEcho'
  BY <1>1, <1>2, <1>4, JoinShared DEF AddPeer, Create, EndJoin, shared
<1>5. ASSUME NEW k \in Adds, AddActs(k) PROVE NoEcho'
  BY <1>1, <1>3, <1>5, AddShared DEF PushLabel, Create, shared
<1>6. ASSUME NEW p \in Peers, NEW l \in Labels, Open(p, l) PROVE NoEcho'
  BY <1>1, <1>6 DEF Open
<1> QED
  BY <1>1, <1>4, <1>5, <1>6, NextIs DEF vars
-----------------------------------------------------------------------------
(* The theorems.                                                           *)

LEMMA InitFanout == Init => FanoutInv
<1> SUFFICES ASSUME Init PROVE FanoutInv
  OBVIOUS
<1>1. /\ \A k \in Tasks : /\ at[k] \in {"joined", "idle"} /\ left[k] = <<>> /\ todo[k] = {}
                          /\ data_channels_out[k] = {} /\ due[k] = {}
      /\ \A p \in Peers, l \in Labels : ~Made(p, l) /\ ~HasLabel(l)
      /\ DOMAIN on_message = {}
  BY DEF Init, Made, HasLabel
<1>2. \A k \in Tasks : \A l : ~Occurs(l, left[k])
  BY <1>1 DEF Occurs
<1>3. ASSUME NEW k \in Joins PROVE JoinInv(k)
  <2>1. k \in Tasks
    BY TaskFacts
  <2>2. at[k] = "joined" => k[2] \in peers
    <3>1. at[k] = "joined" => k \in {Join(p) : p \in Early}
      BY <2>1 DEF Init
    <3>2. \A p \in Early : Join(p)[2] = p
      BY DEF Join
    <3> QED
      BY <3>1, <3>2 DEF Init
  <2> QED
    BY <1>1, <1>2, <2>1, <2>2 DEF JoinInv
<1>4. ASSUME NEW k \in Adds PROVE AddInv(k)
  <2>1. k \in Tasks
    BY TaskFacts
  <2> QED
    BY <1>1, <2>1 DEF AddInv
<1>5. \A k \in Tasks : TaskInv(k)
  BY <1>1, <1>3, <1>4 DEF TaskInv
<1>6. ChannelInv /\ CoverInv /\ DueInv /\ NoEcho
  BY <1>1 DEF ChannelInv, CoverInv, DueInv, NoEcho
<1>7. FreshInv
  <2>1. ASSUME NEW k \in Adds PROVE ~Seen(Own(k))
    <3>1. Own(k) # None /\ channels[k[2]][k[3]] = None
      BY <1>1, TaskFacts, OwnFacts, ChannelFacts DEF Made
    <3> QED
      BY <1>1, <3>1, OwnFacts DEF Seen
  <2> QED
    BY <1>1, <2>1 DEF FreshInv
<1> QED
  BY <1>5, <1>6, <1>7 DEF FanoutInv

LEMMA FanoutInvariant == Spec => [](TypeOK /\ FanoutInv)
<1>1. Init => TypeOK /\ FanoutInv
  BY InitType, InitFanout
<1>2. TypeOK /\ FanoutInv /\ [Next]_vars => TypeOK' /\ FanoutInv'
  <2> SUFFICES ASSUME TypeOK, FanoutInv, [Next]_vars PROVE TypeOK' /\ FanoutInv'
    OBVIOUS
  <2>1. \A k \in Tasks : TaskInv(k)'
    BY TaskStep
  <2>2. ChannelInv' /\ CoverInv' /\ FreshInv' /\ DueInv' /\ NoEcho'
    BY ChannelStep, CoverStep, FreshStep, DueStep, EchoStep
  <2> QED
    BY <2>1, <2>2, TypeStep DEF FanoutInv
<1> QED
  BY <1>1, <1>2, PTL DEF Spec

\* The maps hold channels of their own subscriber and label, only those are open,
\* and a handler passes messages to channels.
THEOREM TypeCorrect == Spec => []TypeOK
BY FanoutInvariant, PTL

\* However many owners bring a label while others join, everybody who has joined has
\* a channel of it with a handler once they are done.
THEOREM LabelsReachAll == Spec => []NobodyMissesALabel
<1>1. TypeOK /\ FanoutInv => NobodyMissesALabel
  <2> SUFFICES ASSUME TypeOK, FanoutInv, NEW p \in Peers, NEW l \in Labels,
                      at[Join(p)] = "joined", HasLabel(l),
                      \A k \in Adds : k[3] = l => at[k] \in {"idle", "done"}
               PROVE  channels[p][l] \in DOMAIN on_message
    BY DEF NobodyMissesALabel
  <2>1. ~Occurs(l, left[Join(p)])
    BY JoinOfPeer DEF FanoutInv, TaskInv, JoinInv, Occurs
  <2>2. \A k \in Adds : k[3] = l => ~Reaches(k, p)
    BY DEF Reaches
  <2>3. Made(p, l)
    BY <2>1, <2>2 DEF FanoutInv, CoverInv, HasRead
  <2>4. PICK c \in Channel : c = channels[p][l] /\ c.at = p /\ c.label = l
    BY <2>3 DEF TypeOK, Made
  <2>5. c \in DOMAIN on_message \/ Handling(c)
    BY <2>3, <2>4 DEF FanoutInv, ChannelInv
  <2>6. ~Handling(c)
    <3>1. ASSUME Handling(c), c.by \in Joins PROVE FALSE
      <4>1. c.by[2] = p
        BY <2>4, <3>1 DEF FanoutInv, TaskInv, JoinInv, Handling, Tasks
      <4> QED
        BY <3>1, <4>1, TaskFacts DEF Handling
    <3>2. ASSUME Handling(c), c.by \in Adds PROVE FALSE
      <4>1. c.by[3] = l
        BY <2>4, <3>2, TaskKinds, TaskFacts DEF FanoutInv, TaskInv, AddInv, Handling
      <4> QED
        BY <3>2, <4>1, TaskKinds, TaskFacts DEF Handling
    <3> QED
      BY <3>1, <3>2, <2>4, ChannelFacts, TaskKinds
  <2> QED
    BY <2>4, <2>5, <2>6
<1> QED
  BY <1>1, FanoutInvariant, PTL

\* No message comes back to who sent it, in whatever order the owners of a label and
\* those who join are served.
THEOREM NobodyHearsHimself == Spec => []NoEcho
<1>1. FanoutInv => NoEcho
  BY DEF FanoutInv
<1> QED
  BY <1>1, FanoutInvariant, PTL

\* The last of its steps gives the owner's channel all it could collect.
Heeded ==
    \A k \in Adds :
        at[k] = "find" /\ at'[k] = "done" =>
            \A c \in due[k] : channels[c.at][c.label] = c => c \in on_message'[Own(k)]

LEMMA HeededStep ==
    ASSUME TypeOK, FanoutInv, [Next]_vars
    PROVE  Heeded
<1> SUFFICES ASSUME NEW k \in Adds, at[k] = "find", at'[k] = "done",
                    NEW c \in due[k], channels[c.at][c.label] = c
             PROVE  c \in on_message'[Own(k)]
  BY DEF Heeded
<1>0. k \in Tasks
  BY TaskFacts
<1>1. c \in data_channels_out[k]
  BY <1>0 DEF FanoutInv, TaskInv, AddInv, DueInv
<1>2. LateOpener(k)
  <2>1. ASSUME NEW p \in Peers, JoinActs(p) PROVE FALSE
    BY <1>0, <2>1, JoinOthers, JoinOfPeer DEF Others
  <2>2. ASSUME NEW j \in Adds, AddActs(j), j # k PROVE FALSE
    BY <1>0, <2>2, AddOthers DEF Others
  <2>3. AddActs(k) => LateOpener(k)
    BY <1>0 DEF AddActs, AddStep, OnDataChannel, CollectStep, BeginCollect, CollectFrom,
                NewLabel, PushLabel, GetPeer, RegisterOwn, CopyPeers, AddToPeer, Create,
                HandlerOfPeer, EndAdd, Goes, TypeOK
  <2>4. ASSUME NEW p \in Peers, NEW l \in Labels, Open(p, l) PROVE FALSE
    BY <2>4 DEF Open
  <2> QED
    BY <2>1, <2>2, <2>3, <2>4, NextIs DEF vars
<1>3. on_message'[Own(k)] = data_channels_out[k]
  <2>1. Own(k) \in Channel /\ data_channels_out[k] \in SUBSET Channel
    BY <1>0, OwnFacts DEF TypeOK
  <2> QED
    BY <1>2, <2>1, HandledType DEF LateOpener
<1> QED
  BY <1>1, <1>3

\* Whoever brings a label that is there reaches all that were open when it came and
\* still are in a map.
THEOREM LateOpenersAreHeard == Spec => LateOpenerIsHeard
<1>1. TypeOK /\ FanoutInv /\ [Next]_vars => [Heeded]_vars
  BY HeededStep
<1>2. Spec => [][Heeded]_vars
  BY <1>1, FanoutInvariant, PTL DEF Spec
<1> QED
  BY <1>2 DEF LateOpenerIsHeard, Heeded
=============================================================================
