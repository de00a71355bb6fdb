-------------------------- MODULE HostFactsProofs ---------------------------
(***************************************************************************)
(* What the host facts helper reports is true, and whoever is connected    *)
(* has one connection, for any clients, GPUs, links and orders of CUDA.    *)
(***************************************************************************)
EXTENDS HostFacts, TLAPS

(* The known link that is chosen is one, and no other is slower. *)
LEMMA LowestIsLeast ==
  ASSUME NEW g \in Gpus, NEW known, Lowest(Links[g], known) # None
  PROVE  /\ \E i \in DOMAIN Links[g] : Lowest(Links[g], known) = Links[g][i]
         /\ \A i \in DOMAIN Links[g] : Lowest(Links[g], known) <= Links[g][i]
  <1>1. known = DOMAIN Links[g] BY DEF Lowest
  <1>. DEFINE Least(s) == \A i \in known : s <= Links[g][i]
  <1>2. \E s \in {Links[g][i] : i \in known} : Least(s)
    BY <1>1, HostFactsAssumption
  <1>3. Lowest(Links[g], known) = CHOOSE s \in {Links[g][i] : i \in known} : Least(s)
    BY <1>1 DEF Lowest
  <1>. QED BY <1>1, <1>2, <1>3

(* An ordinal found for a GPU is its own, whichever the driver gave. *)
LEMMA OrdinalIsOwn ==
  ASSUME NEW seen \in SUBSET DOMAIN Cuda, NEW g \in DOMAIN CudaOrdinals(seen)
  PROVE  CudaOrdinals(seen)[g] \in DOMAIN Cuda /\ Cuda[CudaOrdinals(seen)[g]] = g
  <1>1. PICK i \in seen : Cuda[i] = g BY DEF CudaOrdinals
  <1>2. CudaOrdinals(seen)[g] = CHOOSE j \in seen : Cuda[j] = g BY DEF CudaOrdinals
  <1>. QED BY <1>1, <1>2

(* Whatever could be read, all that an inventory says is true. *)
LEMMA InventoryTrue ==
  ASSUME NEW handles \in SUBSET Gpus, NEW placed \in SUBSET handles,
         NEW seen \in SUBSET DOMAIN Cuda, NEW known \in Known,
         NEW device \in GpuInventory(handles, placed, seen, known)
  PROVE  TrueOf(device)
  <1>1. CASE \E g \in handles \ placed : device = Unplaced(g)
    BY <1>1 DEF Unplaced, TrueOf
  <1>2. ASSUME NEW g \in placed, device = Placed(g, CudaOrdinals(seen), known[g])
        PROVE  TrueOf(device)
    <2>1. g \in Gpus /\ device.of = g /\ device.address = g
      BY <1>2 DEF Placed
    <2>2. device.ordinal # None => device.ordinal \in DOMAIN Cuda /\ Cuda[device.ordinal] = g
      <3>1. device.ordinal = IF g \in DOMAIN CudaOrdinals(seen) THEN CudaOrdinals(seen)[g]
                                                             ELSE None
        BY <1>2 DEF Placed
      <3>. QED BY <3>1, OrdinalIsOwn
    <2>3. device.speed = Lowest(Links[g], known[g]) BY <1>2 DEF Placed
    <2>. QED BY <2>1, <2>2, <2>3, LowestIsLeast DEF TrueOf
  <1>. QED BY <1>1, <1>2 DEF GpuInventory

(* Only an inventory answers with facts. *)
LEMMA FactsKept ==
  ASSUME FactsTrue, [Next]_vars
  PROVE  FactsTrue'
  <1>1. CASE UNCHANGED reply
    BY <1>1 DEF FactsTrue, TrueOf
  <1>2. CASE reply' = None
    BY <1>2 DEF FactsTrue
  <1>3. ASSUME NEW error, reply' = Refusal(error) PROVE FactsTrue'
    BY <1>3 DEF FactsTrue, Refusal
  <1>4. CASE Utilisation
    BY <1>4 DEF Utilisation, Answers, FactsTrue
  <1>5. CASE Inventory
    <2>1. PICK handles \in SUBSET Gpus, seen \in SUBSET DOMAIN Cuda, known \in Known :
            \E placed \in SUBSET handles :
              Answers([kind |-> "inventory",
                       devices |-> GpuInventory(handles, placed, seen, known)])
      BY <1>5 DEF Inventory
    <2>2. PICK placed \in SUBSET handles :
            reply' = [kind |-> "inventory",
                      devices |-> GpuInventory(handles, placed, seen, known)]
      BY <2>1 DEF Answers
    <2>3. \A device \in reply'.devices : TrueOf(device) BY <2>2, InventoryTrue
    <2>. QED BY <2>3 DEF FactsTrue, TrueOf
  <1>6. CASE UNCHANGED vars \/ StartStep \/ Tick \/ Accept \/ \E c \in Clients : ClientStep(c)
    <2>1. UNCHANGED reply
      BY <1>6 DEF vars, handlerVars, StartStep, OpenNvidia, PrepareSocket, Bind, Permit,
         Connectionless, Tick, Accept, ClientStep, Connect, SendByte, SendLine, Leave, Unserved
    <2>. QED BY <2>1, <1>1
  <1>7. CASE Ends \/ Reply
    BY <1>2, <1>7 DEF Ends, Reply
  <1>8. CASE Unauthorised \/ Malformed \/ TimesOut \/ CollectFails
    BY <1>3, <1>8 DEF Unauthorised, Malformed, TimesOut, CollectFails, Answers
  <1>. QED BY <1>4, <1>5, <1>6, <1>7, <1>8 DEF Next, ServeStep

(* Everything an inventory says of a GPU is true of it or unknown,          *)
(* whichever calls of NVML, CUDA and sysfs fail (gpu_inventory).            *)
THEOREM FactsAreTrue == Spec => []FactsTrue
  <1>1. Init => FactsTrue BY DEF Init, FactsTrue
  <1>2. FactsTrue /\ [Next]_vars => FactsTrue' BY FactsKept
  <1>. QED BY <1>1, <1>2, PTL DEF Spec

-----------------------------------------------------------------------------
(* Connections *)

Line1 == Requests \cup {"malformed", None}
ClientSet == [at : {"away", "there", "gone"}, bytes : 0..Limit + 1, line : Line1]

(* The parts of TypeOK: single variables, and who is connected. *)
Scalars ==
  /\ now \in 0..MaxTicks /\ path \in {"none", "closed", "open"}
  /\ phase \in {"down", "opened", "prepared", "bound", "serving"}
  /\ phase \in {"bound", "serving"} => path # "none"
  /\ library \in {None, "none", "nvml", "both"}
  /\ {previous, asked} \subseteq 0..MaxTicks \cup {None}

ReplyType ==
  reply # None => serving # None /\ (reply.kind = "inventory" \/ reply \in Replies)

Connections ==
  /\ client \in [Clients -> ClientSet]
  /\ queue \in Seq(Clients) /\ serving \in Clients \cup {None}
  /\ \A i, j \in DOMAIN queue : queue[i] # serving /\ (queue[i] = queue[j] => i = j)
  /\ \A c \in Clients :
       client[c] # Away <=> serving = c \/ \E i \in DOMAIN queue : queue[i] = c
  /\ serving # None \/ queue # <<>> => phase \in {"bound", "serving"}

(* These parts are all. *)
LEMMA Parts ==
  /\ TypeOK <=> Scalars /\ ReplyType /\ Connections
  /\ TypeOK' <=> Scalars' /\ ReplyType' /\ Connections'
  BY DEF TypeOK, Scalars, ReplyType, Connections, ClientSet, Line1

(* A client that is connected goes on with its request or leaves. *)
LEMMA GoesOn ==
  ASSUME Connections, NEW c \in Clients, NEW x \in ClientSet, x # Away, client[c] # Away,
         client' = [client EXCEPT ![c] = x], UNCHANGED <<queue, serving, phase, path>>
  PROVE  Connections'
  BY DEF Connections

(* A client that connects is the last to wait. *)
LEMMA ConnectKeeps ==
  ASSUME TypeOK, NEW c \in Clients, Connect(c)
  PROVE  TypeOK'
  <1>. USE DEF Connect, Unserved, serverVars, sampleVars
  <1>1. Scalars' /\ ReplyType' BY Parts DEF Scalars, ReplyType
  <1>2. Connections BY Parts
  <1>3. Connections'
    <2>. DEFINE x == [Away EXCEPT !.at = "there"]
    <2>1. x \in ClientSet /\ x # Away
      BY HostFactsAssumption DEF Away, ClientSet, Line1
    <2>2. client' = [client EXCEPT ![c] = x] BY <1>2 DEF Connections
    <2>. HIDE DEF x
    <2>3. /\ queue \in Seq(Clients) /\ queue' = Append(queue, c)
          /\ Len(queue) \in Nat /\ DOMAIN queue = 1..Len(queue)
      BY <1>2 DEF Connections
    <2>4. /\ queue' \in Seq(Clients) /\ queue' # <<>>
          /\ DOMAIN queue' = 1..(Len(queue) + 1)
          /\ queue'[Len(queue) + 1] = c /\ \A i \in 1..Len(queue) : queue'[i] = queue[i]
      BY <2>3
    <2>5. serving # c /\ \A i \in DOMAIN queue : queue[i] # c BY <1>2 DEF Connections
    <2>6. \A i, j \in DOMAIN queue' :
            queue'[i] # serving' /\ (queue'[i] = queue'[j] => i = j)
      <3>. TAKE i, j \in DOMAIN queue'
      <3>1. CASE i \in 1..Len(queue) /\ j \in 1..Len(queue)
        BY <1>2, <2>3, <2>4, <3>1 DEF Connections
      <3>2. ASSUME NEW k \in 1..Len(queue) PROVE queue'[k] # c
        BY <2>3, <2>4, <2>5
      <3>3. queue'[i] # serving' BY <1>2, <2>3, <2>4, <2>5 DEF Connections
      <3>4. CASE i = Len(queue) + 1
        BY <2>3, <2>4, <3>2, <3>3, <3>4
      <3>5. CASE j = Len(queue) + 1
        BY <2>3, <2>4, <3>2, <3>3, <3>5
      <3>. QED BY <2>3, <2>4, <3>1, <3>3, <3>4, <3>5
    <2>7. ASSUME NEW d \in Clients
          PROVE  client'[d] # Away <=> serving' = d \/ \E i \in DOMAIN queue' : queue'[i] = d
      <3>1. CASE d = c
        <4>1. client'[d] # Away BY <2>1, <2>2, <1>2, <3>1 DEF Connections
        <4>2. Len(queue) + 1 \in DOMAIN queue' BY <2>3, <2>4
        <4>. QED BY <4>1, <4>2, <2>4, <3>1
      <3>2. CASE d # c
        <4>1. client'[d] = client[d] BY <2>2, <1>2, <3>2 DEF Connections
        <4>2. (\E i \in DOMAIN queue' : queue'[i] = d) <=> \E i \in DOMAIN queue : queue[i] = d
          BY <2>3, <2>4, <3>2
        <4>. QED BY <4>1, <4>2, <1>2 DEF Connections
      <3>. QED BY <3>1, <3>2
    <2>8. client' \in [Clients -> ClientSet] BY <1>2, <2>1, <2>2 DEF Connections
    <2>9. serving' \in Clients \cup {None} BY <1>2 DEF Connections
    <2>. QED BY <1>2, <2>4, <2>6, <2>7, <2>8, <2>9 DEF Connections
  <1>. QED BY <1>1, <1>3, Parts

(* One more byte is within the bound. *)
LEMMA Bytes ==
  /\ 0 \in 0..Limit + 1
  /\ \A bytes \in 0..Limit + 1 : bytes <= Limit => bytes + 1 \in 0..Limit + 1
  BY HostFactsAssumption

(* They make a client that is connected. *)
LEMMA Sent ==
  ASSUME NEW r \in ClientSet, r.at = "there", NEW bytes \in 0..Limit + 1, NEW line \in Line1
  PROVE  /\ [r EXCEPT !.bytes = bytes] \in ClientSet /\ [r EXCEPT !.bytes = bytes] # Away
         /\ [r EXCEPT !.line = line, !.bytes = bytes] \in ClientSet
         /\ [r EXCEPT !.line = line, !.bytes = bytes] # Away
  BY DEF ClientSet, Away

(* What a client sends, and that it leaves, changes nothing else. *)
LEMMA ClientKeeps ==
  ASSUME TypeOK, NEW c \in Clients, SendByte(c) \/ SendLine(c) \/ Leave(c)
  PROVE  TypeOK'
  <1>. USE DEF SendByte, SendLine, Leave, Unserved, serverVars, sampleVars
  <1>1. Scalars' /\ ReplyType' BY Parts DEF Scalars, ReplyType
  <1>2. Connections BY Parts
  <1>3. client[c] \in ClientSet /\ client[c] # Away
    <2>1. client[c].at = "there" BY DEF Sending
    <2>2. Away.at = "away" BY DEF Away
    <2>. QED BY <1>2, <2>1, <2>2 DEF Connections
  <1>5. PICK x \in ClientSet : x # Away /\ client' = [client EXCEPT ![c] = x]
    <2>1. CASE SendByte(c)
      <3>. DEFINE x == [client[c] EXCEPT !.bytes = client[c].bytes + 1]
      <3>1. client[c].at = "there" /\ client[c].bytes <= Limit BY <2>1 DEF Sending
      <3>2. client[c].bytes + 1 \in 0..Limit + 1
        <4>1. client[c].bytes \in 0..Limit + 1 BY <1>3 DEF ClientSet
        <4>. QED BY <3>1, <4>1, Bytes
      <3>3. x \in ClientSet /\ x # Away
        BY <1>3, <3>1, <3>2, Sent DEF Line1
      <3>4. client' = [client EXCEPT ![c] = x] BY <2>1
      <3>. QED BY <3>3, <3>4
    <2>2. CASE SendLine(c)
      <3>1. PICK line \in Requests \cup {"malformed"} :
              client' = [client EXCEPT ![c] = [@ EXCEPT !.line = line, !.bytes = 0]]
        BY <2>2
      <3>. DEFINE x == [client[c] EXCEPT !.line = line, !.bytes = 0]
      <3>2. client[c].at = "there" BY <2>2 DEF Sending
      <3>3. 0 \in 0..Limit + 1 /\ line \in Line1 BY Bytes DEF Line1
      <3>4. x \in ClientSet /\ x # Away BY <1>3, <3>2, <3>3, Sent
      <3>5. client' = [client EXCEPT ![c] = x] BY <3>1
      <3>. QED BY <3>4, <3>5
    <2>3. CASE Leave(c)
      <3>. DEFINE x == [client[c] EXCEPT !.at = "gone"]
      <3>1. x \in ClientSet /\ x # Away BY <1>3, <2>3 DEF ClientSet, Away
      <3>2. client' = [client EXCEPT ![c] = x] BY <2>3
      <3>. QED BY <3>1, <3>2
    <2>. QED BY <2>1, <2>2, <2>3
  <1>6. Connections' BY <1>2, <1>3, <1>5, GoesOn
  <1>. QED BY <1>1, <1>6, Parts

(* The first that waits is handled. *)
LEMMA AcceptKeeps ==
  ASSUME TypeOK, Accept
  PROVE  TypeOK'
  <1>. USE DEF Accept, serverVars, sampleVars
  <1>1. Scalars' BY Parts DEF Scalars
  <1>2. Connections BY Parts
  <1>. DEFINE n == Len(queue)
  <1>3. /\ queue \in Seq(Clients) /\ n \in Nat /\ DOMAIN queue = 1..n /\ 1 <= n
        /\ serving' = queue[1] /\ queue' = Tail(queue)
    BY <1>2 DEF Connections
  <1>4. /\ queue' \in Seq(Clients) /\ DOMAIN queue' = 1..(n - 1)
        /\ \A i \in 1..(n - 1) : queue'[i] = queue[i + 1]
    BY <1>3
  <1>5. serving' \in Clients BY <1>3
  <1>6. ReplyType' BY <1>2, <1>5, Parts, HostFactsAssumption DEF ReplyType
  <1>7. \A i, j \in DOMAIN queue' :
          queue'[i] # serving' /\ (queue'[i] = queue'[j] => i = j)
    <2>. TAKE i, j \in DOMAIN queue'
    <2>1. i + 1 \in DOMAIN queue /\ j + 1 \in DOMAIN queue BY <1>3, <1>4
    <2>2. queue[i + 1] = queue[j + 1] => i + 1 = j + 1 BY <1>2, <2>1 DEF Connections
    <2>3. queue[i + 1] # queue[1] BY <1>2, <1>3, <1>4, <2>1 DEF Connections
    <2>. QED BY <2>2, <2>3, <1>3, <1>4
  <1>8. ASSUME NEW d \in Clients
        PROVE  (\E i \in DOMAIN queue : queue[i] = d)
                 <=> serving' = d \/ \E i \in DOMAIN queue' : queue'[i] = d
    <2>1. ASSUME NEW i \in DOMAIN queue, queue[i] = d, i # 1
          PROVE  \E j \in DOMAIN queue' : queue'[j] = d
      <3>1. i - 1 \in 1..(n - 1) /\ (i - 1) + 1 = i BY <1>3, <2>1
      <3>2. queue'[i - 1] = queue[(i - 1) + 1] BY <1>4, <3>1
      <3>. QED BY <1>4, <2>1, <3>1, <3>2
    <2>2. ASSUME NEW j \in DOMAIN queue', queue'[j] = d
          PROVE  \E i \in DOMAIN queue : queue[i] = d
      <3>1. j + 1 \in DOMAIN queue BY <1>3, <1>4
      <3>. QED BY <1>4, <2>2, <3>1
    <2>3. 1 \in DOMAIN queue BY <1>3
    <2>. QED BY <1>3, <2>1, <2>2, <2>3
  <1>9. Connections'
    BY <1>2, <1>4, <1>5, <1>7, <1>8, HostFactsAssumption DEF Connections
  <1>. QED BY <1>1, <1>6, <1>9, Parts

(* A handler that has its answer keeps its connection. *)
LEMMA AnswerKeeps ==
  ASSUME TypeOK, Handling, UNCHANGED <<queue, serving, client, now, serverVars>>,
         {previous', asked'} \subseteq 0..MaxTicks \cup {None},
         reply'.kind = "inventory" \/ reply' \in Replies
  PROVE  TypeOK'
  <1>. USE DEF serverVars
  <1>1. Scalars' BY Parts DEF Scalars
  <1>2. ReplyType' BY DEF ReplyType, Handling
  <1>3. Connections' BY Parts DEF Connections
  <1>. QED BY <1>1, <1>2, <1>3, Parts

(* The connection is closed, whoever is at its other end. *)
LEMMA ReplyKeeps ==
  ASSUME TypeOK, Reply
  PROVE  TypeOK'
  <1>. USE DEF Reply, serverVars, sampleVars
  <1>1. Scalars' /\ ReplyType' BY Parts DEF Scalars, ReplyType
  <1>2. Connections /\ serving \in Clients BY Parts DEF ReplyType, Connections
  <1>3. client' = [client EXCEPT ![serving] = Away] /\ serving' = None /\ queue' = queue
    BY DEF CloseConnection
  <1>4. Away \in ClientSet BY HostFactsAssumption DEF Away, ClientSet, Line1
  <1>5. phase' = phase /\ path' = path OBVIOUS
  <1>6. ASSUME NEW d \in Clients
        PROVE  client'[d] # Away <=> serving' = d \/ \E i \in DOMAIN queue' : queue'[i] = d
    <2>1. d # None BY HostFactsAssumption
    <2>2. \A i \in DOMAIN queue : queue[i] # serving
      BY <1>2, <1>3 DEF Connections
    <2>. QED BY <1>2, <1>3, <2>1, <2>2 DEF Connections
  <1>7. \A i \in DOMAIN queue : queue[i] # None BY <1>2, HostFactsAssumption DEF Connections
  <1>8. client' \in [Clients -> ClientSet] BY <1>2, <1>3, <1>4 DEF Connections
  <1>9. phase \in {"bound", "serving"} BY <1>2, HostFactsAssumption DEF Connections
  <1>10. Connections'
    BY <1>2, <1>3, <1>5, <1>6, <1>7, <1>8, <1>9 DEF Connections
  <1>. QED BY <1>1, <1>10, Parts

(* The start and the end of the helper. *)
LEMMA HelperKeeps ==
  ASSUME TypeOK, StartStep \/ Ends \/ Tick \/ UNCHANGED vars
  PROVE  TypeOK'
  <1>. USE DEF serverVars, sampleVars, handlerVars
  <1>1. Scalars /\ ReplyType /\ Connections BY Parts
  <1>2. CASE StartStep \/ Tick \/ UNCHANGED vars
    <2>. USE <1>2 DEF StartStep, OpenNvidia, PrepareSocket, Bind, Permit, Moves, Connectionless,
             Tick, vars
    <2>1. UNCHANGED <<reply, serving, queue, client>> OBVIOUS
    <2>2. Scalars' BY <1>1, HostFactsAssumption DEF Scalars
    <2>3. ReplyType' BY <1>1, <2>1 DEF ReplyType
    <2>4. Connections'
      <3>1. phase \in {"bound", "serving"} => phase' \in {"bound", "serving"}
        OBVIOUS
      <3>. QED BY <1>1, <2>1, <3>1 DEF Connections
    <2>. QED BY <2>2, <2>3, <2>4, Parts
  <1>3. CASE Ends
    <2>. USE <1>3 DEF Ends
    <2>1. Scalars' /\ ReplyType' BY <1>1 DEF Scalars, ReplyType
    <2>2. Away \in ClientSet BY HostFactsAssumption DEF Away, ClientSet, Line1
    <2>3. Connections' BY <2>2, HostFactsAssumption DEF Connections
    <2>. QED BY <2>1, <2>3, Parts
  <1>. QED BY <1>2, <1>3

(* Every step keeps the types, and one connection for each client. *)
LEMMA TypeKept ==
  ASSUME TypeOK, [Next]_vars
  PROVE  TypeOK'
  <1>1. CASE Unauthorised \/ Malformed \/ TimesOut \/ CollectFails
    <2>1. PICK error \in {"unauthorised", "malformed", "timed out", "internal"} :
            Answers(Refusal(error))
      BY <1>1 DEF Unauthorised, Malformed, TimesOut, CollectFails
    <2>2. reply' \in Replies
      <3>1. reply' = Refusal(error) BY <2>1 DEF Answers
      <3>2. Refusal(error) \in Refusals BY DEF Refusals
      <3>. QED BY <3>1, <3>2 DEF Replies
    <2>3. Handling /\ UNCHANGED sampleVars
      BY <1>1 DEF Unauthorised, Malformed, TimesOut, CollectFails, Reading
    <2>4. {previous', asked'} \subseteq 0..MaxTicks \cup {None}
      BY <2>3 DEF sampleVars, TypeOK
    <2>. QED BY <2>1, <2>2, <2>3, <2>4, AnswerKeeps DEF Answers
  <1>2. CASE Inventory
    <2>1. PICK devices : Answers([kind |-> "inventory", devices |-> devices])
      BY <1>2 DEF Inventory
    <2>2. Handling /\ UNCHANGED sampleVars BY <1>2 DEF Inventory, Reading
    <2>3. {previous', asked'} \subseteq 0..MaxTicks \cup {None}
      BY <2>2 DEF sampleVars, TypeOK
    <2>4. reply'.kind = "inventory" BY <2>1 DEF Answers
    <2>. QED BY <2>1, <2>2, <2>3, <2>4, AnswerKeeps DEF Answers
  <1>3. CASE Utilisation
    <2>1. PICK counters \in {now, None} :
            /\ Answers([kind |-> "utilisation", percent |-> CpuPercent(previous, counters)])
            /\ previous' = counters
      BY <1>3 DEF Utilisation, Sample
    <2>2. now \in 0..MaxTicks /\ previous \in 0..MaxTicks \cup {None} BY DEF TypeOK
    <2>3. CpuPercent(previous, counters) \in Shares
      BY <2>2 DEF CpuPercent, Shares
    <2>4. reply' \in Replies
      <3>1. [kind |-> "utilisation", percent |-> CpuPercent(previous, counters)]
              \in [kind : {"utilisation"}, percent : Shares]
        BY <2>3
      <3>. QED BY <2>1, <3>1 DEF Answers, Replies
    <2>5. Handling /\ asked' = now BY <1>3 DEF Utilisation, Reading
    <2>. QED BY <2>1, <2>2, <2>4, <2>5, AnswerKeeps DEF Answers
  <1>. QED BY <1>1, <1>2, <1>3, ConnectKeeps, ClientKeeps, AcceptKeeps, ReplyKeeps, HelperKeeps
          DEF Next, ServeStep, ClientStep

(* Every variable has its type, and a client has a connection exactly while *)
(* it waits for one or is served, through every end of the helper.          *)
THEOREM ConnectionsCorrect == Spec => []TypeOK
  <1>1. Init => TypeOK
    <2>. SUFFICES ASSUME Init PROVE TypeOK
      OBVIOUS
    <2>1. Away \in ClientSet BY HostFactsAssumption DEF Away, ClientSet, Line1
    <2>2. Connections BY <2>1, HostFactsAssumption DEF Init, Connections
    <2>3. Scalars BY HostFactsAssumption DEF Init, Scalars
    <2>4. ReplyType BY DEF Init, ReplyType
    <2>. QED BY <2>2, <2>3, <2>4, Parts
  <1>2. TypeOK /\ [Next]_vars => TypeOK' BY TypeKept
  <1>. QED BY <1>1, <1>2, PTL DEF Spec

-----------------------------------------------------------------------------
(* Shares of CPU time *)

(* The sample that is kept, if any, is of the last time it was asked for. *)
LastSample == previous # None => previous = asked

Recent ==
  reply = None /\ reply' # None /\ reply'.kind = "utilisation"
    => reply'.percent \in {None, <<asked, now>>}

(* Only a utilisation answers with a share, and it keeps a fresh sample. *)
LEMMA StepRecent ==
  ASSUME LastSample, [Next]_vars
  PROVE  LastSample' /\ Recent
  <1>1. ASSUME NEW error, reply' = Refusal(error), UNCHANGED sampleVars
        PROVE  LastSample' /\ Recent
    BY <1>1 DEF Refusal, Recent, LastSample, sampleVars
  <1>2. CASE Unauthorised \/ Malformed \/ TimesOut \/ CollectFails
    BY <1>1, <1>2 DEF Unauthorised, Malformed, TimesOut, CollectFails, Answers
  <1>3. CASE Inventory
    <2>1. PICK devices : reply' = [kind |-> "inventory", devices |-> devices]
      BY <1>3 DEF Inventory, Answers
    <2>. QED BY <1>3, <2>1 DEF Inventory, Recent, LastSample, sampleVars
  <1>4. CASE Utilisation
    <2>1. PICK counters \in {now, None} :
            /\ reply' = [kind |-> "utilisation", percent |-> CpuPercent(previous, counters)]
            /\ previous' = counters
      BY <1>4 DEF Utilisation, Answers, Sample
    <2>2. asked' = now BY <1>4 DEF Utilisation
    <2>. QED BY <2>1, <2>2 DEF CpuPercent, Recent, LastSample
  <1>5. CASE (UNCHANGED reply \/ reply' = None) /\ (UNCHANGED sampleVars \/ previous' = None)
    BY <1>5 DEF Recent, LastSample, sampleVars
  <1>6. CASE StartStep \/ Ends \/ Tick \/ UNCHANGED vars
    BY <1>5, <1>6 DEF StartStep, OpenNvidia, PrepareSocket, Bind, Permit, Connectionless,
       Ends, Tick, vars, handlerVars
  <1>7. CASE Accept \/ Reply
    BY <1>5, <1>7 DEF Accept, Reply
  <1>8. ASSUME NEW c \in Clients, ClientStep(c) PROVE LastSample' /\ Recent
    BY <1>5, <1>8 DEF ClientStep, Connect, SendByte, SendLine, Leave, Unserved
  <1>. QED BY <1>2, <1>3, <1>4, <1>6, <1>7, <1>8 DEF Next, ServeStep

(* A share of CPU time never reaches back before the last answer, whoever   *)
(* had it, nor before a reading that failed (utilisation, collect).         *)
THEOREM SharesAreRecent == Spec => SharesRecent
  <1>1. Init => LastSample BY DEF Init, LastSample
  <1>2. LastSample /\ [Next]_vars => LastSample' /\ [Recent]_vars BY StepRecent
  <1>. QED BY <1>1, <1>2, PTL DEF Spec, SharesRecent, Recent

=============================================================================
