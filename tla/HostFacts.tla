----------------------------- MODULE HostFacts ------------------------------
(***************************************************************************)
(* The host facts helper (model-broker-host-facts.py): a process of its    *)
(* own that systemd restarts, and that answers one client after the other  *)
(* on a Unix socket.  A client may be slow, idle, or gone; NVML, CUDA and  *)
(* sysfs may each fail to say what they are asked; the helper may end at   *)
(* any moment and leave its socket behind.                                 *)
(*                                                                         *)
(* A GPU stands for its PCI address, which NVML gives in numbers and CUDA  *)
(* in text: pci_address makes them the same.  CUDA has an order of its     *)
(* own, and need not see every GPU.  The counters of /proc/stat are the    *)
(* time at which they are read: a share of CPU time is that between two    *)
(* readings.                                                               *)
(***************************************************************************)
EXTENDS Naturals, Sequences

CONSTANTS
  Clients,      \* whoever connects; it is served if it is in the client
  Allowed, Root,\* group or root
  Gpus,
  Links,        \* the highest speed of each link from a GPU to the CPU
  Cuda,         \* the GPUs as the CUDA driver numbers them, from 1
  None,
  Limit,        \* bytes of a request (MAX_MESSAGE_BYTES)
  Backlog,      \* connections that wait to be accepted
  MaxTicks,     \* bound: time
  MaxFaults     \* bound: unexpected failures, and ends of the helper

ASSUME HostFactsAssumption ==
  /\ Root \subseteq Allowed /\ Allowed \subseteq Clients
  /\ None \notin Clients \cup Gpus \cup Nat
  /\ Links \in [Gpus -> Seq(Nat)]
  /\ \A g \in Gpus : \E i \in DOMAIN Links[g] :
       \A j \in DOMAIN Links[g] : Links[g][i] <= Links[g][j]
  /\ DOMAIN Cuda \subseteq Nat /\ \A i \in DOMAIN Cuda : Cuda[i] \in Gpus
  /\ \A i, j \in DOMAIN Cuda : Cuda[i] = Cuda[j] => i = j
  /\ {Limit, Backlog, MaxTicks, MaxFaults} \subseteq Nat

VARIABLES
  (* The host *)
  now,       \* what /proc/stat counts
  path,      \* the socket's file: may clients use it?
  (* The helper *)
  phase,     \* how far it has come since systemd started it
  library,   \* what open_nvidia found
  previous,  \* the last sample of the counters
  queue,     \* connections not yet accepted
  serving,   \* the client whose connection is handled
  reply,     \* what it will be answered
  (* The clients *)
  client,    \* is it connected; its line, or the bytes of one not finished
  (* A bound, and history that only properties read *)
  faults,
  asked      \* when the counters were last asked for

sampleVars == <<previous, asked>>
serverVars == <<phase, library, path>>
handlerVars == <<queue, serving, reply>>
vars == <<now, sampleVars, serverVars, handlerVars, client, faults>>

-----------------------------------------------------------------------------
(* Data *)

Requests == {"inventory", "utilisation"}
Away == [at |-> "away", bytes |-> 0, line |-> None]

Refusal(error) == [kind |-> "error", error |-> error]

Spend == faults < MaxFaults /\ faults' = faults + 1

Init ==
  /\ now = 0 /\ path \in {"none", "closed", "open"}
  /\ phase = "down" /\ library = None /\ previous = None
  /\ queue = <<>> /\ serving = None /\ reply = None
  /\ client = [c \in Clients |-> Away]
  /\ faults = 0 /\ asked = None

-----------------------------------------------------------------------------
(* The helper's start and end *)

Moves(from, to) == phase = from /\ phase' = to
Connectionless == UNCHANGED <<now, sampleVars, handlerVars, client>>

(* NVML is needed, the CUDA driver is not. *)
OpenNvidia ==
  /\ Moves("down", "opened")
  /\ library' \in {"none", "nvml", "both"}
  /\ UNCHANGED <<path, faults>> /\ Connectionless

\* MISTAKE: the socket that a killed helper has left stays
PrepareNothing ==
  /\ Moves("opened", "prepared")
  /\ UNCHANGED <<path, library, faults>> /\ Connectionless

PrepareSocket ==
  /\ Moves("opened", "prepared")
  /\ path' = "none"
  /\ UNCHANGED <<library, faults>> /\ Connectionless

(* A path in use cannot be bound.  The new socket is its owner's alone. *)
Bind ==
  /\ phase = "prepared"
  /\ IF path = "none" THEN phase' = "bound" /\ path' = "closed"
                      ELSE phase' = "down" /\ UNCHANGED path
  /\ previous' = None
  /\ UNCHANGED <<library, faults, now, asked, handlerVars, client>>

(* The client group gets it; serve_forever. *)
Permit ==
  /\ Moves("bound", "serving")
  /\ path' = "open"
  /\ UNCHANGED <<library, faults>> /\ Connectionless

(* A step of the start fails, and the helper exits and leaves what it made; *)
(* or it fails later, and removes its socket; or it is killed and cannot.   *)
(* Its connections break.                                                   *)
Ends ==
  /\ phase # "down" /\ Spend
  /\ phase' = "down" /\ path' \in IF phase = "serving" THEN {"none", path} ELSE {path}
  /\ queue' = <<>> /\ serving' = None /\ reply' = None
  /\ client' = [c \in Clients |-> Away]
  /\ UNCHANGED <<now, sampleVars, library>>

-----------------------------------------------------------------------------
(* The clients *)

Unserved == UNCHANGED <<now, sampleVars, serverVars, serving, reply, faults>>

Connect(c) ==
  /\ phase \in {"bound", "serving"} /\ (path = "open" \/ c \in Root)
  /\ client[c] = Away /\ Len(queue) < Backlog
  /\ client' = [client EXCEPT ![c].at = "there"]
  /\ queue' = Append(queue, c)
  /\ Unserved

Sending(c) == client[c].at = "there" /\ client[c].line = None

(* A byte now and then, within the time that a read may take. *)
SendByte(c) ==
  /\ Sending(c) /\ client[c].bytes <= Limit
  /\ client' = [client EXCEPT ![c].bytes = @ + 1]
  /\ UNCHANGED queue /\ Unserved

SendLine(c) ==
  /\ Sending(c) /\ client[c].bytes <= Limit
  /\ \E line \in Requests \cup {"malformed"} :
       client' = [client EXCEPT ![c] = [@ EXCEPT !.line = line, !.bytes = 0]]
  /\ UNCHANGED queue /\ Unserved

Leave(c) ==
  /\ client[c].at = "there"
  /\ client' = [client EXCEPT ![c].at = "gone"]
  /\ UNCHANGED queue /\ Unserved

ClientStep(c) == Connect(c) \/ SendByte(c) \/ SendLine(c) \/ Leave(c)

-----------------------------------------------------------------------------
(* Facts *)

\* MISTAKE: a link that cannot be read counts for nothing
LowestKnown(speeds, known) ==
  IF known = {} THEN None
  ELSE CHOOSE s \in {speeds[i] : i \in known} : \A i \in known : s <= speeds[i]

(* The smallest of the speeds, or None when there are none or any is unknown. *)
Lowest(speeds, known) ==
  IF known # DOMAIN speeds \/ known = {} THEN None
  ELSE CHOOSE s \in {speeds[i] : i \in known} : \A i \in known : s <= speeds[i]

(* The ordinals of the GPUs whose address the driver gives, from 1. *)
CudaOrdinals(seen) == [g \in {Cuda[i] : i \in seen} |-> CHOOSE i \in seen : Cuda[i] = g]

(* Which links of each GPU could be read. *)
Known ==
  {known \in [Gpus -> SUBSET UNION {DOMAIN Links[g] : g \in Gpus}] :
     \A g \in Gpus : known[g] \subseteq DOMAIN Links[g]}

(* What is reported of a GPU whose NVML handle answers; of one whose PCI    *)
(* address is not known, CUDA and sysfs cannot be asked.                    *)
Unplaced(g) == [of |-> g, address |-> None, ordinal |-> None, speed |-> None]
Placed(g, ordinals, known) ==
  [of |-> g, address |-> g,
   ordinal |-> IF g \in DOMAIN ordinals THEN ordinals[g] ELSE None,
   speed |-> Lowest(Links[g], known)]

GpuInventory(handles, placed, seen, known) ==
  {Unplaced(g) : g \in handles \ placed}
    \cup {Placed(g, CudaOrdinals(seen), known[g]) : g \in placed}

(* The share is known between two samples, if time has passed. *)
CpuPercent(from, to) ==
  IF from = None \/ to = None \/ from = to THEN None ELSE <<from, to>>

-----------------------------------------------------------------------------
(* Requests *)

Answers(answer) ==
  /\ reply' = answer
  /\ UNCHANGED <<queue, serving, client, now, serverVars>>

(* serve_forever: the next connection, first come, first served. *)
Accept ==
  /\ phase = "serving" /\ serving = None /\ queue # <<>>
  /\ serving' = Head(queue) /\ queue' = Tail(queue)
  /\ UNCHANGED <<reply, client, now, sampleVars, serverVars, faults>>

Handling == serving # None /\ reply = None
Line == client[serving].line

Unauthorised ==
  /\ Handling /\ serving \notin Allowed
  /\ Answers(Refusal("unauthorised"))
  /\ UNCHANGED <<sampleVars, faults>>

Reading == Handling /\ serving \in Allowed

(* The line is too long, or has another form, or ends with the connection.  *)
Malformed ==
  /\ Reading
  /\ \/ client[serving].bytes > Limit
     \/ Line = "malformed"
     \/ Line = None /\ client[serving].at = "gone"
  /\ Answers(Refusal("malformed"))
  /\ UNCHANGED <<sampleVars, faults>>

\* MISTAKE: a read has no time limit
WaitsForEver == FALSE

(* Nothing has come for CLIENT_TIMEOUT_SECONDS. *)
TimesOut ==
  /\ Reading /\ Sending(serving) /\ client[serving].bytes <= Limit
  /\ Answers(Refusal("timed out"))
  /\ UNCHANGED <<sampleVars, faults>>

(* Any handle, address, ordinal or link file may fail to be read. *)
Inventory ==
  /\ Reading /\ Line = "inventory"
  /\ \E handles \in SUBSET Gpus, seen \in SUBSET DOMAIN Cuda, known \in Known :
       \E placed \in SUBSET handles :
         /\ library = "none" => handles = {}
         /\ library # "both" => seen = {}
         /\ Answers([kind |-> "inventory",
                     devices |-> GpuInventory(handles, placed, seen, known)])
  /\ UNCHANGED <<sampleVars, faults>>

\* MISTAKE: a reading that fails leaves the sample before it
KeptSample(counters) == IF counters = None THEN previous ELSE counters

Sample(counters) == counters

(* The share since the last call, whoever made it. *)
Utilisation ==
  /\ Reading /\ Line = "utilisation"
  /\ \E counters \in {now, None} :
       /\ Answers([kind |-> "utilisation", percent |-> CpuPercent(previous, counters)])
       /\ previous' = Sample(counters)
  /\ asked' = now
  /\ UNCHANGED faults

(* Whatever is raised while facts are collected. *)
CollectFails ==
  /\ Reading /\ Line \in Requests /\ Spend
  /\ Answers(Refusal("internal"))
  /\ UNCHANGED sampleVars

\* MISTAKE: a connection whose client has left is not closed
CloseAnswered ==
  client' = IF client[serving].at = "gone" THEN client
            ELSE [client EXCEPT ![serving] = Away]

CloseConnection == client' = [client EXCEPT ![serving] = Away]

(* Writing fails if the client has left; the connection is closed anyway.   *)
Reply ==
  /\ reply # None
  /\ CloseConnection
  /\ serving' = None /\ reply' = None
  /\ UNCHANGED <<queue, now, sampleVars, serverVars, faults>>

-----------------------------------------------------------------------------
Tick ==
  /\ now < MaxTicks
  /\ now' = now + 1
  /\ UNCHANGED <<sampleVars, serverVars, handlerVars, client, faults>>

StartStep == OpenNvidia \/ PrepareSocket \/ Bind \/ Permit

ServeStep ==
  \/ Accept \/ Unauthorised \/ Malformed \/ TimesOut
  \/ Inventory \/ Utilisation \/ Reply

Next ==
  \/ StartStep \/ Ends
  \/ ServeStep \/ CollectFails
  \/ \E c \in Clients : ClientStep(c)
  \/ Tick

Spec == Init /\ [][Next]_vars

(* Fairness: systemd starts the helper again (Restart=on-failure), which    *)
(* goes on, and a read ends by its time limit if by nothing else.  Nothing  *)
(* is assumed of the clients.                                               *)
FairSpec == Spec /\ WF_vars(StartStep) /\ WF_vars(ServeStep)

-----------------------------------------------------------------------------
(* Properties *)

Refusals ==
  {Refusal(error) : error \in {"unauthorised", "malformed", "timed out", "internal"}}
Shares == {None} \cup {<<from, to>> : from, to \in 0..MaxTicks}
Replies == Refusals \cup [kind : {"utilisation"}, percent : Shares]

(* Every variable has its type; a client is connected exactly if its        *)
(* connection waits or is handled, and only a helper that listens has any.  *)
TypeOK ==
  /\ now \in 0..MaxTicks /\ path \in {"none", "closed", "open"}
  /\ phase \in {"down", "opened", "prepared", "bound", "serving"}
  /\ phase \in {"bound", "serving"} => path # "none"
  /\ library \in {None, "none", "nvml", "both"}
  /\ {previous, asked} \subseteq 0..MaxTicks \cup {None}
  /\ client \in [Clients -> [at : {"away", "there", "gone"}, bytes : 0..Limit + 1,
                             line : Requests \cup {"malformed", None}]]
  /\ reply # None => serving # None /\ (reply.kind = "inventory" \/ reply \in Replies)
  /\ queue \in Seq(Clients) /\ serving \in Clients \cup {None}
  /\ \A i, j \in DOMAIN queue : queue[i] # serving /\ (queue[i] = queue[j] => i = j)
  /\ \A c \in Clients :
       client[c] # Away <=> serving = c \/ \E i \in DOMAIN queue : queue[i] = c
  /\ serving # None \/ queue # <<>> => phase \in {"bound", "serving"}

(* What an inventory says of a GPU is true of that GPU, or unknown: its     *)
(* address, its CUDA ordinal, though NVML and CUDA number the GPUs          *)
(* differently and either may leave some out, and the slowest link on its   *)
(* path, of which no link is slower (gpu_inventory, pcie_facts).            *)
TrueOf(device) ==
  LET g == device.of IN
  /\ device.address \in {g, None}
  /\ device.ordinal # None => device.ordinal \in DOMAIN Cuda /\ Cuda[device.ordinal] = g
  /\ device.speed # None =>
       /\ \E i \in DOMAIN Links[g] : device.speed = Links[g][i]
       /\ \A i \in DOMAIN Links[g] : device.speed <= Links[g][i]

FactsTrue ==
  reply # None /\ reply.kind = "inventory" => \A device \in reply.devices : TrueOf(device)

(* A share of CPU time begins where the answer before it ended, in the same *)
(* life of the helper: no time that another client has been told of, and    *)
(* none before a reading that failed, is in it (utilisation, collect).      *)
SharesRecent ==
  [][reply = None /\ reply' # None /\ reply'.kind = "utilisation"
       => reply'.percent \in {None, <<asked, now>>}]_vars

(* Every connection comes to an end, whatever its client and those before   *)
(* it do or leave undone: none can keep the one-connection server from the  *)
(* others (CLIENT_TIMEOUT_SECONDS, MAX_MESSAGE_BYTES).                      *)
Served == \A c \in Clients : client[c].at = "there" ~> client[c].at # "there"

(* A helper that has ended, wherever it did and whatever it left behind,    *)
(* serves again (prepare_socket, main).                                     *)
ComesBack == phase # "serving" ~> phase = "serving"

=============================================================================
