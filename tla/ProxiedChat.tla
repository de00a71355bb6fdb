---------------------------- MODULE ProxiedChat ----------------------------
(***************************************************************************)
(* Chat requests that have been admitted (proxy.py, and chat_completions   *)
(* in application.py and llama.py).  For each, a relay sends the request   *)
(* to the router and passes its response on as it comes, while a watcher   *)
(* waits for the client to leave; whichever ends first ends the other.     *)
(* Then the stack of resources is closed, last in first out: the request   *)
(* to the router, and the admission.                                       *)
(*                                                                         *)
(* A step is the code between two awaits.  A task that is cancelled is cut *)
(* off at an await, but may pass a few before (an await that is already    *)
(* over goes on).                                                          *)
(***************************************************************************)
CONSTANTS
  Chats  \* the requests at one time

VARIABLES chat

(* relay: what the relay awaits, then what closing the stack awaits         *)
(* watch: is the watcher waiting?                                           *)
(* line: may the router be working on the request?                          *)
(* finishing, disconnected, cancelled: variables of the code, and the       *)
(*   cancel scope                                                           *)
(* client: is it there, has it left, or has it had its response?            *)
(* early: history: had the client left before the last part was sent?       *)
NoChat == [relay |-> "none", watch |-> FALSE, line |-> FALSE, admitted |-> FALSE,
           finishing |-> FALSE, disconnected |-> FALSE, cancelled |-> FALSE,
           client |-> "here", early |-> FALSE]

ChatInit == chat = [c \in Chats |-> NoChat]

Relaying == {"open", "send", "read", "last", "sent"}

Relay(c, step) == chat' = [chat EXCEPT ![c].relay = step]

(* The task group ends, and the stack is closed next.  What only the relay  *)
(* and the watcher read is put back.                                        *)
Ends(c, line) ==
  LET early == chat[c].early /\ chat[c].disconnected IN
  chat' = [chat EXCEPT ![c] =
    [relay |-> "close", watch |-> FALSE, line |-> line, admitted |-> chat[c].admitted,
     finishing |-> FALSE, disconnected |-> chat[c].disconnected, cancelled |-> FALSE,
     client |-> chat[c].client, early |-> early]]

(* The admission is taken, then the response is called: the watcher waits,  *)
(* and the request goes out to the router.                                  *)
Enter(c) ==
  /\ chat[c].relay = "none"
  /\ chat' = [chat EXCEPT ![c] = [NoChat EXCEPT !.relay = "open", !.watch = TRUE,
                                                !.line = TRUE, !.admitted = TRUE]]

(* The router's response begins, and its status is passed on as it is.      *)
Opened(c) == chat[c].relay = "open" /\ Relay(c, "send")

(* The router is not reached: 502, in one part. *)
NotOpened(c) ==
  /\ chat[c].relay = "open"
  /\ chat' = [chat EXCEPT ![c].relay = "last", ![c].line = FALSE, ![c].finishing = TRUE]

Chunk(c) == chat[c].relay = "read" /\ Relay(c, "send")
Forwarded(c) == chat[c].relay = "send" /\ Relay(c, "read")

(* The body ends, or reading it fails. *)
\* MISTAKE: finishing is not set before the last part is sent
LateMark(c) ==
  chat[c].relay = "read" /\ Relay(c, "last")

BodyEnds(c) ==
  /\ chat[c].relay = "read"
  /\ chat' = [chat EXCEPT ![c].relay = "last", ![c].finishing = TRUE]

(* The server has the last part; from now on receive() says disconnected.   *)
Sent(c) ==
  /\ chat[c].relay = "last"
  /\ chat' = [chat EXCEPT ![c].relay = "sent",
                          ![c].client = IF @ = "here" THEN "served" ELSE @]

(* The relay returns and cancels the watcher. *)
\* MISTAKE: the watcher is left waiting
WatcherStays(c) ==
  /\ chat[c].relay = "sent"
  /\ chat' = [chat EXCEPT ![c].relay = "close"]

Returned(c) ==
  /\ chat[c].relay = "sent"
  /\ Ends(c, chat[c].line)

Leaves(c) ==
  /\ chat[c].relay \in Relaying /\ chat[c].client = "here"
  /\ chat' = [chat EXCEPT ![c].client = "gone", ![c].early = ~chat[c].finishing]

(* The watcher hears that the client is disconnected. *)
\* MISTAKE: it takes note, but does not stop the relay
OnlyNotes(c) ==
  /\ chat[c].watch /\ chat[c].client # "here"
  /\ chat' = [chat EXCEPT ![c].watch = FALSE, ![c].disconnected = ~chat[c].finishing]

Notices(c) ==
  /\ chat[c].watch /\ chat[c].client # "here"
  /\ chat' = [chat EXCEPT ![c].watch = FALSE,
                          ![c].disconnected = ~chat[c].finishing,
                          ![c].cancelled = ~chat[c].finishing]

(* The relay is cut off at an await, because it is cancelled by the watcher *)
(* or by the server that shuts down.  A request that is still being opened  *)
(* is closed on the way out.                                                *)
\* MISTAKE: the response that was begun is not on the stack
LeftOpen(c) ==
  /\ chat[c].relay \in Relaying
  /\ chat' = [chat EXCEPT ![c] = [NoChat EXCEPT !.line = chat[c].line]]

CutOff(c) ==
  /\ chat[c].relay \in Relaying
  /\ Ends(c, chat[c].line /\ chat[c].relay # "open")

Cut(c) == chat[c].cancelled /\ CutOff(c)
Abort(c) == CutOff(c)

(* resources.aclose(): the request to the router is closed, perhaps with an *)
(* error ...                                                                *)
\* MISTAKE: the stack is closed first in, first out
AdmissionFirst(c) ==
  /\ chat[c].relay = "close"
  /\ chat' = [chat EXCEPT ![c].relay = "release", ![c].admitted = FALSE]

CloseLine(c) ==
  /\ chat[c].relay = "close"
  /\ \E fails \in BOOLEAN :
       chat' = [chat EXCEPT ![c].relay = "release", ![c].line = FALSE,
                            ![c].disconnected = @ /\ ~fails]

(* ... and the admission ends all the same; then the client is reported to  *)
(* have left, if it is disconnected.                                        *)
ReleaseAdmission(c) ==
  /\ chat[c].relay = "release"
  /\ chat' = [chat EXCEPT ![c] = NoChat]

SendStep(c) == Forwarded(c) \/ Sent(c)

ChatStep(c) ==
  \/ Opened(c) \/ NotOpened(c) \/ Chunk(c) \/ BodyEnds(c)
  \/ SendStep(c) \/ Returned(c)
  \/ Leaves(c) \/ Notices(c) \/ Cut(c) \/ Abort(c)
  \/ CloseLine(c) \/ ReleaseAdmission(c)

(* The event loop runs what can go on.  The router need never answer, and a *)
(* client that is there need not read; to one that has left, sending ends.  *)
ChatFairness ==
  \A c \in Chats :
    /\ WF_chat(Notices(c)) /\ WF_chat(Cut(c))
    /\ WF_chat(SendStep(c) /\ chat[c].client = "gone")
    /\ WF_chat(Returned(c) \/ CloseLine(c) \/ ReleaseAdmission(c))

-----------------------------------------------------------------------------
(* Properties *)

ChatTypeOK ==
  /\ chat \in [Chats -> [relay : Relaying \cup {"none", "close", "release"},
                      watch : BOOLEAN, line : BOOLEAN, admitted : BOOLEAN,
                      finishing : BOOLEAN, disconnected : BOOLEAN,
                      cancelled : BOOLEAN, client : {"here", "gone", "served"},
                      early : BOOLEAN]]
  /\ \A c \in Chats : /\ chat[c].watch => chat[c].relay \in Relaying
                      /\ chat[c].relay = "none" => chat[c] = NoChat

(* As long as the router may be working on a request, its model is          *)
(* admitted, and so not unloaded.                                           *)
AdmittedWhileOpen == \A c \in Chats : chat[c].line => chat[c].admitted

(* A client is reported to have left only if it did, before the last part   *)
(* was sent: the server's own end of the connection is not mistaken for it. *)
ToldTruth == \A c \in Chats : chat[c].disconnected => chat[c].early

(* A client that leaves frees its model, although the router may never      *)
(* answer: there is no limit to the time of a response.                     *)
LeaverFrees ==
  \A c \in Chats : chat[c].client = "gone" /\ chat[c].admitted ~> ~chat[c].admitted

=============================================================================
