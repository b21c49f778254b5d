----------------------------- MODULE BrowserSource -----------------------------
(***************************************************************************)
(* A browser page that shares a camera or a microphone with the host: the  *)
(* source client (web/.../devices/client.ts) as the provider drives it     *)
(* (devices/provider.tsx), the socket between them, and the registry that  *)
(* binds sources to slots (server/service/sources/registry.go and the      *)
(* socket handler of service.go).                                          *)
(*                                                                         *)
(* One slot is followed.  Other slots share its socket, so their part is   *)
(* that the page may have to say hello again at any time (Restart).        *)
(* Sockets are numbered as they are created, and a source has the number   *)
(* of its socket.  Promise continuations run before the next event and are *)
(* part of the step that settles the promise.                              *)
(***************************************************************************)
EXTENDS Integers, Sequences, FiniteSets

CONSTANTS
    MaxSockets,     \* bound: sockets the page opens
    MaxUser,        \* bound: what the user asks for
    MaxFaults,      \* bound: connections lost
    MaxOthers       \* bound: what other users do to the slot

ASSUME BrowserSourceAssumption ==
    {MaxSockets, MaxUser, MaxFaults, MaxOthers} \subseteq Nat

Sockets == 1..MaxSockets
Other == MaxSockets + 1         \* somebody else's source
Retries == 3                    \* Len(resumeRetryDelaysMS)
Free == [src |-> 0, orphaned |-> FALSE, token |-> 0]

VARIABLES
    c,          \* the client: BrowserSourceClient and the provider's pending call
    sockets,    \* sockets opened so far
    net,        \* each socket: both directions, and whether it is still up
    served,     \* each socket's handler: "none", "hello", "ready" or "done"
    reply,      \* each handler's answer that is decided and not yet written
    watch,      \* each source's removals that watchTerminations has yet to send
    binding,    \* Registry.bindings of the slot
    claims,     \* claims granted; the last one's number is its lease token
    configured, \* Registry.sinks has the slot
    wanted,     \* history: shared, and not released since
    misread,    \* history: the page took another message for the answer to a request
    used        \* bounds: user requests, faults, other users' actions

registryVars == <<served, reply, watch, binding, claims, configured>>
historyVars == <<wanted, misread>>
vars == <<c, sockets, net, registryVars, historyVars, used>>

(* A page without a stored lease has nothing to connect for.  Its offers   *)
(* are devices for this slot ("own"), only for other slots, or none.       *)
NewPage(lease, offers) ==
    [socket |-> 0,          \* this.socket
     ready |-> FALSE,       \* isReady
     offers |-> offers,     \* this.offers: "none", "other" or "own"
     shouldConnect |-> offers # "none", timer |-> FALSE,
     owned |-> FALSE,       \* the slot is in this.owned
     lease |-> lease,       \* its stored lease's token, or 0
     request |-> "none",    \* its entry in this.requests
     resume |-> 0,          \* resumeLeases: the attempt it is at, or 0
     job |-> "idle"]        \* the provider's call: share or release

Init ==
    /\ c = NewPage(0, "none") /\ sockets = 0
    /\ net = [i \in Sockets |-> [up |-> <<>>, down |-> <<>>, st |-> "none"]]
    /\ served = [i \in Sockets |-> "none"]
    /\ reply = [i \in Sockets |-> <<>>] /\ watch = [i \in Sockets |-> 0]
    /\ binding = Free /\ claims = 0 /\ configured = TRUE
    /\ wanted = FALSE /\ misread = FALSE
    /\ used = [user |-> 0, faults |-> 0, others |-> 0]

Spend(what, max) == used[what] < max /\ used' = [used EXCEPT ![what] = @ + 1]

-----------------------------------------------------------------------------
(* The client.  Its functions take the client and the sockets, w, and      *)
(* return both: w is [c, net, sockets].                                    *)

World == [c |-> c, net |-> net, sockets |-> sockets]
Becomes(w) == c' = w.c /\ net' = w.net /\ sockets' = w.sockets

CanConnect == sockets < MaxSockets
Message(type, token, by) == [type |-> type, token |-> token, by |-> by]

(* A request is refused while the socket is not open and while another one *)
(* for the slot is pending.                                                *)
CanRequest == c.socket # 0 /\ served[c.socket] # "none" /\ c.request = "none"

(* request *)
Request(w, kind) ==
    [w EXCEPT !.c.request = kind,
              !.net[w.c.socket].up = Append(@, Message(kind, w.c.lease, kind))]

(* connect *)
Connect(w) ==
    IF ~w.c.shouldConnect \/ w.c.socket # 0 THEN w
    ELSE [w EXCEPT !.sockets = @ + 1, !.net[w.sockets + 1].st = "connecting",
                   !.c.socket = w.sockets + 1, !.c.timer = FALSE]

(* closeSocket: the close frame follows what was sent before.              *)
CloseSocket(w) ==
    LET s == w.c.socket
        closed == [w EXCEPT !.c.socket = 0, !.c.ready = FALSE, !.c.timer = FALSE, !.c.resume = 0]
    IN  IF s = 0 THEN closed
        ELSE [closed EXCEPT !.net[s].st = IF @ = "dead" THEN "dead" ELSE "closed"]

(* rejectRequests: the provider's call fails with its request.             *)
RejectRequests(w) ==
    [w EXCEPT !.c.request = "none",
              !.c.job = IF @ \in {"claiming", "releasing"} THEN "idle" ELSE @]

RejectReady(w) == [w EXCEPT !.c.job = IF @ = "waiting" THEN "idle" ELSE @]

(* Defect: the callers are left waiting.                                   *)
RestartUnanswered(w) == Connect(CloseSocket([w EXCEPT !.c.request = "none"]))

(* restart *)
Restart(w) == Connect(RejectRequests(CloseSocket(w)))

(* resolveReady: a share that waited sends its claim.                      *)
ResolveReady(w) ==
    LET r == [w EXCEPT !.c.ready = TRUE, !.c.resume = 0]
    IN  IF r.c.job = "waiting" THEN Request([r EXCEPT !.c.job = "claiming"], "claim") ELSE r

(* removeLease *)
RemoveLease(w) == [w EXCEPT !.c.lease = 0, !.c.owned = FALSE]

(* Defect: the lease and its ownership outlive the attempts to resume it.  *)
ResumeFailedKept(w, race) ==
    IF race /\ w.c.resume < Retries THEN w ELSE ResolveReady(w)

(* resumeLeases, when an attempt failed: retry after a delay if it may     *)
(* have lost the race with the server (isResumeRace), else give up.        *)
ResumeFailed(w, race) ==
    IF race /\ w.c.resume < Retries THEN w ELSE ResolveReady(RemoveLease(w))

(* resumeLeases, one attempt: a request for the slot that is already       *)
(* pending makes it fail, and not as a race.                               *)
ResumeLease(w) ==
    IF w.c.request # "none" THEN ResumeFailed(w, FALSE)
    ELSE Request([w EXCEPT !.c.resume = @ + 1], "resume")

(* finishRequest: whoever sent the request goes on.                        *)
FinishRequest(w, outcome) ==
    LET f == [w EXCEPT !.c.request = "none",
                       !.c.job = IF @ \in {"claiming", "releasing"} THEN "idle" ELSE @]
    IN  IF w.c.request # "resume" THEN f
        ELSE IF outcome = "ok" THEN ResolveReady(f) ELSE ResumeFailed(f, outcome = "race")

-----------------------------------------------------------------------------
(* What the user and the page do                                           *)

User == Spend("user", MaxUser) /\ UNCHANGED registryVars

(* share: setOffers says hello again if the offers changed, and claim      *)
(* waits until the source is ready.                                        *)
Share(changed) ==
    /\ c.job = "idle"
    /\ User
    /\ wanted' = TRUE /\ UNCHANGED misread
    /\ c.offers # "own" => changed
    /\ LET w == [World EXCEPT !.c.offers = "own", !.c.shouldConnect = TRUE, !.c.job = "waiting"]
       IN  IF c.socket = 0 \/ changed THEN CanConnect /\ Becomes(Restart(w))
           ELSE Becomes(IF c.ready THEN ResolveReady(w) ELSE w)

(* release: whether it will go over the socket, because the page owns the  *)
(* slot, or over REST is settled before the capture has been stopped.      *)
Release ==
    /\ c.job = "idle"
    /\ User
    /\ Becomes([World EXCEPT !.c.job = IF c.ready /\ c.owned THEN "stop_ws" ELSE "stop_rest"])
    /\ UNCHANGED historyVars

(* Another slot is shared with a device not offered before, or two frames  *)
(* in a row were not acknowledged in time.                                 *)
Rehello ==
    /\ CanConnect
    /\ User
    /\ Becomes(Restart([World EXCEPT !.c.shouldConnect = TRUE,
                                     !.c.offers = IF @ = "own" THEN "own" ELSE "other"]))
    /\ UNCHANGED historyVars

(* pagehide: close.                                                        *)
PageHide ==
    /\ c.socket # 0 \/ c.timer
    /\ User
    /\ Becomes(RejectReady(RejectRequests(CloseSocket([World EXCEPT !.c.shouldConnect = FALSE]))))
    /\ UNCHANGED historyVars

(* pageshow, visibilitychange: reconnect.                                  *)
Refresh ==
    /\ c.socket = 0 /\ CanConnect
    /\ c.offers # "none" \/ c.lease # 0
    /\ User
    /\ Becomes(Connect([World EXCEPT !.c.shouldConnect = TRUE]))
    /\ UNCHANGED historyVars

(* A reload: pagehide, and a new page that finds the lease in the session  *)
(* storage and connects if it has also found a device to offer.            *)
Reload(found) ==
    /\ found => c.lease # 0 /\ CanConnect
    /\ User
    /\ Becomes(Connect([CloseSocket(World) EXCEPT
          !.c = NewPage(c.lease, IF found THEN "own" ELSE "none")]))
    /\ UNCHANGED historyVars

-----------------------------------------------------------------------------
(* Events of the client                                                    *)

Event == UNCHANGED <<registryVars, used>>

(* onopen: hello.                                                          *)
OnOpen(i) ==
    /\ net[i].st = "connecting"
    /\ net' = [net EXCEPT ![i].st = "open", ![i].up = <<Message("hello", c.offers, "hello")>>]
    /\ served' = [served EXCEPT ![i] = "hello"]
    /\ UNCHANGED <<c, sockets, reply, watch, binding, claims, configured, historyVars, used>>

(* The reconnect timer.                                                    *)
Reconnect ==
    /\ c.timer /\ CanConnect
    /\ Becomes(Connect(World))
    /\ Event /\ UNCHANGED historyVars

(* onClose of the current socket.                                          *)
OnClose ==
    /\ c.socket # 0 /\ net[c.socket].st = "dead"
    /\ Becomes(RejectReady(RejectRequests(
          [World EXCEPT !.c.socket = 0, !.c.ready = FALSE, !.c.resume = 0,
                        !.c.owned = FALSE, !.c.timer = c.shouldConnect])))
    /\ Event /\ UNCHANGED historyVars

(* resumeLeases after the delay.                                           *)
RetryResume ==
    /\ c.resume > 0 /\ c.request # "resume" /\ net[c.socket].st = "open"
    /\ Becomes(ResumeLease(World))
    /\ Event /\ UNCHANGED historyVars

(* stopCapture is over: release goes on as it decided.  The request is     *)
(* refused if the socket has gone, or if the page is resuming the lease.   *)
CaptureStopped ==
    /\ \/ c.job = "stop_rest" /\ Becomes([World EXCEPT !.c.job = "rest"])
       \/ /\ c.job = "stop_ws" /\ CanRequest
          /\ Becomes(Request([World EXCEPT !.c.job = "releasing"], "release"))
       \/ c.job = "stop_ws" /\ ~CanRequest /\ Becomes([World EXCEPT !.c.job = "idle"])
    /\ Event /\ UNCHANGED historyVars

(* The message finishes a request it does not answer: messages name the    *)
(* slot and not the request.                                               *)
Mistaken(m) ==
    /\ c.request # "none" /\ m.type # "source_ready"
    /\ m.by # c.request /\ ~(m.type = "released" /\ c.request = "release")

(* onMessage of the current socket.                                        *)
OnMessage ==
    /\ c.socket # 0 /\ net[c.socket].down # <<>> /\ net[c.socket].st \in {"open", "dead"}
    /\ LET m == Head(net[c.socket].down)
           w == [World EXCEPT !.net[c.socket].down = Tail(@)]
           Plainly(x) == Becomes(x) /\ UNCHANGED wanted
       IN  /\ misread' = (misread \/ Mistaken(m))
           /\ \/ /\ m.type = "source_ready"
                 /\ Plainly(IF c.lease = 0 \/ c.offers # "own" THEN ResolveReady(w)
                            ELSE ResumeLease(w))
              \/ /\ m.type = "claimed"
                 /\ Plainly(FinishRequest([w EXCEPT !.c.lease = m.token, !.c.owned = TRUE], "ok"))
              \/ /\ m.type = "resumed"
                 /\ Plainly(FinishRequest([w EXCEPT !.c.owned = TRUE], "ok"))
              \/ /\ m.type \in {"claim_refused", "error", "invalid_token"}
                 /\ Plainly(IF c.request = "none" THEN w
                            ELSE FinishRequest(w, IF m.type = "invalid_token" THEN "race" ELSE "error"))
              \/ /\ m.type = "released"
                 /\ Becomes(FinishRequest(RemoveLease(w), "ok"))
                 /\ wanted' = (wanted /\ c.request # "release")
    /\ Event

(* The answer of the REST release: forget.                                 *)
RestAnswer ==
    /\ c.job \in {"rest_ok", "rest_error"}
    /\ IF c.job = "rest_ok"
         THEN Becomes([RemoveLease(World) EXCEPT !.c.job = "idle"]) /\ wanted' = FALSE
         ELSE Becomes([World EXCEPT !.c.job = "idle"]) /\ UNCHANGED wanted
    /\ Event /\ UNCHANGED misread

-----------------------------------------------------------------------------
(* The registry and the socket handlers                                    *)

Mine(b) == b.src \in Sockets

(* removeBindingLocked: the event reaches the source's handler.            *)
RemoveBinding ==
    /\ binding' = Free
    /\ watch' = IF Mine(binding) /\ served[binding.src] = "ready"
                  THEN [watch EXCEPT ![binding.src] = @ + 1] ELSE watch

Handles(i, type) ==
    /\ served[i] \in {"hello", "ready"} /\ reply[i] = <<>>
    /\ net[i].up # <<>> /\ Head(net[i].up).type = type
    /\ net' = [net EXCEPT ![i].up = Tail(@)]
    /\ UNCHANGED <<c, sockets, configured, historyVars, used>>

Say(i, type, token) ==
    reply' = [reply EXCEPT ![i] = <<Message(type, token, Head(net[i].up).type)>>]

(* The registry is unlocked before the answer is written: what happens to  *)
(* the binding in between may be written first, by watchTerminations, and  *)
(* the page will take it for the answer.                                   *)
Answer(i) ==
    /\ reply[i] # <<>>
    /\ reply' = [reply EXCEPT ![i] = <<>>]
    /\ net' = [net EXCEPT ![i].down = @ \o reply[i]]
    /\ UNCHANGED <<c, sockets, served, watch, binding, claims, configured, historyVars, used>>

(* RegisterSource *)
RegisterSource(i) ==
    /\ Handles(i, "hello") /\ Head(net[i].up).token # "none"
    /\ served' = [served EXCEPT ![i] = "ready"]
    /\ Say(i, "source_ready", 0)
    /\ UNCHANGED <<watch, binding, claims>>

(* validateHello: a hello without streams is answered and hung up on.      *)
RefuseHello(i) ==
    /\ served[i] = "hello" /\ net[i].up # <<>> /\ Head(net[i].up).token = "none"
    /\ served' = [served EXCEPT ![i] = "done"]
    /\ net' = [net EXCEPT ![i].down = Append(@, Message("error", 0, "hello")),
                          ![i].st = IF @ = "open" THEN "dead" ELSE @]
    /\ UNCHANGED <<c, sockets, reply, watch, binding, claims, configured, historyVars, used>>

(* Claim *)
Claim(i) ==
    /\ Handles(i, "claim")
    /\ IF configured /\ binding = Free
         THEN /\ claims' = claims + 1
              /\ binding' = [src |-> i, orphaned |-> FALSE, token |-> claims + 1]
              /\ Say(i, "claimed", claims + 1)
         ELSE /\ Say(i, IF configured THEN "claim_refused" ELSE "error", 0)
              /\ UNCHANGED <<claims, binding>>
    /\ UNCHANGED <<served, watch>>

(* Resume *)
Resume(i) ==
    /\ Handles(i, "resume")
    /\ IF Mine(binding) /\ binding.orphaned /\ binding.token = Head(net[i].up).token
         THEN binding' = [binding EXCEPT !.src = i, !.orphaned = FALSE] /\ Say(i, "resumed", 0)
         ELSE Say(i, IF configured THEN "invalid_token" ELSE "error", 0) /\ UNCHANGED binding
    /\ UNCHANGED <<served, watch, claims>>

(* Release over the socket: the handler answers, and so will the watcher.  *)
HandleRelease(i) ==
    /\ Handles(i, "release")
    /\ IF Mine(binding)
         THEN RemoveBinding /\ Say(i, "released", 0)
         ELSE Say(i, "error", 0) /\ UNCHANGED <<binding, watch>>
    /\ UNCHANGED <<served, claims>>

(* Defect: the binding is only orphaned, as when its source goes away.     *)
RestReleaseOrphans ==
    /\ c.job = "rest"
    /\ IF Mine(binding)
         THEN binding' = [binding EXCEPT !.orphaned = TRUE] /\ c' = [c EXCEPT !.job = "rest_ok"]
         ELSE c' = [c EXCEPT !.job = "rest_error"] /\ UNCHANGED binding
    /\ UNCHANGED <<sockets, net, served, reply, watch, claims, configured, historyVars, used>>

(* Release over REST.                                                      *)
RestRelease ==
    /\ c.job = "rest"
    /\ IF Mine(binding)
         THEN RemoveBinding /\ c' = [c EXCEPT !.job = "rest_ok"]
         ELSE c' = [c EXCEPT !.job = "rest_error"] /\ UNCHANGED <<binding, watch>>
    /\ UNCHANGED <<sockets, net, served, reply, claims, configured, historyVars, used>>

(* watchTerminations *)
WatchTerminations(i) ==
    /\ watch[i] > 0 /\ served[i] = "ready"
    /\ watch' = [watch EXCEPT ![i] = @ - 1]
    /\ net' = [net EXCEPT ![i].down = Append(@, Message("released", 0, "watch"))]
    /\ UNCHANGED <<c, sockets, served, reply, binding, claims, configured, historyVars, used>>

(* The handler's read fails: DisconnectSource.  Everything sent before a   *)
(* close was read; what a lost connection carried may not have been.       *)
DisconnectSource(i) ==
    /\ served[i] \in {"hello", "ready"} /\ reply[i] = <<>>
    /\ net[i].st = "dead" \/ (net[i].st = "closed" /\ net[i].up = <<>>)
    /\ served' = [served EXCEPT ![i] = "done"]
    /\ binding' = IF binding.src = i THEN [binding EXCEPT !.orphaned = TRUE] ELSE binding
    /\ watch' = [watch EXCEPT ![i] = 0]
    /\ UNCHANGED <<c, sockets, net, reply, claims, configured, historyVars, used>>

(* expire: the grace of an orphaned binding is over.                       *)
Expire ==
    /\ binding.orphaned
    /\ RemoveBinding
    /\ UNCHANGED <<c, sockets, net, served, reply, claims, configured, historyVars, used>>

(* Another user claims the free slot, or an administrator takes it over or *)
(* disconnects it.                                                         *)
OthersAct ==
    /\ Spend("others", MaxOthers)
    /\ \/ configured /\ binding = Free /\ binding' = [Free EXCEPT !.src = Other] /\ UNCHANGED watch
       \/ binding # Free /\ RemoveBinding
    /\ UNCHANGED <<c, sockets, net, served, reply, claims, configured, historyVars>>

(* SyncSlots: an administrator takes the slot out of the configuration, or *)
(* puts it back.                                                           *)
SyncSlots ==
    /\ Spend("others", MaxOthers)
    /\ configured' = ~configured
    /\ RemoveBinding
    /\ UNCHANGED <<c, sockets, net, served, reply, claims, historyVars>>

(* A connection is lost, or could not be made.                             *)
Lose(i) ==
    /\ net[i].st \in {"connecting", "open"}
    /\ Spend("faults", MaxFaults)
    /\ net' = [net EXCEPT ![i].st = "dead"]
    /\ UNCHANGED <<c, sockets, registryVars, historyVars>>

Server(i) ==
    \/ RegisterSource(i) \/ RefuseHello(i) \/ Claim(i) \/ Resume(i) \/ HandleRelease(i)
    \/ Answer(i) \/ WatchTerminations(i) \/ DisconnectSource(i)
Client ==
    \/ Reconnect \/ OnClose \/ RetryResume \/ CaptureStopped \/ OnMessage
    \/ RestAnswer \/ RestRelease

Next ==
    \/ \E changed \in BOOLEAN : Share(changed)
    \/ \E found \in BOOLEAN : Reload(found)
    \/ Release \/ Rehello \/ PageHide \/ Refresh
    \/ Client
    \/ \E i \in Sockets : OnOpen(i) \/ Server(i) \/ Lose(i)
    \/ Expire \/ OthersAct \/ SyncSlots

Spec ==
    /\ Init /\ [][Next]_vars
    /\ WF_vars(Client)
    /\ \A i \in Sockets : WF_vars(OnOpen(i)) /\ WF_vars(Server(i))

-----------------------------------------------------------------------------

(* What the provider asks of the client before it starts a capture.        *)
CanRun == c.ready /\ c.owned /\ c.lease # 0

Unheard(i) == watch[i] > 0 \/ \E k \in DOMAIN net[i].down : net[i].down[k].type = "released"

(* Where the page may capture for the slot (it owns it and has a lease),   *)
(* the registry has bound the slot to the page's current source, or the    *)
(* page is about to hear that it has not, whatever happened to earlier     *)
(* sockets, leases and resumes.  The one exception is a page that took     *)
(* another message for the answer to its request                           *)
(* (client.ts restart, onClose, resumeLeases; registry.go Resume).         *)
OwnedIsBound ==
    (CanRun /\ net[c.socket].st = "open" /\ ~Unheard(c.socket) /\ ~misread) =>
        binding.src = c.socket /\ ~binding.orphaned

(* Once a release has been reported to the user as done, the page's        *)
(* connection does not hold the slot until the user shares again, unless   *)
(* the release is still on its way: no reconnect or resume that was under  *)
(* way brings the slot back, with the same exception                       *)
(* (client.ts release, forget, resumeLeases; registry.go Release, Resume). *)
ReleaseSticks ==
    (~wanted /\ ~misread /\ c.socket # 0 /\ binding.src = c.socket) =>
        \E k \in DOMAIN net[c.socket].up : net[c.socket].up[k].type = "release"

(* "the caller waiting on it would otherwise hang for the life of the      *)
(* page": every share and every release is answered                        *)
(* (client.ts restart, onClose, close, finishRequest, resolveReady).       *)
CallersAnswered == c.job # "idle" ~> c.job = "idle"
=============================================================================
