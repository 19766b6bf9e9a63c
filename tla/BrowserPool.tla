---------------------------- MODULE BrowserPool ----------------------------
(***************************************************************************)
(* The one Chromium every render of the process shares: BrowserPoolService *)
(* launches it on demand and memoizes the promise of the launch.  A client *)
(* is whatever asks for a page: a worksheet render, a card of a deck.      *)
(***************************************************************************)
EXTENDS Naturals

CONSTANTS Clients, MaxBrowsers

ASSUME PoolAssumption == MaxBrowsers \in Nat \ {0}

VARIABLES
    browser,    \* this.browser, 0 for null
    promise,    \* this.launchPromise: "none", "pending", or what it resolved to
    launching,  \* launches under way
    live,       \* the Chromium processes that run
    started,    \* how many were launched
    client      \* how far each client is: "idle", "waiting", a browser, ...

pool == <<browser, promise, launching, live, started, client>>

Browsers == 1..MaxBrowsers
Idle == [at |-> "idle", of |-> 0]
\* A client waits for the launch, was given a browser, has a page of it, or
\* got an exception.
ClientStates == [at : {"idle", "waiting", "given", "page", "refused"}, of : 0..MaxBrowsers]

PoolTypeOK ==
    /\ browser \in 0..MaxBrowsers
    /\ promise \in [state : {"none", "pending", "resolved"}, of : 0..MaxBrowsers]
    /\ launching \in 0..MaxBrowsers
    /\ live \subseteq Browsers
    /\ started \in 0..MaxBrowsers
    /\ client \in [Clients -> ClientStates]

NoPromise == [state |-> "none", of |-> 0]
PoolInit ==
    /\ browser = 0 /\ promise = NoPromise /\ launching = 0
    /\ live = {} /\ started = 0
    /\ client = [c \in Clients |-> Idle]

Give(c, b) == client' = [client EXCEPT ![c] = [at |-> "given", of |-> b]]

\* Mutant: no memo of the launch, every client that finds no browser starts one.
GetBrowserEach(c) ==
    /\ client[c].at = "idle"
    /\ IF browser \in live THEN Give(c, browser) /\ UNCHANGED launching
       ELSE /\ launching' = launching + 1
            /\ client' = [client EXCEPT ![c] = [at |-> "waiting", of |-> 0]]
    /\ UNCHANGED <<browser, promise, live, started>>

\* getBrowser: the connected browser, or whatever the promise resolves to; a
\* launch only when there is no promise.
GetBrowser(c) ==
    /\ client[c].at = "idle"
    /\ \/ browser \in live /\ Give(c, browser) /\ UNCHANGED <<promise, launching>>
       \/ /\ browser \notin live /\ promise.state = "resolved"
          /\ Give(c, promise.of) /\ UNCHANGED <<promise, launching>>
       \/ /\ browser \notin live /\ promise.state # "resolved"
          /\ client' = [client EXCEPT ![c] = [at |-> "waiting", of |-> 0]]
          /\ promise' = [state |-> "pending", of |-> 0]
          /\ launching' = IF promise.state = "none" THEN launching + 1 ELSE launching
    /\ UNCHANGED <<browser, live, started>>

Waiting == {c \in Clients : client[c].at = "waiting"}
Tell(answer) == client' = [c \in Clients |-> IF c \in Waiting THEN answer ELSE client[c]]

\* chromium.launch answers.
Launched ==
    /\ launching > 0 /\ started < MaxBrowsers
    /\ launching' = launching - 1 /\ started' = started + 1
    /\ live' = live \cup {started + 1}
    /\ browser' = started + 1
    /\ promise' = [state |-> "resolved", of |-> started + 1]
    /\ Tell([at |-> "given", of |-> started + 1])

LaunchFails ==
    /\ launching > 0
    /\ launching' = launching - 1
    /\ promise' = NoPromise
    /\ Tell([at |-> "refused", of |-> 0])
    /\ UNCHANGED <<browser, live, started>>

\* newPage, which throws when Chromium is gone.
NewPage(c) ==
    /\ client[c].at = "given"
    /\ client' = [client EXCEPT ![c].at = IF client[c].of \in live THEN "page" ELSE "refused"]
    /\ UNCHANGED <<browser, promise, launching, live, started>>

\* page.close in the finally clause, or nothing to close after an exception.
Release(c) ==
    /\ client' = [client EXCEPT ![c] = Idle]
    /\ UNCHANGED <<browser, promise, launching, live, started>>

\* Chromium ends by itself; nobody listens to "disconnected".
Disconnect ==
    /\ browser \in live
    /\ live' = live \ {browser}
    /\ UNCHANGED <<browser, promise, launching, started, client>>

\* onModuleDestroy.
Destroy ==
    /\ browser # 0
    /\ live' = live \ {browser} /\ browser' = 0 /\ promise' = NoPromise
    /\ UNCHANGED <<launching, started, client>>

PoolStep == Launched \/ LaunchFails \/ Disconnect \/ Destroy

\* The launch is shared: however many clients ask at once, and after any loss
\* of the browser, no two Chromium processes run or start at the same time.
OneBrowser ==
    /\ \A a, b \in live : a = b
    /\ launching = 0 \/ (launching = 1 /\ live = {})
=============================================================================
