------------------------------ MODULE LocalToken ------------------------------
(***************************************************************************)
(* The token that lets the desktop application use the local service       *)
(* (gui/api/token_rotate.go, auth.go, reauth.go, gui/token_refresh.go,     *)
(* token_elevated.go, and the launch of gui/main.go).  The service keeps   *)
(* it in memory and in a file, and replaces it from time to time; the      *)
(* application gets it from the environment, from the file, or from an     *)
(* elevated child that reads the file, and sends a request again when its  *)
(* token was replaced meanwhile.                                           *)
(***************************************************************************)
EXTENDS Integers, FiniteSets

CONSTANTS Requests,       \* concurrent requests of the application
          MaxTokens,      \* bound on the tokens generated
          MaxTokenFaults, \* bound on crashes of the service and failing writes
          MaxPrompts,     \* bound on elevation prompts
          None

\* A token is its number; -n is a file that holds only a part of token n.
NoToken == 0

VARIABLES
  service,   \* [up, token, prev, grace, rotation, replaced]
  file,      \* the token file: a token, a part of one, or NoToken when empty
  generated, \* the tokens generated so far
  spoiled,   \* the last write of the file failed
  app,       \* the application: [mode, canRead, env, override, cooling, holder]
  req,       \* [Requests -> [pc, sent, token]]
  excused,   \* history: the requests that something disturbed on their way
  prompts,   \* history: prompts since the last event that calls for one
  shown,     \* prompts shown, bounded by MaxPrompts
  tokenFaults

tokenVars == <<service, file, generated, spoiled, app, req, excused, prompts, shown,
               tokenFaults>>
appVars == <<app, req, prompts, shown>>
serviceVars == <<service, file, generated, spoiled, tokenFaults>>

TokenInit ==
  /\ service = [up |-> TRUE, token |-> 1, prev |-> NoToken, grace |-> FALSE,
                rotation |-> "idle", replaced |-> NoToken]
  /\ file = 1 /\ generated = 1 /\ spoiled = FALSE
  /\ app \in [mode : {"launching"}, canRead : BOOLEAN, env : {NoToken, 1},
              override : {NoToken}, cooling : {FALSE}, holder : {None}]
  /\ req = [r \in Requests |-> [pc |-> "idle", sent |-> NoToken, token |-> NoToken]]
  /\ excused = {} /\ prompts = 0 /\ shown = 0 /\ tokenFaults = 0

Fault == tokenFaults < MaxTokenFaults /\ tokenFaults' = tokenFaults + 1
Ended == {"ok", "rejected", "failed"}
InFlight == {r \in Requests : req[r].pc \notin Ended \cup {"idle"}}
\* An event after which a prompt may be shown again; and one that disturbs the
\* requests in flight as well, which may then rightly end with 401.
Renewed == prompts' = 0 /\ UNCHANGED excused
Disturb == prompts' = 0 /\ excused' = excused \cup InFlight

----------------------------------------------------------------------------
(* The server *)

Accepted(token) ==
  /\ service.up /\ token # NoToken /\ service.token # NoToken
  /\ token = service.token \/ (token = service.prev /\ service.grace)

\* SetToken: the token that is replaced is accepted until the grace ends.
SetToken(token, rotation) ==
  service' = [service EXCEPT
    !.token = token, !.rotation = rotation, !.replaced = service.token,
    !.prev = IF service.token \notin {NoToken, token} THEN service.token ELSE @,
    !.grace = service.token \notin {NoToken, token} \/ @]

\* Mutant: the file is opened before the server knows the new token.
InstallTokenLate ==
  /\ service.up /\ service.rotation = "idle" /\ generated < MaxTokens
  /\ generated' = generated + 1
  /\ service' = [service EXCEPT !.rotation = "opened", !.replaced = service.token]
  /\ file' = generated + 1
  /\ Renewed
  /\ UNCHANGED <<spoiled, app, req, shown, tokenFaults>>

\* Rotate: the server takes the new token first; a token that is still in its
\* grace is revoked by the one that is replaced now,
InstallToken ==
  /\ service.up /\ service.rotation = "idle" /\ generated < MaxTokens
  /\ generated' = generated + 1
  /\ SetToken(generated + 1, "installed")
  /\ prompts' = 0
  /\ excused' = IF service.grace THEN excused \cup InFlight ELSE excused
  /\ UNCHANGED <<file, spoiled, app, req, shown, tokenFaults>>

\* and then publishes it in the file, which is truncated,
OpenTokenFile ==
  /\ service.up /\ service.rotation = "installed"
  /\ \/ /\ file' = NoToken /\ service' = [service EXCEPT !.rotation = "opened"]
        /\ UNCHANGED tokenFaults
     \/ Fault /\ service' = [service EXCEPT !.rotation = "failed"] /\ UNCHANGED file
  /\ UNCHANGED <<generated, spoiled, appVars>>
  /\ excused' = excused \cup InFlight

\* written and given its mode.  Any of it may fail.
WriteTokenFile ==
  /\ service.up /\ service.rotation = "opened"
  /\ \/ /\ file' = service.token /\ spoiled' = FALSE
        /\ service' = [service EXCEPT !.rotation = "idle"]
        /\ UNCHANGED tokenFaults
     \/ /\ Fault
        /\ file' \in {NoToken, -service.token, service.token}
        /\ spoiled' = TRUE
        /\ service' = [service EXCEPT !.rotation = "failed"]
  /\ UNCHANGED <<generated, appVars>>
  /\ excused' = IF spoiled' THEN excused \cup InFlight ELSE excused

\* The server goes back to the token it had.
RollBackToken ==
  /\ service.up /\ service.rotation = "failed"
  /\ SetToken(service.replaced, "idle")
  /\ Disturb
  /\ UNCHANGED <<file, generated, spoiled, app, req, shown, tokenFaults>>

\* The grace is minutes long, or hours: it does not end inside a rotation.
EndGrace ==
  /\ service.up /\ service.grace /\ service.rotation = "idle"
  /\ service' = [service EXCEPT !.grace = FALSE]
  /\ Disturb
  /\ UNCHANGED <<file, generated, spoiled, app, req, shown, tokenFaults>>

\* The service dies, perhaps while it writes the file.
Crash ==
  /\ service.up /\ Fault
  /\ service' = [service EXCEPT !.up = FALSE, !.token = NoToken, !.prev = NoToken,
                   !.grace = FALSE, !.rotation = "idle", !.replaced = NoToken]
  /\ file' \in IF service.rotation = "opened" THEN {file, -service.token} ELSE {file}
  /\ Disturb
  /\ UNCHANGED <<generated, spoiled, app, req, shown>>

\* EnsureToken at the start: what the file holds, or a new token.  When that
\* cannot be written the server has no token and rejects every request.
StartService ==
  /\ ~service.up
  /\ \/ /\ file # NoToken
        /\ service' = [service EXCEPT !.up = TRUE, !.token = file]
        /\ UNCHANGED <<file, generated, tokenFaults>>
     \/ /\ file = NoToken /\ generated < MaxTokens
        /\ generated' = generated + 1
        /\ \/ /\ file' = generated + 1 /\ UNCHANGED tokenFaults
              /\ service' = [service EXCEPT !.up = TRUE, !.token = generated + 1]
           \/ /\ Fault
              /\ service' = [service EXCEPT !.up = TRUE]
              /\ UNCHANGED file
  /\ spoiled' = FALSE
  /\ Disturb
  /\ UNCHANGED <<app, req, shown>>

----------------------------------------------------------------------------
(* The application: which token, and which mode *)

ResolveToken ==
  CASE app.override # NoToken -> app.override
    [] app.override = NoToken /\ app.env # NoToken -> app.env
    [] OTHER -> IF app.canRead THEN file ELSE NoToken

\* The elevated fetch: the file is ours to read, or a child reads it after a
\* prompt.  NoToken is an error: declined, or nothing in the file.
FetchedTokens == IF app.canRead /\ file # NoToken THEN {file} ELSE {NoToken, file}
Prompted == IF app.canRead /\ file # NoToken
              THEN UNCHANGED <<prompts, shown>>
              ELSE shown < MaxPrompts /\ shown' = shown + 1 /\ prompts' = prompts + 1

\* resolveExecutionMode: the first probe,
ProbeService ==
  /\ app.mode = "launching"
  /\ app' = [app EXCEPT !.mode = CASE Accepted(ResolveToken) -> "service"
                                   [] ~service.up -> "no_service"
                                   [] OTHER -> "unauthorized"]
  /\ UNCHANGED <<serviceVars, req, excused, prompts, shown>>

\* one elevated fetch, unless the launcher tried it already,
FetchAtLaunch ==
  /\ app.mode = "unauthorized"
  /\ \/ /\ \E token \in FetchedTokens :
             app' = [app EXCEPT !.mode = IF token = NoToken THEN "auth_failed" ELSE "fetched",
                                !.override = token]
        /\ Prompted
     \/ app' = [app EXCEPT !.mode = "auth_failed"] /\ UNCHANGED <<prompts, shown>>
  /\ UNCHANGED <<serviceVars, req, excused>>

\* and the second probe: a token that is refused does not linger.
ProbeAgain ==
  /\ app.mode = "fetched"
  /\ app' = IF Accepted(ResolveToken) THEN [app EXCEPT !.mode = "service"]
            ELSE [app EXCEPT !.mode = "auth_failed", !.override = NoToken]
  /\ UNCHANGED <<serviceVars, req, excused, prompts, shown>>

\* A standalone application joins a service that accepts it later on.
TokenForServiceMode ==
  /\ app.mode \in {"no_service", "auth_failed"}
  /\ Accepted(ResolveToken)
  /\ app' = [app EXCEPT !.mode = "service"]
  /\ UNCHANGED <<serviceVars, req, excused, prompts, shown>>

EndCooldown ==
  /\ app.cooling
  /\ app' = [app EXCEPT !.cooling = FALSE]
  /\ Renewed
  /\ UNCHANGED <<serviceVars, req, shown>>

----------------------------------------------------------------------------
(* A request: reauthTransport and the hook *)

At(r, label) == req[r].pc = label
Goto(r, label) == req' = [req EXCEPT ![r].pc = label]

\* Nothing that can be read is accepted: a write of the file has failed, is
\* under way, or failed when the service started.
Unusable == spoiled \/ file = NoToken \/ service.token = NoToken

BeginRequest(r) ==
  /\ app.mode = "service" /\ At(r, "idle")
  /\ req' = [req EXCEPT ![r].pc = "sending", ![r].sent = ResolveToken]
  /\ excused' = IF Unusable THEN excused \cup {r} ELSE excused
  /\ UNCHANGED <<serviceVars, app, prompts, shown>>

\* The token is looked up again for the request itself.
Send(r) ==
  /\ At(r, "sending")
  /\ Goto(r, CASE Accepted(ResolveToken) -> "ok"
               [] ~service.up -> "failed"
               [] OTHER -> "refreshing")
  /\ UNCHANGED <<serviceVars, app, excused, prompts, shown>>

\* Another request may have refreshed the token meanwhile.
CheckRefreshed(r) ==
  /\ At(r, "refreshing")
  /\ Goto(r, IF ResolveToken \notin {NoToken, req[r].sent} THEN "resending" ELSE "waiting")
  /\ UNCHANGED <<serviceVars, app, excused, prompts, shown>>

\* The hook, under its mutex: a token that was refreshed, the cooldown, or a fetch.
EnterHook(r) ==
  /\ At(r, "waiting") /\ app.holder = None
  /\ \/ /\ app.override \notin {NoToken, req[r].sent}
        /\ req' = [req EXCEPT ![r].pc = "storing", ![r].token = app.override]
        /\ UNCHANGED <<app, excused>>
     \/ /\ app.override \in {NoToken, req[r].sent} /\ app.cooling
        /\ Goto(r, "rejected")
        /\ excused' = excused \cup {r}
        /\ UNCHANGED app
     \/ /\ app.override \in {NoToken, req[r].sent} /\ ~app.cooling
        /\ Goto(r, "fetching")
        /\ app' = [app EXCEPT !.holder = r]
        /\ UNCHANGED excused
  /\ UNCHANGED <<serviceVars, prompts, shown>>

\* The fetch ends, and the mutex is released.  Any error starts the cooldown.
FetchToken(r) ==
  /\ At(r, "fetching")
  /\ Prompted
  /\ \E token \in FetchedTokens :
       IF token = NoToken
         THEN /\ Goto(r, "rejected")
              /\ app' = [app EXCEPT !.holder = None, !.cooling = TRUE]
              /\ excused' = excused \cup InFlight
         ELSE /\ req' = [req EXCEPT ![r].pc = "storing", ![r].token = token]
              /\ app' = [app EXCEPT !.holder = None]
              /\ UNCHANGED excused
  /\ UNCHANGED serviceVars

\* Mutant: the request is sent again without keeping the new token.
StoreTokenForgotten(r) ==
  /\ At(r, "storing")
  /\ Goto(r, "resending")
  /\ UNCHANGED <<serviceVars, app, excused, prompts, shown>>

\* Back in the transport the token is kept for all requests: what was fetched
\* by a slow request may have been replaced by now, and is then put back for
\* the others.
StoreToken(r) ==
  /\ At(r, "storing")
  /\ app' = [app EXCEPT !.override = req[r].token]
  /\ Goto(r, "resending")
  /\ excused' = IF Accepted(req[r].token) THEN excused ELSE excused \cup (InFlight \ {r})
  /\ UNCHANGED <<serviceVars, prompts, shown>>

Resend(r) ==
  /\ At(r, "resending")
  /\ Goto(r, CASE Accepted(ResolveToken) -> "ok"
               [] ~service.up -> "failed"
               [] OTHER -> "rejected")
  /\ UNCHANGED <<serviceVars, app, excused, prompts, shown>>

\* The next request of the same kind.
NextRequest(r) ==
  /\ req[r].pc \in Ended
  /\ req' = [req EXCEPT ![r] = [pc |-> "idle", sent |-> NoToken, token |-> NoToken]]
  /\ excused' = excused \ {r}
  /\ UNCHANGED <<serviceVars, app, prompts, shown>>

TokenNext ==
  \/ InstallToken \/ OpenTokenFile \/ WriteTokenFile \/ RollBackToken \/ EndGrace
  \/ Crash \/ StartService
  \/ ProbeService \/ FetchAtLaunch \/ ProbeAgain \/ TokenForServiceMode \/ EndCooldown
  \/ \E r \in Requests :
       \/ BeginRequest(r) \/ Send(r) \/ CheckRefreshed(r) \/ EnterHook(r) \/ FetchToken(r)
       \/ StoreToken(r) \/ Resend(r) \/ NextRequest(r)

TokenSpec == TokenInit /\ [][TokenNext]_tokenVars

----------------------------------------------------------------------------
(* Properties *)

\* Rotate: "there is no instant at which a client can read a token the server
\* does not accept".  It holds through rotations, crashes and restarts, as long
\* as no write of the file fails.
FileAccepted ==
  service.up /\ ~spoiled /\ service.token # NoToken /\ file # NoToken => Accepted(file)

\* "Callers never see a rotation": a request is answered 401 only if, while it was
\* on its way, the user refused the elevation, the service published or lost a
\* token or ended the grace of one, a write of the file failed, or a slower
\* request put back a token that was replaced.  A new token alone excuses nothing.
RotationUnseen ==
  \A r \in Requests : At(r, "rejected") => r \in excused

\* "a burst of requests rejected by a rotated token produces ONE prompt".
OnePrompt == prompts <= 1
==============================================================================
