------------------------------- MODULE Access -------------------------------
(***************************************************************************)
(* Who is let in: API keys of clients (internal/apikey), sessions of       *)
(* admins (internal/auth/session.go) and the export token of a project     *)
(* (internal/project).  A handler looks its credential up by a statement   *)
(* of its own and goes on, while other admins create, replace and revoke.  *)
(*                                                                         *)
(* Every change of a key, a token or a route is itself a call that needs a *)
(* session.  Keys have no expiry here: CreateAPIKey decodes expires_at and *)
(* passes nil.  Neither are allowed_route_ids looked at by any caller.     *)
(* There is one route and one project.                                     *)
(***************************************************************************)
EXTENDS Naturals, FiniteSets

CONSTANTS
    Handler,     \* the calls that are handled at a time
    Key,         \* the API keys
    AuthModes,   \* the values of LUMENROUTE_PROXY_AUTH_MODE looked at
    MaxAge,      \* for how many ticks a session lasts
    MaxTime,     \* bound: how many ticks pass
    MaxLogins,   \* bound: how often somebody logs in
    MaxChanges   \* bound: how many changes admins ask for

ASSUME AccessAssumption ==
    /\ IsFiniteSet(Handler)
    /\ AuthModes \subseteq {"required", "optional", "disabled"}
    /\ {MaxAge, MaxTime, MaxLogins, MaxChanges} \subseteq Nat

VARIABLES
    handler,    \* what is done with the call of each handler
    mode,       \* the proxy's authentication mode
    keys,       \* the table api_keys
    protected,  \* require_auth of the route
    project,    \* the project: the number of its token, 0 if none, and deleted_at
    tokens,     \* how many tokens were generated
    given,      \* the tokens that admins were given
    sessions,   \* the table sessions: number and expires_at
    logins,     \* how often somebody logged in
    now,        \* the time
    changes,    \* how many changes were asked for
    entitled    \* history: a call was entitled to what it asks for at some time since it arrived

tables == <<keys, protected, project, sessions>>
vars == <<handler, mode, tables, tokens, given, logins, now, changes, entitled>>

KeyOps == {"create key", "delete key", "disable key", "enable key"}
ProjectOps == {"new token", "delete project"}
RouteOps == {"protect route", "open route"}
AdminOps == KeyOps \cup ProjectOps \cup RouteOps
Exports == {"export by GET", "export by POST"}
Call == AdminOps \cup Exports \cup {"chat", "nothing"}

\* Where a handler is: in front of a lookup, behind it, and in a rotation.
Place == {"idle", "arrived", "validating", "cookie", "let in", "storing", "answering"}

\* Credentials by their kind and number.  A call shows some or none.
Token(n) == [kind |-> "token", id |-> n]
Session(n) == [kind |-> "session", id |-> n]
ApiKey(k) == [kind |-> "key", id |-> k]
Credential ==
    {ApiKey(k) : k \in Key} \cup {Token(n) : n \in 1 .. MaxChanges + 1}
        \cup {Session(n) : n \in 1 .. MaxLogins}

NoKey == [there |-> FALSE, enabled |-> FALSE, deleted |-> FALSE]
NewKey == [there |-> TRUE, enabled |-> TRUE, deleted |-> FALSE]

\* FAULT: deleted keys are found.
KeyFoundDeletedToo(k) == keys[k].there

\* The key of a hash, by the query of ValidateKey.
KeyFound(k) == keys[k].there /\ ~keys[k].deleted

\* What a lookup says of a credential, when it is made.
KeyAccepted(k) == KeyFound(k) /\ keys[k].enabled
TokenAccepted(n) == ~project.deleted /\ project.token = n
SessionAccepted(s) == \E row \in sessions : row.id = s /\ now <= row.expires

Accepted(c) ==
    \/ c.kind = "key" /\ KeyAccepted(c.id)
    \/ c.kind = "token" /\ TokenAccepted(c.id)
    \/ c.kind = "session" /\ SessionAccepted(c.id)

\* What a credential is worth.
Usable(c) ==
    \/ c.kind = "key" /\ keys[c.id] = NewKey
    \/ c.kind = "token" /\ project = [token |-> c.id, deleted |-> FALSE]
    \/ c.kind = "session" /\ \E row \in sessions : row.id = c.id /\ now <= row.expires

Shown(h, kind) == {c \in handler[h].shows : c.kind = kind}
AnyAccepted(credentials) == \E c \in credentials : Accepted(c)

Idle == [at |-> "idle", does |-> "nothing", key |-> "none", shows |-> {}, token |-> 0]

TypeOK ==
    /\ handler \in [Handler ->
         [at : Place, does : Call, key : Key \cup {"none"},
          shows : SUBSET Credential, token : 0 .. MaxChanges + 1]]
    /\ mode \in AuthModes
    /\ keys \in [Key -> [there : BOOLEAN, enabled : BOOLEAN, deleted : BOOLEAN]]
    /\ protected \in BOOLEAN
    /\ project \in [token : 0 .. tokens, deleted : BOOLEAN]
    /\ tokens \in 0 .. MaxChanges + 1
    /\ given \subseteq 1 .. tokens
    /\ sessions \subseteq [id : 1 .. logins, expires : 0 .. now + MaxAge]
    /\ \A one, other \in sessions : one.id = other.id => one = other
    /\ logins \in 0 .. MaxLogins
    /\ now \in 0 .. MaxTime
    /\ changes \in 0 .. MaxChanges
    /\ entitled \in [Handler -> BOOLEAN]

\* The first key and the first token are those that earlier calls left.
Init ==
    /\ handler = [h \in Handler |-> Idle]
    /\ mode \in AuthModes
    /\ keys \in [Key -> {NoKey, NewKey}]
    /\ protected \in BOOLEAN
    /\ project = [token |-> 1, deleted |-> FALSE]
    /\ tokens = 1
    /\ given = {1}
    /\ sessions = {}
    /\ logins = 0
    /\ now = 0
    /\ changes = 0
    /\ entitled = [h \in Handler |-> FALSE]

At(h, at) == handler[h].at = at
GoTo(h, at) == handler' = [handler EXCEPT ![h].at = at]
Refuse(h) == handler' = [handler EXCEPT ![h] = Idle]
LetInIf(h, condition) == IF condition THEN GoTo(h, "let in") ELSE Refuse(h)

(***************************************************************************)
(* Sessions.                                                               *)
(***************************************************************************)

\* The password is right: a session, and the cookie.
Login ==
    /\ logins < MaxLogins
    /\ logins' = logins + 1
    /\ sessions' = sessions \cup {[id |-> logins + 1, expires |-> now + MaxAge]}
    /\ UNCHANGED <<handler, mode, keys, protected, project, tokens, given, now, changes>>

\* The row of the cookie is deleted.
Logout(s) ==
    /\ \E row \in sessions : row.id = s
    /\ sessions' = {row \in sessions : row.id # s}
    /\ UNCHANGED <<handler, mode, keys, protected, project, tokens, given, logins, now, changes>>

\* Middleware: the row of the cookie, which is deleted if it is found to be over.
Middleware(h) ==
    LET found == {row \in sessions : Session(row.id) \in handler[h].shows} IN
    /\ At(h, "arrived") /\ handler[h].does \in AdminOps
    /\ LetInIf(h, \E row \in found : now <= row.expires)
    /\ sessions' = sessions \ {row \in found : now > row.expires}
    /\ UNCHANGED <<mode, keys, protected, project, tokens, given, logins, now, changes>>

Tick ==
    /\ now < MaxTime
    /\ now' = now + 1
    /\ UNCHANGED <<handler, mode, tables, tokens, given, logins, changes>>

(***************************************************************************)
(* Calls.                                                                  *)
(***************************************************************************)

arriving == <<mode, tables, tokens, given, logins, now>>

\* A call comes, with a key, with a token that somebody has, with a cookie.
Arrive(h, does, key, shows) ==
    /\ At(h, "idle")
    /\ handler' = [handler EXCEPT ![h] =
         [Idle EXCEPT !.at = "arrived", !.does = does, !.key = key, !.shows = shows]]
    /\ UNCHANGED arriving

Cookies == {{}} \cup {{Session(s)} : s \in 1 .. logins}

ArriveChat(h) ==
    /\ \E shows \in {{}} \cup {{ApiKey(k)} : k \in Key} : Arrive(h, "chat", "none", shows)
    /\ UNCHANGED changes

ArriveExport(h) ==
    /\ \E does \in Exports, bearer \in {{}} \cup {{Token(n)} : n \in given}, cookie \in Cookies :
         Arrive(h, does, "none", bearer \cup cookie)
    /\ UNCHANGED changes

ArriveAdmin(h) ==
    /\ changes < MaxChanges
    /\ changes' = changes + 1
    /\ \E cookie \in Cookies :
         \/ \E op \in KeyOps, k \in Key : Arrive(h, op, k, cookie)
         \/ \E op \in ProjectOps \cup RouteOps : Arrive(h, op, "none", cookie)

\* ChatCompletions has the route: is there a key to be asked for?
FindRoute(h) ==
    /\ At(h, "arrived") /\ handler[h].does = "chat"
    /\ IF mode = "disabled" \/ ~protected THEN GoTo(h, "let in")
       ELSE IF Shown(h, "key") = {} THEN Refuse(h)
       ELSE GoTo(h, "validating")
    /\ UNCHANGED <<arriving, changes>>

\* ValidateKey, whose last_used_at is left out.
ValidateKey(h) ==
    /\ At(h, "validating")
    /\ LetInIf(h, AnyAccepted(Shown(h, "key")))
    /\ UNCHANGED <<arriving, changes>>

\* checkExportAuth: the token first,
ValidateExportToken(h) ==
    /\ At(h, "arrived") /\ handler[h].does \in Exports
    /\ IF AnyAccepted(Shown(h, "token")) THEN GoTo(h, "let in")
       ELSE IF handler[h].does = "export by POST" THEN GoTo(h, "cookie")
       ELSE Refuse(h)
    /\ UNCHANGED <<arriving, changes>>

\* ... then the cookie, of which an expired row stays.
HasValidSession(h) ==
    /\ At(h, "cookie")
    /\ LetInIf(h, AnyAccepted(Shown(h, "session")))
    /\ UNCHANGED <<arriving, changes>>

\* A chat or an export that was let in is served and returns.
Serve(h) ==
    /\ At(h, "let in") /\ handler[h].does \notin AdminOps
    /\ Refuse(h)
    /\ UNCHANGED <<arriving, changes>>

(***************************************************************************)
(* Changes.                                                                *)
(***************************************************************************)

unchanging == <<mode, tokens, given, sessions, logins, now, changes>>

Does(h, op) == At(h, "let in") /\ handler[h].does = op

ChangeKey(h, found, new) ==
    /\ keys' = [keys EXCEPT ![handler[h].key] = IF found THEN new ELSE @]
    /\ Refuse(h)
    /\ UNCHANGED <<unchanging, protected, project>>

\* A key has a random secret: it is created once.
CreateKey(h) ==
    /\ Does(h, "create key")
    /\ ChangeKey(h, ~keys[handler[h].key].there, NewKey)

\* The statements of Delete, Disable and Enable pass over deleted keys.
DeleteKey(h) ==
    LET k == handler[h].key IN
    /\ Does(h, "delete key")
    /\ ChangeKey(h, KeyFound(k), [keys[k] EXCEPT !.deleted = TRUE])

DisableKey(h) ==
    LET k == handler[h].key IN
    /\ Does(h, "disable key")
    /\ ChangeKey(h, KeyFound(k), [keys[k] EXCEPT !.enabled = FALSE])

EnableKey(h) ==
    LET k == handler[h].key IN
    /\ Does(h, "enable key")
    /\ ChangeKey(h, KeyFound(k), [keys[k] EXCEPT !.enabled = TRUE])

SetRequireAuth(h) ==
    /\ At(h, "let in") /\ handler[h].does \in RouteOps
    /\ protected' = (handler[h].does = "protect route")
    /\ Refuse(h)
    /\ UNCHANGED <<unchanging, keys, project>>

DeleteProject(h) ==
    /\ Does(h, "delete project")
    /\ project' = [project EXCEPT !.deleted = TRUE]
    /\ Refuse(h)
    /\ UNCHANGED <<unchanging, keys, protected>>

\* FAULT: a token is given away before it is stored.
GenerateExportTokenEarly(h) ==
    /\ Does(h, "new token")
    /\ tokens' = tokens + 1
    /\ given' = given \cup {tokens'}
    /\ handler' = [handler EXCEPT ![h].at = "storing", ![h].token = tokens']
    /\ UNCHANGED <<mode, tables, logins, now, changes>>

\* A token is generated, and hashed for a good while,
GenerateExportToken(h) ==
    /\ Does(h, "new token")
    /\ tokens' = tokens + 1
    /\ handler' = [handler EXCEPT ![h].at = "storing", ![h].token = tokens']
    /\ UNCHANGED <<mode, tables, given, logins, now, changes>>

\* ... it replaces the one before, if the project is still there,
StoreToken(h) ==
    /\ At(h, "storing")
    /\ project' = IF project.deleted THEN project
                  ELSE [project EXCEPT !.token = handler[h].token]
    /\ GoTo(h, "answering")
    /\ UNCHANGED <<unchanging, keys, protected>>

\* ... and the admin gets it in any case.
AnswerToken(h) ==
    /\ At(h, "answering")
    /\ given' = given \cup {handler[h].token}
    /\ Refuse(h)
    /\ UNCHANGED <<mode, tables, tokens, logins, now, changes>>

(***************************************************************************)
(* The specification.                                                      *)
(***************************************************************************)

\* Whether a call is entitled to what it asks for, at this moment.
HasUsable(h, kind) == \E c \in Shown(h, kind) : Usable(c)

Entitled(h) ==
    \/ handler[h].does = "chat" /\ (mode = "disabled" \/ ~protected \/ HasUsable(h, "key"))
    \/ handler[h].does \in Exports /\ HasUsable(h, "token")
    \/ handler[h].does \in AdminOps \cup {"export by POST"} /\ HasUsable(h, "session")

Remember ==
    entitled' = [h \in Handler |->
        Entitled(h)' \/ (entitled[h] /\ handler[h].at # "idle" /\ handler'[h].at # "idle")]

Handle(h) ==
    \/ ArriveChat(h)
    \/ ArriveExport(h)
    \/ ArriveAdmin(h)
    \/ Middleware(h)
    \/ FindRoute(h)
    \/ ValidateKey(h)
    \/ ValidateExportToken(h)
    \/ HasValidSession(h)
    \/ Serve(h)
    \/ CreateKey(h)
    \/ DeleteKey(h)
    \/ DisableKey(h)
    \/ EnableKey(h)
    \/ SetRequireAuth(h)
    \/ DeleteProject(h)
    \/ GenerateExportToken(h)
    \/ StoreToken(h)
    \/ AnswerToken(h)

Step ==
    \/ \E h \in Handler : Handle(h)
    \/ Login
    \/ \E s \in 1 .. logins : Logout(s)
    \/ Tick

Next == Step /\ Remember

Spec == Init /\ [][Next]_vars

(***************************************************************************)
(* Properties.                                                             *)
(***************************************************************************)

\* Whatever is revoked, replaced, enabled and logged out between the lookups of a
\* call, it is let in only if it was entitled to it at some moment since it
\* arrived: in particular nobody who comes after a revocation is let in by it.
OnlyEntitledGetIn ==
    \A h \in Handler : handler[h].at \in {"let in", "storing", "answering"} => entitled[h]

\* What is over is over.  A credential becomes usable only when it is issued,
\* before anybody has it, or when a disabled key is enabled: not a deleted key, a
\* token that was replaced by a later one, a session that was logged out or expired.
NothingComesBack ==
    [][\A c \in Credential : ~Usable(c) /\ Usable(c)' =>
         \/ c.kind = "key" /\ ~keys[c.id].deleted
         \/ c.kind = "token" /\ c.id \notin given
         \/ c.kind = "session" /\ c.id > logins]_vars

=============================================================================
