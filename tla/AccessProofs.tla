---------------------------- MODULE AccessProofs ----------------------------
(***************************************************************************)
(* Proofs about Access, for any number of handlers, keys, logins, changes  *)
(* and ticks.                                                              *)
(*                                                                         *)
(* OnlyEntitledGetIn is inductive together with Remembered, by which a     *)
(* call that is entitled now has been: a lookup that lets a call in finds  *)
(* a credential that is usable at this moment (AcceptedIsUsable), and what *)
(* was remembered of a call stays until its handler returns.               *)
(*                                                                         *)
(* NothingComesBack follows from TokenInv, by which a token that is stored *)
(* is held by one handler alone and was given to nobody, and from what the *)
(* statements of a key look for (DeletedStays).  The bounds of TypeOK are  *)
(* those of BoundsInv: a token takes a change.                             *)
(***************************************************************************)
EXTENDS Access, FiniteSetTheorems, TLAPS

In == {"let in", "storing", "answering"}

AnyCredential ==
    {ApiKey(k) : k \in Key} \cup {Token(n) : n \in Nat} \cup {Session(n) : n \in Nat}

HandlerType ==
    handler \in [Handler -> [at : Place, does : Call, key : Key \cup {"none"},
                             shows : SUBSET AnyCredential, token : Nat]]

KeysType == keys \in [Key -> [there : BOOLEAN, enabled : BOOLEAN, deleted : BOOLEAN]]

NumbersType ==
    /\ tokens \in Nat /\ given \subseteq Nat /\ logins \in Nat
    /\ project \in [token : Nat, deleted : BOOLEAN]

\* The types that the proof needs, without the bounds of TLC's run.
StateType == HandlerType /\ KeysType /\ NumbersType

Remembered ==
    /\ entitled \in [Handler -> BOOLEAN]
    /\ \A h \in Handler : Entitled(h) => entitled[h]

PlaceOf(h) ==
    /\ handler[h].at = "validating" => handler[h].does = "chat"
    /\ handler[h].at = "cookie" => handler[h].does = "export by POST"

Places == \A h \in Handler : PlaceOf(h)

EntitledInv == StateType /\ Places /\ Remembered /\ OnlyEntitledGetIn

-----------------------------------------------------------------------------
\* A handler that does nothing is of the type.
LEMMA IdleType ==
    Idle \in [at : Place, does : Call, key : Key \cup {"none"},
              shows : SUBSET AnyCredential, token : Nat]
BY DEF Idle, Place, Call

\* A key that is gone, and a new one, are of the type.
LEMMA KeyTypes ==
    {NoKey, NewKey} \subseteq [there : BOOLEAN, enabled : BOOLEAN, deleted : BOOLEAN]
BY DEF NoKey, NewKey

\* Nobody is in at the start.
LEMMA InitEntitled == Init => EntitledInv
<1> SUFFICES ASSUME Init PROVE EntitledInv
    OBVIOUS
<1>1. StateType
    <2>1. HandlerType
        BY IdleType DEF Init, HandlerType
    <2>2. KeysType
        BY KeyTypes DEF Init, KeysType
    <2>3. NumbersType
        BY DEF Init, NumbersType
    <2> QED
        BY <2>1, <2>2, <2>3 DEF StateType
<1>2. \A h \in Handler : handler[h].does = "nothing" /\ handler[h].at = "idle"
    BY DEF Init, Idle
<1>3. \A h \in Handler : ~Entitled(h)
    BY <1>2 DEF Entitled, Exports, AdminOps, KeyOps, ProjectOps, RouteOps
<1>4. Remembered
    BY <1>3 DEF Init, Remembered
<1>5. OnlyEntitledGetIn
    BY <1>2 DEF OnlyEntitledGetIn
<1>6. Places
    BY <1>2 DEF Places, PlaceOf
<1> QED
    BY <1>1, <1>4, <1>5, <1>6 DEF EntitledInv

\* Where the state of a handler is changed by one of the three forms, it keeps
\* its type, and so do the others.
LEMMA GoToType ==
    ASSUME HandlerType, NEW h \in Handler, NEW at \in Place, GoTo(h, at)
    PROVE  HandlerType'
BY DEF HandlerType, GoTo

\* A refusal keeps the type,
LEMMA RefuseType ==
    ASSUME HandlerType, NEW h \in Handler, Refuse(h)
    PROVE  HandlerType'
BY IdleType DEF HandlerType, Refuse

\* ... so does a lookup, whichever way it goes,
LEMMA LetInIfType ==
    ASSUME HandlerType, NEW h \in Handler, NEW condition, LetInIf(h, condition)
    PROVE  HandlerType'
<1>1. CASE condition
    BY <1>1, GoToType DEF LetInIf, Place
<1>2. CASE ~condition
    BY <1>2, RefuseType DEF LetInIf
<1> QED
    BY <1>1, <1>2

\* ... the arrival of a call,
LEMMA ArriveType ==
    ASSUME HandlerType, NEW h \in Handler, NEW does \in Call, NEW key \in Key \cup {"none"},
           NEW shows \in SUBSET AnyCredential, Arrive(h, does, key, shows)
    PROVE  HandlerType'
<1>1. [Idle EXCEPT !.at = "arrived", !.does = does, !.key = key, !.shows = shows]
        \in [at : Place, does : Call, key : Key \cup {"none"},
             shows : SUBSET AnyCredential, token : Nat]
    BY IdleType DEF Idle, Place
<1> QED
    BY <1>1 DEF HandlerType, Arrive

\* ... the credential that is a cookie of a session,
LEMMA CookieType ==
    ASSUME NumbersType, NEW cookie \in Cookies
    PROVE  cookie \in SUBSET AnyCredential
BY DEF NumbersType, Cookies, AnyCredential

\* ... and what an admin does to a key.
LEMMA ChangeKeyType ==
    ASSUME HandlerType, KeysType, NEW h \in Handler, NEW found,
           NEW new \in [there : BOOLEAN, enabled : BOOLEAN, deleted : BOOLEAN],
           ChangeKey(h, found, new)
    PROVE  HandlerType' /\ KeysType'
<1>1. HandlerType'
    BY RefuseType DEF ChangeKey
<1>2. KeysType'
    BY DEF KeysType, ChangeKey
<1> QED
    BY <1>1, <1>2

\* A change that finds no key leaves the keys alone.
LEMMA NoKeyChanges ==
    ASSUME KeysType, NEW h, NEW found, NEW new, ChangeKey(h, found, new),
           ~(found /\ handler[h].key \in Key)
    PROVE  keys' = keys
<1> DEFINE k == handler[h].key
<1>1. keys' = [keys EXCEPT ![k] = IF found THEN new ELSE @]
    BY DEF ChangeKey
<1>2. CASE k \in Key
    BY <1>1, <1>2 DEF KeysType
<1>3. CASE k \notin Key
    BY <1>1, <1>3 DEF KeysType
<1> QED
    BY <1>2, <1>3

\* Every step keeps the types.
LEMMA TypesStay == ASSUME StateType, Step PROVE StateType'
<1> USE DEF StateType
<1>1. ASSUME NEW h \in Handler, Handle(h) PROVE StateType'
    <2>1. CASE ArriveChat(h)
        <3>1. PICK shows \in {{}} \cup {{ApiKey(k)} : k \in Key} : Arrive(h, "chat", "none", shows)
            BY <2>1 DEF ArriveChat
        <3>2. shows \in SUBSET AnyCredential
            BY DEF AnyCredential
        <3>3. HandlerType'
            BY <3>1, <3>2, ArriveType DEF Call
        <3> QED
            BY <3>1, <3>3 DEF Arrive, arriving, tables, KeysType, NumbersType
    <2>2. CASE ArriveExport(h)
        <3>1. PICK does \in Exports, bearer \in {{}} \cup {{Token(n)} : n \in given},
                   cookie \in Cookies : Arrive(h, does, "none", bearer \cup cookie)
            BY <2>2 DEF ArriveExport
        <3>2. bearer \in SUBSET AnyCredential
            BY DEF NumbersType, AnyCredential
        <3>3. bearer \cup cookie \in SUBSET AnyCredential
            BY <3>2, CookieType
        <3>4. HandlerType'
            BY <3>1, <3>3, ArriveType DEF Call
        <3> QED
            BY <3>1, <3>4 DEF Arrive, arriving, tables, KeysType, NumbersType
    <2>3. CASE ArriveAdmin(h)
        <3>1. PICK does \in AdminOps, key \in Key \cup {"none"}, cookie \in Cookies :
                   Arrive(h, does, key, cookie)
            BY <2>3 DEF ArriveAdmin, AdminOps
        <3>2. HandlerType'
            BY <3>1, CookieType, ArriveType DEF Call
        <3> QED
            BY <3>1, <3>2 DEF Arrive, arriving, tables, KeysType, NumbersType
    <2>4. CASE Middleware(h)
        <3>1. HandlerType'
            BY <2>4, LetInIfType DEF Middleware
        <3> QED
            BY <2>4, <3>1 DEF Middleware, KeysType, NumbersType
    <2>5. CASE FindRoute(h) \/ ValidateKey(h) \/ ValidateExportToken(h) \/ HasValidSession(h)
               \/ Serve(h)
        <3>1. HandlerType'
            <4>1. Refuse(h) \/ \E at \in Place : GoTo(h, at)
                BY <2>5 DEF FindRoute, ValidateKey, ValidateExportToken, HasValidSession, Serve,
                            LetInIf, Place
            <4> QED
                BY <4>1, RefuseType, GoToType
        <3> QED
            BY <2>5, <3>1 DEF FindRoute, ValidateKey, ValidateExportToken, HasValidSession,
                              Serve, arriving, tables, KeysType, NumbersType
    <2>6. CASE CreateKey(h)
        <3>1. HandlerType' /\ KeysType'
            BY <2>6, KeyTypes, ChangeKeyType DEF CreateKey
        <3> QED
            BY <2>6, <3>1 DEF CreateKey, ChangeKey, unchanging, NumbersType
    <2>7. CASE DeleteKey(h) \/ DisableKey(h) \/ EnableKey(h)
        <3> DEFINE k == handler[h].key
        <3>1. CASE KeyFound(k) /\ k \in Key
            <4>1. HandlerType' /\ KeysType'
                BY <2>7, <3>1, ChangeKeyType DEF DeleteKey, DisableKey, EnableKey, KeysType
            <4> QED
                BY <2>7, <4>1 DEF DeleteKey, DisableKey, EnableKey, ChangeKey, unchanging,
                                  NumbersType
        <3>2. CASE ~(KeyFound(k) /\ k \in Key)
            <4>1. keys' = keys
                <5>1. PICK new : ChangeKey(h, KeyFound(k), new)
                    BY <2>7 DEF DeleteKey, DisableKey, EnableKey
                <5> QED
                    BY <3>2, <5>1, NoKeyChanges
            <4>2. HandlerType'
                BY <2>7, RefuseType DEF DeleteKey, DisableKey, EnableKey, ChangeKey
            <4> QED
                BY <2>7, <4>1, <4>2 DEF DeleteKey, DisableKey, EnableKey, ChangeKey, unchanging,
                                        NumbersType, KeysType
        <3> QED
            BY <3>1, <3>2
    <2>8. CASE SetRequireAuth(h) \/ DeleteProject(h)
        <3>1. HandlerType'
            BY <2>8, RefuseType DEF SetRequireAuth, DeleteProject
        <3> QED
            BY <2>8, <3>1 DEF SetRequireAuth, DeleteProject, unchanging, KeysType, NumbersType
    <2>9. CASE GenerateExportToken(h)
        <3>1. tokens' = tokens + 1 /\ UNCHANGED <<given, logins, project, keys>>
            BY <2>9 DEF GenerateExportToken, tables
        <3>2. NumbersType'
            BY <3>1 DEF NumbersType
        <3> DEFINE new == [handler[h] EXCEPT !.at = "storing", !.token = tokens']
        <3>3. handler' = [handler EXCEPT ![h] = new]
            BY <2>9 DEF GenerateExportToken
        <3>4. tokens' \in Nat
            BY <3>2 DEF NumbersType
        <3>5. new \in [at : Place, does : Call, key : Key \cup {"none"},
                      shows : SUBSET AnyCredential, token : Nat]
            BY <3>4 DEF HandlerType, Place
        <3> HIDE DEF new
        <3>6. HandlerType'
            BY <3>3, <3>5 DEF HandlerType
        <3> QED
            BY <3>1, <3>2, <3>6 DEF KeysType
    <2>10. CASE StoreToken(h)
        <3>1. HandlerType'
            BY <2>10, GoToType DEF StoreToken, Place
        <3>2. handler[h].token \in Nat
            BY DEF HandlerType
        <3>3. NumbersType'
            BY <2>10, <3>2 DEF StoreToken, unchanging, NumbersType
        <3> QED
            BY <2>10, <3>1, <3>3 DEF StoreToken, KeysType
    <2>11. CASE AnswerToken(h)
        <3>1. HandlerType'
            BY <2>11, RefuseType DEF AnswerToken
        <3>2. handler[h].token \in Nat
            BY DEF HandlerType
        <3> QED
            BY <2>11, <3>1, <3>2 DEF AnswerToken, tables, KeysType, NumbersType
    <2> QED
        BY <1>1, <2>1, <2>2, <2>3, <2>4, <2>5, <2>6, <2>7, <2>8, <2>9, <2>10, <2>11 DEF Handle
<1>2. CASE Login
    <2>1. NumbersType'
        BY <1>2 DEF Login, NumbersType
    <2> QED
        BY <1>2, <2>1 DEF Login, HandlerType, KeysType
<1>3. CASE Tick
    BY <1>3 DEF Tick, tables, HandlerType, KeysType, NumbersType
<1>4. ASSUME NEW s \in 1 .. logins, Logout(s) PROVE StateType'
    BY <1>4 DEF Logout, HandlerType, KeysType, NumbersType
<1> QED
    BY <1>1, <1>2, <1>3, <1>4 DEF Step

-----------------------------------------------------------------------------
\* A lookup accepts nothing but what is usable.
LEMMA AcceptedIsUsable ==
    ASSUME StateType, NEW h \in Handler, NEW c \in handler[h].shows, Accepted(c)
    PROVE  Usable(c)
<1>1. c \in AnyCredential
    BY DEF StateType, HandlerType
<1>2. CASE c.kind = "key"
    <2>1. c.id \in Key
        BY <1>1, <1>2 DEF AnyCredential, ApiKey, Token, Session
    <2>2. keys[c.id].there /\ ~keys[c.id].deleted /\ keys[c.id].enabled
        BY <1>2 DEF Accepted, KeyAccepted, KeyFound
    <2>3. keys[c.id] \in [there : BOOLEAN, enabled : BOOLEAN, deleted : BOOLEAN]
        BY <2>1 DEF StateType, KeysType
    <2>4. keys[c.id] = NewKey
        BY <2>2, <2>3 DEF NewKey
    <2> QED
        BY <1>2, <2>4 DEF Usable
<1>3. CASE c.kind = "token" /\ ~project.deleted /\ project.token = c.id
    BY <1>3 DEF StateType, NumbersType, Usable
<1>4. CASE c.kind = "session" /\ \E row \in sessions : row.id = c.id /\ now <= row.expires
    BY <1>4 DEF Usable
<1> QED
    BY <1>2, <1>3, <1>4 DEF Accepted, TokenAccepted, SessionAccepted

\* What a lookup accepts is usable when it is looked up.
LEMMA AcceptedGivesUsable ==
    ASSUME StateType, NEW h \in Handler, NEW kind, AnyAccepted(Shown(h, kind))
    PROVE  HasUsable(h, kind)
BY AcceptedIsUsable DEF AnyAccepted, Shown, HasUsable

\* Where a handler is after each of the three forms of a change.
LEMMA Moves ==
    ASSUME HandlerType, NEW g \in Handler, NEW h \in Handler, h # g,
           Refuse(g) \/ \E at : GoTo(g, at)
    PROVE  handler'[h] = handler[h]
BY DEF HandlerType, Refuse, GoTo

\* A refused call is not in.
LEMMA RefusedIsIdle ==
    ASSUME HandlerType, NEW h \in Handler, Refuse(h)
    PROVE  handler'[h].at = "idle"
BY DEF HandlerType, Refuse, Idle

\* Only chats wait for the lookup of a key, only exports by POST for that of a
\* cookie: a handler comes to these places by FindRoute and ValidateExportToken.
LEMMA PlacesStay == ASSUME StateType, Places, Step PROVE Places'
<1> SUFFICES ASSUME NEW h \in Handler PROVE PlaceOf(h)'
    BY DEF Places
<1> USE DEF StateType
<1>1. PlaceOf(h)
    BY DEF Places
<1>2. CASE handler'[h] = handler[h]
    BY <1>1, <1>2 DEF PlaceOf
<1>3. CASE handler'[h].at \notin {"validating", "cookie"}
    BY <1>3 DEF PlaceOf
<1>4. ASSUME NEW g \in Handler, Handle(g), handler'[h] # handler[h],
             handler'[h].at \in {"validating", "cookie"}
      PROVE  PlaceOf(h)'
    <2>1. CASE ArriveChat(g) \/ ArriveExport(g) \/ ArriveAdmin(g)
        <3>1. PICK does, key, shows : Arrive(g, does, key, shows)
            BY <2>1 DEF ArriveChat, ArriveExport, ArriveAdmin
        <3>2. handler'[h] = handler[h] \/ handler'[h].at = "arrived"
            BY <3>1 DEF Arrive, Idle, HandlerType
        <3> QED
            BY <1>4, <3>2
    <2>2. CASE GenerateExportToken(g)
        BY <1>4, <2>2 DEF GenerateExportToken, HandlerType
    <2>3. ASSUME Refuse(g) \/ \E at : GoTo(g, at)
          PROVE  h = g /\ ~Refuse(g)
        BY <1>4, <2>3, Moves, RefusedIsIdle
    <2>4. ASSUME NEW at, GoTo(g, at)
          PROVE  handler'[g].at = at /\ handler'[g].does = handler[g].does
        BY <2>4 DEF GoTo, HandlerType
    <2>5. CASE FindRoute(g)
        <3>1. h = g /\ ~Refuse(g)
            BY <2>3, <2>5 DEF FindRoute
        <3>2. GoTo(g, "let in") \/ GoTo(g, "validating")
            BY <2>5, <3>1 DEF FindRoute
        <3>3. handler[g].does = "chat"
            BY <2>5 DEF FindRoute
        <3>4. /\ handler'[g].does = handler[g].does
              /\ handler'[g].at \in {"let in", "validating"}
            BY <2>4, <3>2
        <3> QED
            BY <3>1, <3>3, <3>4 DEF PlaceOf
    <2>6. CASE ValidateExportToken(g)
        <3>1. h = g /\ ~Refuse(g)
            BY <2>3, <2>6 DEF ValidateExportToken
        <3>2. GoTo(g, "let in") \/ (GoTo(g, "cookie") /\ handler[g].does = "export by POST")
            BY <2>6, <3>1 DEF ValidateExportToken
        <3>3. /\ handler'[g].does = handler[g].does
              /\ \/ handler'[g].at = "let in"
                 \/ handler'[g].at = "cookie" /\ handler[g].does = "export by POST"
            BY <2>4, <3>2
        <3> QED
            BY <3>1, <3>3 DEF PlaceOf
    <2>7. CASE Middleware(g) \/ ValidateKey(g) \/ HasValidSession(g)
        <3>1. Refuse(g) \/ GoTo(g, "let in")
            BY <2>7 DEF Middleware, ValidateKey, HasValidSession, LetInIf
        <3>2. h = g /\ GoTo(g, "let in")
            BY <2>3, <3>1
        <3>3. handler'[g].at = "let in"
            BY <2>4, <3>2
        <3> QED
            BY <1>4, <3>2, <3>3
    <2>8. CASE StoreToken(g)
        <3>1. GoTo(g, "answering")
            BY <2>8 DEF StoreToken
        <3>2. h = g
            BY <2>3, <3>1
        <3>3. handler'[g].at = "answering"
            BY <2>4, <3>1
        <3> QED
            BY <1>4, <3>2, <3>3
    <2>9. CASE Serve(g) \/ CreateKey(g) \/ DeleteKey(g) \/ DisableKey(g) \/ EnableKey(g)
               \/ SetRequireAuth(g) \/ DeleteProject(g) \/ AnswerToken(g)
        <3>1. Refuse(g)
            BY <2>9 DEF Serve, CreateKey, DeleteKey, DisableKey, EnableKey, ChangeKey,
                        SetRequireAuth, DeleteProject, AnswerToken
        <3> QED
            BY <2>3, <3>1
    <2> QED
        BY <1>4, <2>1, <2>2, <2>5, <2>6, <2>7, <2>8, <2>9 DEF Handle
<1> QED
    BY <1>2, <1>3, <1>4 DEF Step, Login, Logout, Tick

\* A handler gets in by a lookup that accepts its credential, or needs none.
LEMMA GetsInByLookup ==
    ASSUME StateType, Places, Step, NEW h \in Handler,
           handler'[h].at \in In, handler[h].at \notin In
    PROVE  Entitled(h) /\ handler[h].at # "idle"
<1> USE DEF StateType, In
<1>1. handler' # handler
    OBVIOUS
<1>2. PICK g \in Handler : Handle(g)
    BY <1>1 DEF Step, Login, Logout, Tick
<1>3. CASE ArriveChat(g) \/ ArriveExport(g) \/ ArriveAdmin(g)
    <2>1. PICK does, key, shows : Arrive(g, does, key, shows)
        BY <1>3 DEF ArriveChat, ArriveExport, ArriveAdmin
    <2>2. handler'[h] = handler[h] \/ handler'[h].at = "arrived"
        BY <2>1 DEF Arrive, Idle, HandlerType
    <2> QED
        BY <2>2
<1>4. CASE Middleware(g)
    <2>1. PICK row \in sessions : Session(row.id) \in handler[g].shows /\ now <= row.expires
        <3>1. CASE Refuse(g)
            BY <3>1, Moves, RefusedIsIdle
        <3> QED
            BY <1>4, <3>1 DEF Middleware, LetInIf
    <2>2. Accepted(Session(row.id)) /\ Session(row.id).kind = "session"
        BY <2>1 DEF Accepted, SessionAccepted, Session
    <2>3. HasUsable(g, "session")
        BY <2>1, <2>2, AcceptedGivesUsable DEF AnyAccepted, Shown
    <2>4. h = g
        BY <1>4, Moves DEF Middleware, LetInIf
    <2> QED
        BY <1>4, <2>3, <2>4 DEF Middleware, At, Entitled
<1>5. CASE FindRoute(g)
    <2>1. h = g
        BY <1>5, Moves DEF FindRoute
    <2>2. mode = "disabled" \/ ~protected
        <3>1. CASE Refuse(g) \/ GoTo(g, "validating")
            BY <2>1, <3>1, RefusedIsIdle DEF GoTo, HandlerType
        <3> QED
            BY <1>5, <3>1 DEF FindRoute
    <2> QED
        BY <1>5, <2>1, <2>2 DEF FindRoute, At, Entitled
<1>6. CASE ValidateKey(g)
    <2>1. h = g
        BY <1>6, Moves DEF ValidateKey, LetInIf
    <2>2. HasUsable(g, "key")
        <3>1. ~Refuse(g)
            BY <2>1, RefusedIsIdle
        <3> QED
            BY <1>6, <3>1, AcceptedGivesUsable DEF ValidateKey, LetInIf
    <2> QED
        BY <1>6, <2>1, <2>2 DEF ValidateKey, At, Places, PlaceOf, Entitled
<1>7. CASE ValidateExportToken(g)
    <2>1. h = g
        BY <1>7, Moves DEF ValidateExportToken
    <2>2. HasUsable(g, "token")
        <3>1. ~Refuse(g)
            BY <2>1, RefusedIsIdle
        <3>2. ~GoTo(g, "cookie")
            BY <2>1 DEF GoTo, HandlerType
        <3> QED
            BY <1>7, <3>1, <3>2, AcceptedGivesUsable DEF ValidateExportToken
    <2> QED
        BY <1>7, <2>1, <2>2 DEF ValidateExportToken, At, Entitled
<1>8. CASE HasValidSession(g)
    <2>1. h = g
        BY <1>8, Moves DEF HasValidSession, LetInIf
    <2>2. HasUsable(g, "session")
        <3>1. ~Refuse(g)
            BY <2>1, RefusedIsIdle
        <3> QED
            BY <1>8, <3>1, AcceptedGivesUsable DEF HasValidSession, LetInIf
    <2> QED
        BY <1>8, <2>1, <2>2 DEF HasValidSession, At, Places, PlaceOf, Entitled
<1>9. CASE Serve(g) \/ CreateKey(g) \/ DeleteKey(g) \/ DisableKey(g) \/ EnableKey(g)
           \/ SetRequireAuth(g) \/ DeleteProject(g) \/ AnswerToken(g)
    <2>1. Refuse(g)
        BY <1>9 DEF Serve, CreateKey, DeleteKey, DisableKey, EnableKey, ChangeKey,
                    SetRequireAuth, DeleteProject, AnswerToken
    <2> QED
        BY <2>1, Moves, RefusedIsIdle
<1>10. CASE GenerateExportToken(g) \/ StoreToken(g)
    \* It is in already, or another handler is.
    BY <1>10 DEF GenerateExportToken, StoreToken, GoTo, Does, At, HandlerType
<1> QED
    BY <1>2, <1>3, <1>4, <1>5, <1>6, <1>7, <1>8, <1>9, <1>10 DEF Handle

\* EntitledInv is inductive.
LEMMA StepEntitled == ASSUME EntitledInv, [Next]_vars PROVE EntitledInv'
<1>1. CASE Next
    <2>1. StateType'
        BY <1>1, TypesStay DEF EntitledInv, Next
    <2>2. Places'
        BY <1>1, PlacesStay DEF EntitledInv, Next
    <2>3. Remembered'
        BY <1>1 DEF EntitledInv, Next, Remember, Remembered
    <2>4. OnlyEntitledGetIn'
        <3> SUFFICES ASSUME NEW h \in Handler, handler'[h].at \in In PROVE entitled'[h]
            BY DEF OnlyEntitledGetIn, In
        <3>1. entitled[h] /\ handler[h].at # "idle"
            <4>1. CASE handler[h].at \in In
                BY <4>1 DEF EntitledInv, OnlyEntitledGetIn, In
            <4>2. CASE handler[h].at \notin In
                BY <1>1, <4>2, GetsInByLookup DEF EntitledInv, Remembered, Next
            <4> QED
                BY <4>1, <4>2
        <3>2. handler'[h].at # "idle"
            BY DEF In
        <3> QED
            BY <1>1, <3>1, <3>2 DEF Next, Remember
    <2> QED
        BY <2>1, <2>2, <2>3, <2>4 DEF EntitledInv
<1>2. CASE UNCHANGED vars
    BY <1>2, ZenonT(40) DEF EntitledInv, vars, tables, StateType, HandlerType, KeysType, NumbersType,
                Places, PlaceOf, Remembered, OnlyEntitledGetIn, Entitled, HasUsable, Shown, Usable
<1> QED
    BY <1>1, <1>2 DEF Next

\* Whatever is revoked, replaced, enabled and logged out meanwhile, a call is let in
\* only if it was entitled to what it asks for at some moment since it arrived.
THEOREM NobodyElseGetsIn == Spec => []OnlyEntitledGetIn
<1>1. Init => EntitledInv
    BY InitEntitled
<1>2. EntitledInv /\ [Next]_vars => EntitledInv'
    BY StepEntitled
<1>3. EntitledInv => OnlyEntitledGetIn
    BY DEF EntitledInv
<1> QED
    BY <1>1, <1>2, <1>3, PTL DEF Spec

-----------------------------------------------------------------------------
\* A handler has a token that nobody was given yet, or that it is about to give.
HoldsToken == {"storing", "answering"}

\* Tokens are numbered as they are generated: each of them is held by one
\* handler at most, and nobody has it before it is stored.
TokenInv ==
    /\ given \subseteq 1 .. tokens
    /\ project.token \in 0 .. tokens
    /\ \A h \in Handler : handler[h].at \in HoldsToken => handler[h].token \in 1 .. tokens
    /\ \A h \in Handler : handler[h].at = "storing" => handler[h].token \notin given
    /\ \A g, h \in Handler :
         g # h /\ handler[g].at \in HoldsToken /\ handler[h].at \in HoldsToken =>
            handler[g].token # handler[h].token

\* A deleted key is there, so that it is not created again.
KeysMade == \A k \in Key : keys[k].deleted => keys[k].there

HistoryInv == StateType /\ TokenInv /\ KeysMade

\* Most steps of a handler leave it without a token.
LEMMA MovesOn ==
    ASSUME HandlerType, NEW g \in Handler,
           \/ Refuse(g)
           \/ \E at \in {"let in", "validating", "cookie"} : GoTo(g, at)
           \/ \E does, key, shows : Arrive(g, does, key, shows)
    PROVE  /\ handler'[g].at \notin HoldsToken
           /\ \A h \in Handler \ {g} : handler'[h] = handler[h]
<1>1. CASE Refuse(g)
    BY <1>1, RefusedIsIdle, Moves DEF HoldsToken
<1>2. ASSUME NEW at \in {"let in", "validating", "cookie"}, GoTo(g, at)
      PROVE  handler'[g].at \notin HoldsToken
    BY <1>2 DEF GoTo, HandlerType, HoldsToken
<1>3. ASSUME NEW does, NEW key, NEW shows, Arrive(g, does, key, shows)
      PROVE  /\ handler'[g].at \notin HoldsToken
             /\ \A h \in Handler \ {g} : handler'[h] = handler[h]
    BY <1>3 DEF Arrive, Idle, HandlerType, HoldsToken
<1> QED
    BY <1>1, <1>2, <1>3, Moves

\* They leave the tokens alone.
LEMMA TokensKept ==
    ASSUME TokenInv, NEW g \in Handler, handler'[g].at \notin HoldsToken,
           \A h \in Handler \ {g} : handler'[h] = handler[h],
           UNCHANGED <<tokens, given>>, project'.token = project.token
    PROVE  TokenInv'
BY DEF TokenInv, HoldsToken

\* A new token is one more than all before it.
LEMMA GenerateKeepsTokens ==
    ASSUME StateType, TokenInv, NEW g \in Handler, GenerateExportToken(g)
    PROVE  TokenInv'
<1>1. tokens \in Nat
    BY DEF StateType, NumbersType
<1>2. tokens' = tokens + 1 /\ UNCHANGED <<given, project>>
    BY DEF GenerateExportToken, tables
<1>3. handler'[g].at = "storing" /\ handler'[g].token = tokens + 1
    BY <1>2 DEF GenerateExportToken, StateType, HandlerType
<1>4. \A h \in Handler \ {g} : handler'[h] = handler[h]
    BY DEF GenerateExportToken, StateType, HandlerType
<1>5. 1 .. tokens \subseteq 1 .. tokens' /\ tokens + 1 \in 1 .. tokens' /\ tokens + 1 \notin 1 .. tokens
    BY <1>1, <1>2
<1>6. given' \subseteq 1 .. tokens' /\ project'.token \in 0 .. tokens'
    BY <1>1, <1>2 DEF TokenInv
<1>7. \A h \in Handler : handler'[h].at \in HoldsToken => handler'[h].token \in 1 .. tokens'
    BY <1>3, <1>4, <1>5 DEF TokenInv
<1>8. \A h \in Handler : handler'[h].at = "storing" => handler'[h].token \notin given'
    BY <1>2, <1>3, <1>4, <1>5 DEF TokenInv
<1>9. \A h \in Handler \ {g} : handler'[h].at \in HoldsToken => handler'[h].token # tokens + 1
    BY <1>4, <1>5 DEF TokenInv
<1>10. \A f, h \in Handler :
         f # h /\ handler'[f].at \in HoldsToken /\ handler'[h].at \in HoldsToken =>
            handler'[f].token # handler'[h].token
    BY <1>3, <1>4, <1>9 DEF TokenInv
<1> QED
    BY <1>6, <1>7, <1>8, <1>10 DEF TokenInv

\* Storing it and giving it away is left to the handler that holds it.
LEMMA StoreKeepsTokens ==
    ASSUME StateType, TokenInv, NEW g \in Handler, StoreToken(g)
    PROVE  TokenInv'
<1>1. UNCHANGED <<tokens, given>>
    BY DEF StoreToken, unchanging
<1>2. handler[g].at = "storing" /\ handler[g].token \in 1 .. tokens /\ tokens \in Nat
    BY DEF StoreToken, At, TokenInv, HoldsToken, StateType, NumbersType
<1>3. handler'[g].at = "answering" /\ handler'[g].token = handler[g].token
    BY DEF StoreToken, GoTo, StateType, HandlerType
<1>4. \A h \in Handler \ {g} : handler'[h] = handler[h]
    BY DEF StoreToken, GoTo, StateType, HandlerType
<1>5. project'.token \in {project.token, handler[g].token}
    BY DEF StoreToken, StateType, NumbersType
<1>6. project'.token \in 0 .. tokens
    BY <1>2, <1>5 DEF TokenInv
<1>7. \A h \in Handler : handler'[h].token = handler[h].token
    BY <1>3, <1>4
<1>8. \A h \in Handler : handler'[h].at \in HoldsToken <=> handler[h].at \in HoldsToken
    BY <1>2, <1>3, <1>4 DEF HoldsToken
<1>9. \A h \in Handler : handler'[h].at = "storing" => handler[h].at = "storing"
    BY <1>3, <1>4
<1> QED
    BY <1>1, <1>6, <1>7, <1>8, <1>9 DEF TokenInv

\* When it is given away, its handler holds it no more.
LEMMA AnswerKeepsTokens ==
    ASSUME StateType, TokenInv, NEW g \in Handler, AnswerToken(g)
    PROVE  TokenInv'
<1>1. given' = given \cup {handler[g].token} /\ UNCHANGED <<tokens, project>>
    BY DEF AnswerToken, tables
<1>2. handler[g].at = "answering" /\ handler[g].token \in 1 .. tokens
    BY DEF AnswerToken, At, TokenInv, HoldsToken
<1>3. /\ handler'[g].at \notin HoldsToken
      /\ \A h \in Handler \ {g} : handler'[h] = handler[h]
    BY MovesOn DEF AnswerToken, StateType
<1>4. \A h \in Handler \ {g} : handler[h].at \in HoldsToken => handler[h].token # handler[g].token
    BY <1>2 DEF TokenInv, HoldsToken
<1>5. \A h \in Handler : handler'[h].at = "storing" => handler'[h].token \notin given'
    BY <1>1, <1>3, <1>4 DEF TokenInv, HoldsToken
<1> QED
    BY <1>1, <1>2, <1>3, <1>5 DEF TokenInv

\* So no step mixes tokens up.
LEMMA TokensApart == ASSUME StateType, TokenInv, Step PROVE TokenInv'
<1>1. CASE Login \/ Tick \/ \E s \in 1 .. logins : Logout(s)
    BY <1>1 DEF Login, Tick, Logout, tables, TokenInv
<1>2. ASSUME NEW g \in Handler, Handle(g) PROVE TokenInv'
    <2>1. CASE GenerateExportToken(g) \/ StoreToken(g) \/ AnswerToken(g)
        BY <2>1, GenerateKeepsTokens, StoreKeepsTokens, AnswerKeepsTokens
    <2>2. CASE ArriveChat(g) \/ ArriveExport(g) \/ ArriveAdmin(g)
        <3>1. PICK does, key, shows : Arrive(g, does, key, shows)
            BY <2>2 DEF ArriveChat, ArriveExport, ArriveAdmin
        <3>2. UNCHANGED <<tokens, given, project>>
            BY <3>1 DEF Arrive, arriving, tables
        <3> QED
            BY <3>1, <3>2, MovesOn, TokensKept DEF StateType
    <2>3. CASE Middleware(g) \/ FindRoute(g) \/ ValidateKey(g) \/ ValidateExportToken(g)
               \/ HasValidSession(g) \/ Serve(g)
        <3>1. Refuse(g) \/ \E at \in {"let in", "validating", "cookie"} : GoTo(g, at)
            BY <2>3 DEF Middleware, FindRoute, ValidateKey, ValidateExportToken, HasValidSession,
                        Serve, LetInIf
        <3>2. UNCHANGED <<tokens, given, project>>
            BY <2>3 DEF Middleware, FindRoute, ValidateKey, ValidateExportToken, HasValidSession,
                        Serve, arriving, tables
        <3> QED
            BY <3>1, <3>2, MovesOn, TokensKept DEF StateType
    <2>4. CASE CreateKey(g) \/ DeleteKey(g) \/ DisableKey(g) \/ EnableKey(g) \/ SetRequireAuth(g)
               \/ DeleteProject(g)
        <3>1. Refuse(g) /\ UNCHANGED <<tokens, given>>
            BY <2>4 DEF CreateKey, DeleteKey, DisableKey, EnableKey, ChangeKey, SetRequireAuth,
                        DeleteProject, unchanging
        <3>2. project'.token = project.token
            BY <2>4 DEF CreateKey, DeleteKey, DisableKey, EnableKey, ChangeKey, SetRequireAuth,
                        DeleteProject, unchanging, StateType, NumbersType
        <3> QED
            BY <3>1, <3>2, MovesOn, TokensKept DEF StateType
    <2> QED
        BY <1>2, <2>1, <2>2, <2>3, <2>4 DEF Handle
<1> QED
    BY <1>1, <1>2 DEF Step

-----------------------------------------------------------------------------
\* A deleted key is left as it is.
LEMMA DeletedStays ==
    ASSUME StateType, KeysMade, Step, NEW k \in Key, keys[k].deleted
    PROVE  keys'[k] = keys[k]
<1>1. keys[k].there /\ ~KeyFound(k)
    BY DEF KeysMade, KeyFound
<1>2. ASSUME NEW g \in Handler,
             CreateKey(g) \/ DeleteKey(g) \/ DisableKey(g) \/ EnableKey(g)
      PROVE  keys'[k] = keys[k]
    <2>1. PICK found, new : /\ keys' = [keys EXCEPT ![handler[g].key] = IF found THEN new ELSE @]
                            /\ handler[g].key = k => ~found
        BY <1>1, <1>2 DEF CreateKey, DeleteKey, DisableKey, EnableKey, ChangeKey
    <2> QED
        BY <2>1 DEF StateType, KeysType
<1>3. CASE keys' = keys
    BY <1>3
<1> QED
    BY <1>2, <1>3 DEF Step, Handle, Login, Logout, Tick, ArriveChat, ArriveExport, ArriveAdmin, Arrive,
       Middleware, FindRoute, ValidateKey, ValidateExportToken, HasValidSession, Serve,
       SetRequireAuth, DeleteProject, GenerateExportToken, StoreToken, AnswerToken,
       arriving, unchanging, tables

\* Keys are deleted where they are found.
LEMMA KeysStayMade == ASSUME StateType, KeysMade, Step PROVE KeysMade'
<1> SUFFICES ASSUME NEW k \in Key, keys'[k].deleted PROVE keys'[k].there
    BY DEF KeysMade
<1>1. CASE keys'[k] = keys[k]
    BY <1>1 DEF KeysMade
<1>2. ASSUME NEW g \in Handler, CreateKey(g), keys'[k] # keys[k]
      PROVE  keys'[k].there
    BY <1>2 DEF CreateKey, ChangeKey, NewKey, StateType, KeysType
<1>3. ASSUME NEW g \in Handler, DeleteKey(g) \/ DisableKey(g) \/ EnableKey(g), keys'[k] # keys[k]
      PROVE  keys'[k].there
    <2>1. PICK new : /\ ChangeKey(g, KeyFound(handler[g].key), new)
                     /\ new \in {[keys[handler[g].key] EXCEPT !.deleted = TRUE],
                                 [keys[handler[g].key] EXCEPT !.enabled = FALSE],
                                 [keys[handler[g].key] EXCEPT !.enabled = TRUE]}
        BY <1>3 DEF DeleteKey, DisableKey, EnableKey
    <2>2. handler[g].key = k /\ KeyFound(k) /\ keys'[k] = new
        BY <1>3, <2>1 DEF ChangeKey, StateType, KeysType
    <2>3. keys[k] \in [there : BOOLEAN, enabled : BOOLEAN, deleted : BOOLEAN]
        BY DEF StateType, KeysType
    <2>4. new.there = keys[k].there
        BY <2>1, <2>2, <2>3
    <2> QED
        BY <2>2, <2>4 DEF KeyFound
<1> QED
    BY <1>1, <1>2, <1>3 DEF Step, Handle, Login, Logout, Tick, ArriveChat, ArriveExport, ArriveAdmin,
       Arrive, Middleware, FindRoute, ValidateKey, ValidateExportToken, HasValidSession, Serve,
       SetRequireAuth, DeleteProject, GenerateExportToken, StoreToken, AnswerToken,
       arriving, unchanging, tables

\* A token is stored that nobody was given.
LEMMA StoredIsNew ==
    ASSUME StateType, TokenInv, Step, project' # project, ~project'.deleted
    PROVE  project'.token \notin given
<1>1. PICK g \in Handler : DeleteProject(g) \/ StoreToken(g)
    BY DEF Step, Handle, Login, Logout, Tick, ArriveChat, ArriveExport, ArriveAdmin, Arrive,
       Middleware, FindRoute, ValidateKey, ValidateExportToken, HasValidSession, Serve,
       CreateKey, DeleteKey, DisableKey, EnableKey, ChangeKey,
       SetRequireAuth, GenerateExportToken, AnswerToken, arriving, unchanging, tables
<1>2. ~DeleteProject(g)
    BY DEF DeleteProject, StateType, NumbersType
<1>3. project'.token = handler[g].token /\ handler[g].at = "storing"
    BY <1>1, <1>2 DEF StoreToken, At, StateType, NumbersType
<1> QED
    BY <1>3 DEF TokenInv

\* The clock and the sessions: numbered as they come, none for longer than MaxAge.
ClockInv ==
    /\ logins \in 0 .. MaxLogins
    /\ now \in 0 .. MaxTime
    /\ sessions \subseteq [id : 1 .. logins, expires : 0 .. now + MaxAge]
    /\ \A one, other \in sessions : one.id = other.id => one = other

\* Only Login makes a session, and only Tick moves the clock.
LEMMA ClockStays ==
    ASSUME Step
    PROVE  \/ Login
           \/ Tick
           \/ UNCHANGED <<now, logins>> /\ sessions' \subseteq sessions
BY DEF Step, Handle, Logout, ArriveChat, ArriveExport, ArriveAdmin, Arrive,
       Middleware, FindRoute, ValidateKey, ValidateExportToken, HasValidSession, Serve,
       CreateKey, DeleteKey, DisableKey, EnableKey, ChangeKey, SetRequireAuth, DeleteProject,
       GenerateExportToken, StoreToken, AnswerToken, arriving, unchanging, tables

\* The clock and the sessions keep their types.
LEMMA StepClock == ASSUME ClockInv, Step PROVE ClockInv'
<1>0. {MaxAge, MaxTime, MaxLogins} \subseteq Nat
    BY AccessAssumption
<1>1. CASE Login
    <2> DEFINE new == [id |-> logins + 1, expires |-> now + MaxAge]
    <2>1. logins' = logins + 1 /\ logins < MaxLogins /\ now' = now /\ sessions' = sessions \cup {new}
        BY <1>1 DEF Login
    <2>2. new \in [id : 1 .. logins', expires : 0 .. now' + MaxAge]
        BY <1>0, <2>1 DEF ClockInv
    <2>3. sessions \subseteq [id : 1 .. logins', expires : 0 .. now' + MaxAge]
        BY <1>0, <2>1 DEF ClockInv
    <2>4. \A row \in sessions : row.id # logins + 1
        BY <1>0 DEF ClockInv
    <2>5. new.id = logins + 1
        OBVIOUS
    <2> HIDE DEF new
    <2>6. \A one, other \in sessions' : one.id = other.id => one = other
        BY <2>1, <2>4, <2>5 DEF ClockInv
    <2> QED
        BY <1>0, <2>1, <2>2, <2>3, <2>6 DEF ClockInv
<1>2. CASE Tick
    <2>1. now < MaxTime /\ now' = now + 1 /\ UNCHANGED <<logins, sessions>>
        BY <1>2 DEF Tick, tables
    <2> QED
        BY <1>0, <2>1 DEF ClockInv
<1>3. CASE UNCHANGED <<now, logins>> /\ sessions' \subseteq sessions
    BY <1>3 DEF ClockInv
<1> QED
    BY <1>1, <1>2, <1>3, ClockStays

\* What a step makes usable was never issued before, or is a key that is enabled.
LEMMA NothingRevives ==
    ASSUME HistoryInv, ClockInv, Step, NEW c \in Credential, ~Usable(c), Usable(c)'
    PROVE  \/ c.kind = "key" /\ ~keys[c.id].deleted
           \/ c.kind = "token" /\ c.id \notin given
           \/ c.kind = "session" /\ c.id > logins
<1> USE DEF HistoryInv
<1>1. CASE c.kind = "key"
    <2>1. c.id \in Key
        BY <1>1 DEF Credential, ApiKey, Token, Session
    <2>2. keys'[c.id] = NewKey /\ keys[c.id] # NewKey
        BY <1>1 DEF Usable
    <2> QED
        BY <1>1, <2>1, <2>2, DeletedStays
<1>2. CASE c.kind = "token"
    <2>1. project' = [token |-> c.id, deleted |-> FALSE] /\ project # project'
        BY <1>2 DEF Usable
    <2>2. project'.token = c.id /\ ~project'.deleted
        BY <2>1
    <2> QED
        BY <1>2, <2>1, <2>2, StoredIsNew
<1>3. CASE c.kind = "session"
    <2>1. PICK row \in sessions' : row.id = c.id /\ now' <= row.expires
        BY <1>3 DEF Usable
    <2>2. CASE row \in sessions
        <3>1. now' \in {now, now + 1} /\ row.expires \in Nat /\ now \in Nat
            BY <2>2, ClockStays, AccessAssumption DEF ClockInv, Login, Tick
        <3>2. now <= row.expires
            BY <2>1, <3>1
        <3> QED
            BY <1>3, <2>1, <2>2, <3>2 DEF Usable
    <2>3. CASE row \notin sessions
        <3>1. Login
            BY <2>3, ClockStays DEF Tick, tables
        <3>2. row.id = logins + 1
            BY <2>3, <3>1 DEF Login
        <3>3. logins \in Nat
            BY DEF ClockInv
        <3> QED
            BY <1>3, <2>1, <3>2, <3>3
    <2> QED
        BY <2>2, <2>3
<1> QED
    BY <1>1, <1>2, <1>3 DEF Usable

\* Tokens, keys and sessions keep their histories.
LEMMA StepHistory == ASSUME HistoryInv, ClockInv, [Next]_vars PROVE HistoryInv' /\ ClockInv'
<1>1. CASE Step
    BY <1>1, TypesStay, TokensApart, KeysStayMade, StepClock DEF HistoryInv
<1>2. CASE UNCHANGED vars
    BY <1>2 DEF vars, tables, HistoryInv, StateType, HandlerType, KeysType, NumbersType, TokenInv,
                KeysMade, ClockInv
<1> QED
    BY <1>1, <1>2 DEF Next

\* There is no history at the start.
LEMMA InitHistory == Init => HistoryInv /\ ClockInv
<1> SUFFICES ASSUME Init PROVE HistoryInv /\ ClockInv
    OBVIOUS
<1>1. StateType
    BY InitEntitled DEF EntitledInv
<1>2. TokenInv
    BY DEF Init, TokenInv, Idle, HoldsToken
<1>3. KeysMade
    BY DEF Init, KeysMade, NoKey, NewKey
<1>4. ClockInv
    BY AccessAssumption DEF Init, ClockInv
<1> QED
    BY <1>1, <1>2, <1>3, <1>4 DEF HistoryInv

\* No order of rotations, lookups and changes makes usable again what was replaced,
\* deleted, logged out or expired.
THEOREM WhatIsOverStaysOver == Spec => NothingComesBack
<1> DEFINE Fresh(c) == \/ c.kind = "key" /\ ~keys[c.id].deleted
                       \/ c.kind = "token" /\ c.id \notin given
                       \/ c.kind = "session" /\ c.id > logins
           NewOnly == \A c \in Credential : ~Usable(c) /\ Usable(c)' => Fresh(c)
<1>1. Init => HistoryInv /\ ClockInv
    BY InitHistory
<1>2. HistoryInv /\ ClockInv /\ [Next]_vars => HistoryInv' /\ ClockInv'
    BY StepHistory
<1>3. HistoryInv /\ ClockInv /\ [Next]_vars => [NewOnly]_vars
    <2> SUFFICES ASSUME HistoryInv, ClockInv, Next PROVE NewOnly
        OBVIOUS
    <2> QED
        BY NothingRevives DEF Next
<1> QED
    BY <1>1, <1>2, <1>3, PTL DEF Spec, NothingComesBack

-----------------------------------------------------------------------------
\* The calls that will generate a token.
Rotating ==
    {h \in Handler : handler[h].does = "new token" /\ handler[h].at \in {"arrived", "let in"}}

\* What there is beside HistoryInv and ClockInv to the types, with their bounds: a
\* token takes a change that was asked for.
BoundsInv ==
    /\ mode \in AuthModes /\ protected \in BOOLEAN
    /\ changes \in 0 .. MaxChanges
    /\ tokens + Cardinality(Rotating) <= 1 + changes
    /\ \A h \in Handler : handler[h].shows \subseteq Credential /\ handler[h].token \in 0 .. tokens

AllInv == HistoryInv /\ ClockInv /\ Places /\ BoundsInv

\* Those calls are finitely many.
LEMMA RotatingFinite == IsFiniteSet(Rotating) /\ Cardinality(Rotating) \in Nat
<1>1. IsFiniteSet(Handler) /\ Rotating \subseteq Handler
    BY AccessAssumption DEF Rotating
<1> QED
    BY <1>1, FS_Subset, FS_CardinalityType

\* There are as many tokens as the bound on changes allows.
LEMMA TokensBounded == ASSUME HistoryInv, BoundsInv PROVE tokens \in 0 .. MaxChanges + 1
BY RotatingFinite, AccessAssumption DEF BoundsInv, HistoryInv, StateType, NumbersType

\* A handler is given its call, goes on with it, or is done with it.
LEMMA HandlerSteps ==
    ASSUME StateType, NEW g \in Handler, Handle(g)
    PROVE  \/ GenerateExportToken(g)
           \/ Refuse(g)
           \/ \E at \in Place : GoTo(g, at) /\ (at = "let in" => handler[g].at \in {"arrived", "validating", "cookie"})
           \/ \E does, key, shows : Arrive(g, does, key, shows)
BY DEF Handle, ArriveChat, ArriveExport, ArriveAdmin, Middleware, FindRoute, ValidateKey,
       ValidateExportToken, HasValidSession, Serve, LetInIf, CreateKey, DeleteKey, DisableKey,
       EnableKey, ChangeKey, SetRequireAuth, DeleteProject, StoreToken, AnswerToken, Place, At

\* A call that arrives shows credentials that there are.
LEMMA ArrivalsShow ==
    ASSUME AllInv, NEW g \in Handler, NEW does, NEW key, NEW shows, Arrive(g, does, key, shows),
           ArriveChat(g) \/ ArriveExport(g) \/ ArriveAdmin(g)
    PROVE  handler'[g].shows \subseteq Credential
<1>0. given \subseteq 1 .. MaxChanges + 1
    BY TokensBounded, AccessAssumption DEF AllInv, HistoryInv, TokenInv
<1>1. \A cookie \in Cookies : cookie \subseteq Credential
    BY AccessAssumption DEF AllInv, ClockInv, Cookies, Credential
<1>2. \A n \in given : Token(n) \in Credential
    BY <1>0 DEF Credential
<1>3. \A k \in Key : ApiKey(k) \in Credential
    BY DEF Credential
<1>4. handler \in [Handler -> [at : Place, does : Call, key : Key \cup {"none"},
                              shows : SUBSET AnyCredential, token : Nat]]
    BY DEF AllInv, HistoryInv, StateType, HandlerType
<1>5. ASSUME NEW d, NEW k, NEW s, Arrive(g, d, k, s)
      PROVE  handler'[g].shows = s
    BY <1>4, <1>5 DEF Arrive, Idle
<1>6. CASE ArriveChat(g)
    BY <1>3, <1>5, <1>6 DEF ArriveChat
<1>7. CASE ArriveExport(g)
    <2>1. PICK d \in Exports, bearer \in {{}} \cup {{Token(n)} : n \in given}, cookie \in Cookies :
               Arrive(g, d, "none", bearer \cup cookie)
        BY <1>7 DEF ArriveExport
    <2> QED
        BY <1>1, <1>2, <1>5, <2>1
<1>8. CASE ArriveAdmin(g)
    BY <1>1, <1>5, <1>8 DEF ArriveAdmin
<1> QED
    BY <1>6, <1>7, <1>8

\* So no handler shows or holds anything else.
LEMMA FieldsStay ==
    ASSUME AllInv, NEW g \in Handler, Handle(g), NEW h \in Handler
    PROVE  handler'[h].shows \subseteq Credential /\ handler'[h].token \in 0 .. tokens'
<1> USE DEF AllInv, HistoryInv, StateType, HandlerType
<1>0. tokens \in Nat /\ tokens' \in {tokens, tokens + 1}
    BY DEF NumbersType, Handle, ArriveChat, ArriveExport, ArriveAdmin, Arrive, Middleware, FindRoute,
           ValidateKey, ValidateExportToken, HasValidSession, Serve, CreateKey, DeleteKey, DisableKey,
           EnableKey, ChangeKey, SetRequireAuth, DeleteProject, GenerateExportToken, StoreToken,
           AnswerToken, arriving, unchanging
<1>1. 0 .. tokens \subseteq 0 .. tokens' /\ 0 \in 0 .. tokens'
    BY <1>0
<1>2. handler[h].shows \subseteq Credential /\ handler[h].token \in 0 .. tokens
    BY DEF BoundsInv
<1>3. CASE GenerateExportToken(g)
    <2>1. CASE h = g
        <3>1. handler'[g].token = tokens' /\ handler'[g].shows = handler[g].shows
            BY <1>3 DEF GenerateExportToken
        <3> QED
            BY <1>0, <1>2, <2>1, <3>1
    <2>2. CASE h # g
        BY <1>1, <1>2, <1>3, <2>2 DEF GenerateExportToken
    <2> QED
        BY <2>1, <2>2
<1>4. CASE Refuse(g)
    BY <1>1, <1>2, <1>4 DEF Refuse, Idle
<1>5. ASSUME NEW at, GoTo(g, at)
      PROVE  handler'[h].shows \subseteq Credential /\ handler'[h].token \in 0 .. tokens'
    BY <1>1, <1>2, <1>5 DEF GoTo
<1>6. ASSUME NEW does, NEW key, NEW shows, Arrive(g, does, key, shows)
      PROVE  handler'[h].shows \subseteq Credential /\ handler'[h].token \in 0 .. tokens'
    <2>1. CASE h = g
        <3>1. handler'[g].token = 0 /\ handler[g].at = "idle"
            BY <1>6 DEF Arrive, Idle, At
        <3>2. ArriveChat(g) \/ ArriveExport(g) \/ ArriveAdmin(g)
            BY <3>1 DEF Handle, Middleware, FindRoute, ValidateKey, ValidateExportToken,
                HasValidSession, Serve, CreateKey, DeleteKey, DisableKey, EnableKey, Does, At,
                SetRequireAuth, DeleteProject, GenerateExportToken, StoreToken, AnswerToken
        <3> QED
            BY <1>1, <1>6, <2>1, <3>1, <3>2, ArrivalsShow
    <2>2. CASE h # g
        BY <1>1, <1>2, <1>6, <2>2 DEF Arrive
    <2> QED
        BY <2>1, <2>2
<1> QED
    BY <1>3, <1>4, <1>5, <1>6, HandlerSteps

\* A rotation takes one of the calls for it, and no other step makes one but the
\* arrival of an admin's call.
LEMMA RotationsCount ==
    ASSUME AllInv, NEW g \in Handler, Handle(g)
    PROVE  /\ tokens' + Cardinality(Rotating') <= 1 + changes'
           /\ changes' \in 0 .. MaxChanges
<1> USE DEF AllInv, HistoryInv, StateType
<1>0. tokens \in Nat /\ changes \in Nat /\ MaxChanges \in Nat
    BY AccessAssumption DEF NumbersType, BoundsInv
<1>00. /\ IsFiniteSet(Rotating) /\ Cardinality(Rotating) \in Nat
       /\ IsFiniteSet(Rotating') /\ Cardinality(Rotating') \in Nat
    <2>1. IsFiniteSet(Rotating)' /\ (Cardinality(Rotating) \in Nat)'
        <3>1. IsFiniteSet(Handler) /\ Rotating' \subseteq Handler
            BY AccessAssumption DEF Rotating
        <3> QED
            BY <3>1, FS_Subset, FS_CardinalityType
    <2> QED
        BY <2>1, RotatingFinite
<1>1. CASE GenerateExportToken(g)
    <2>1. tokens' = tokens + 1 /\ changes' = changes /\ g \in Rotating
        BY <1>1 DEF GenerateExportToken, Does, At, Rotating
    <2>2. handler'[g].at = "storing" /\ \A h \in Handler \ {g} : handler'[h] = handler[h]
        BY <1>1 DEF GenerateExportToken, HandlerType
    <2>3. Rotating' = Rotating \ {g}
        BY <2>1, <2>2 DEF Rotating
    <2>4. Cardinality(Rotating') = Cardinality(Rotating) - 1
        BY <1>00, <2>1, <2>3, FS_RemoveElement
    <2> QED
        BY <1>0, <1>00, <2>1, <2>4 DEF BoundsInv
<1>2. CASE ArriveAdmin(g)
    <2>1. changes' = changes + 1 /\ changes < MaxChanges
        BY <1>2 DEF ArriveAdmin
    <2>2. PICK does, key, shows : Arrive(g, does, key, shows)
        BY <1>2 DEF ArriveAdmin
    <2>3. tokens' = tokens /\ g \notin Rotating
        BY <2>2 DEF Arrive, arriving, At, Rotating
    <2>4. \A h \in Handler \ {g} : handler'[h] = handler[h]
        BY <2>2, MovesOn
    <2>5. Rotating' \subseteq Rotating \cup {g}
        BY <2>4 DEF Rotating
    <2>6. Cardinality(Rotating \cup {g}) = Cardinality(Rotating) + 1 /\ IsFiniteSet(Rotating \cup {g})
        BY <1>00, <2>3, FS_AddElement
    <2>7. Cardinality(Rotating') <= Cardinality(Rotating) + 1
        BY <2>5, <2>6, FS_Subset
    <2> QED
        BY <1>0, <1>00, <2>1, <2>3, <2>7 DEF BoundsInv
<1>3. CASE ~GenerateExportToken(g) /\ ~ArriveAdmin(g)
    <2>1. UNCHANGED <<tokens, changes>>
        BY <1>3 DEF Handle, ArriveChat, ArriveExport, Arrive, Middleware, FindRoute,
           ValidateKey, ValidateExportToken, HasValidSession, Serve, CreateKey, DeleteKey, DisableKey,
           EnableKey, ChangeKey, SetRequireAuth, DeleteProject, StoreToken,
           AnswerToken, arriving, unchanging
    <2>2. Rotating' \subseteq Rotating
        <3>1. CASE Refuse(g)
            BY <3>1, Moves, RefusedIsIdle DEF Rotating
        <3>2. ASSUME NEW at \in Place, GoTo(g, at),
                     at = "let in" => handler[g].at \in {"arrived", "validating", "cookie"},
                     at = "arrived" => handler[g].at = "arrived"
              PROVE  Rotating' \subseteq Rotating
            <4>1. handler'[g].at = at /\ handler'[g].does = handler[g].does
                BY <3>2 DEF GoTo, HandlerType
            <4>2. \A h \in Handler \ {g} : handler'[h] = handler[h]
                BY <3>2, Moves
            <4>3. handler[g].at \in {"validating", "cookie"} => handler[g].does # "new token"
                BY DEF Places, PlaceOf
            <4> QED
                BY <3>2, <4>1, <4>2, <4>3 DEF Rotating
        <3>3. CASE ArriveChat(g) \/ ArriveExport(g)
            <4>1. PICK does \in {"chat", "export by GET", "export by POST"} :
                       \E key, shows : Arrive(g, does, key, shows)
                <5>1. CASE ArriveChat(g)
                    BY <5>1 DEF ArriveChat
                <5>2. CASE ArriveExport(g)
                    BY <5>2 DEF ArriveExport, Exports
                <5> QED
                    BY <3>3, <5>1, <5>2
            <4>2. handler'[g].does # "new token"
                BY <4>1 DEF Arrive, Idle, HandlerType
            <4>3. \A h \in Handler \ {g} : handler'[h] = handler[h]
                BY <4>1, MovesOn
            <4> QED
                BY <4>2, <4>3 DEF Rotating
        <3> QED
            BY <1>3, <3>1, <3>2, <3>3
            DEF Handle, Middleware, FindRoute, ValidateKey, ValidateExportToken, HasValidSession, Serve,
                LetInIf, CreateKey, DeleteKey, DisableKey, EnableKey, ChangeKey, SetRequireAuth,
                DeleteProject, StoreToken, AnswerToken, Place, At
    <2>3. Cardinality(Rotating') <= Cardinality(Rotating)
        BY <1>00, <2>2, FS_Subset
    <2> QED
        BY <1>0, <1>00, <2>1, <2>3 DEF BoundsInv
<1> QED
    BY <1>1, <1>2, <1>3

\* Every step keeps the bounds,
LEMMA StepBounds == ASSUME AllInv, Step PROVE BoundsInv'
<1>1. mode' = mode
    BY DEF Step, Handle, Login, Logout, Tick, ArriveChat, ArriveExport, ArriveAdmin, Arrive, Middleware,
           FindRoute, ValidateKey, ValidateExportToken, HasValidSession, Serve, CreateKey, DeleteKey,
           DisableKey, EnableKey, ChangeKey, SetRequireAuth, DeleteProject, GenerateExportToken,
           StoreToken, AnswerToken, arriving, unchanging
<1>2. protected' \in BOOLEAN
    <2>1. protected' = protected \/ \E g \in Handler : SetRequireAuth(g)
        BY DEF Step, Handle, Login, Logout, Tick, ArriveChat, ArriveExport, ArriveAdmin, Arrive,
               Middleware, FindRoute, ValidateKey, ValidateExportToken, HasValidSession, Serve, CreateKey,
               DeleteKey, DisableKey, EnableKey, ChangeKey, DeleteProject, GenerateExportToken,
               StoreToken, AnswerToken, arriving, unchanging, tables
    <2> QED
        BY <2>1 DEF SetRequireAuth, AllInv, BoundsInv
<1>3. CASE \E g \in Handler : Handle(g)
    BY <1>1, <1>2, <1>3, FieldsStay, RotationsCount DEF AllInv, BoundsInv
<1>4. CASE Login \/ Tick \/ \E s \in 1 .. logins : Logout(s)
    <2>1. UNCHANGED <<handler, tokens, changes>>
        BY <1>4 DEF Login, Tick, Logout
    <2>2. Rotating' = Rotating
        BY <2>1 DEF Rotating
    <2> QED
        BY <1>1, <1>2, <2>1, <2>2 DEF AllInv, BoundsInv
<1> QED
    BY <1>3, <1>4 DEF Step

\* ... and so does one that does nothing.
LEMMA StepAll == ASSUME AllInv, [Next]_vars PROVE AllInv'
<1>1. CASE Step
    BY <1>1, StepHistory, StepBounds, PlacesStay DEF AllInv, HistoryInv
<1>2. CASE UNCHANGED vars
    <2>1. Rotating' = Rotating
        BY <1>2 DEF Rotating, vars
    <2>2. Places' /\ BoundsInv'
        BY <1>2, <2>1 DEF AllInv, vars, tables, Places, PlaceOf, BoundsInv
    <2> QED
        BY <2>2, StepHistory DEF AllInv
<1> QED
    BY <1>1, <1>2 DEF Next

\* At most one token is generated for each change that was asked for: all numbers keep
\* their bounds, and no call shows a credential that was never issued.
THEOREM AccessTypeCorrect == Spec => []TypeOK
<1>1. Init => AllInv
    <2> SUFFICES ASSUME Init PROVE AllInv
        OBVIOUS
    <2>1. Places
        BY InitEntitled DEF EntitledInv
    <2>2. Rotating = {} /\ tokens = 1 /\ changes = 0
        BY DEF Init, Rotating, Idle
    <2>3. BoundsInv
        BY <2>2, FS_EmptySet, AccessAssumption DEF Init, BoundsInv, Idle
    <2> QED
        BY <2>1, <2>3, InitHistory DEF AllInv
<1>2. AllInv /\ Remembered => TypeOK
    <2> SUFFICES ASSUME AllInv, Remembered PROVE TypeOK
        OBVIOUS
    <2>1. tokens \in 0 .. MaxChanges + 1 /\ tokens \in Nat /\ MaxChanges \in Nat
        BY TokensBounded, AccessAssumption DEF AllInv, HistoryInv, StateType, NumbersType
    <2>2. handler \in [Handler -> [at : Place, does : Call, key : Key \cup {"none"},
                                  shows : SUBSET Credential, token : 0 .. MaxChanges + 1]]
        <3>1. ASSUME NEW h \in Handler
              PROVE  handler[h] \in [at : Place, does : Call, key : Key \cup {"none"},
                                    shows : SUBSET Credential, token : 0 .. MaxChanges + 1]
            <4>1. handler[h] \in [at : Place, does : Call, key : Key \cup {"none"},
                                 shows : SUBSET AnyCredential, token : Nat]
                BY DEF AllInv, HistoryInv, StateType, HandlerType
            <4>2. handler[h].shows \in SUBSET Credential /\ handler[h].token \in 0 .. MaxChanges + 1
                BY <2>1 DEF AllInv, BoundsInv
            <4> QED
                BY <4>1, <4>2
        <3> QED
            BY <3>1 DEF AllInv, HistoryInv, StateType, HandlerType
    <2>3. project \in [token : 0 .. tokens, deleted : BOOLEAN]
        BY DEF AllInv, HistoryInv, StateType, NumbersType, TokenInv
    <2> QED
        BY <2>1, <2>2, <2>3
        DEF AllInv, HistoryInv, StateType, KeysType, TokenInv, ClockInv, BoundsInv, Remembered, TypeOK
<1>3. Spec => []Remembered
    <2>1. Init => EntitledInv
        BY InitEntitled
    <2>2. EntitledInv /\ [Next]_vars => EntitledInv'
        BY StepEntitled
    <2>3. EntitledInv => Remembered
        BY DEF EntitledInv
    <2> QED
        BY <2>1, <2>2, <2>3, PTL DEF Spec
<1>4. AllInv /\ [Next]_vars => AllInv'
    BY StepAll
<1> QED
    BY <1>1, <1>2, <1>3, <1>4, PTL DEF Spec

=============================================================================
