------------------------- MODULE WebSessionProperties -------------------------
(* What the session of the web client must guarantee. *)
EXTENDS WebSession

Tokens == {None} \cup Nat

\* The state of every part has the shape the TypeScript types give it.
TypeOK ==
  /\ stored \in Tokens
  /\ doc \in [Tabs -> [held : Tokens, path : Paths, error : BOOLEAN]]
  /\ req \in [Tabs -> [Kinds ->
       [pc : {"idle", "refresh", "sent", "served", "error"}, tok : Tokens,
        page : Paths, seen : BOOLEAN, behind : BOOLEAN]]]
  /\ socket \in [Tabs -> [pc : {"waiting", "connecting", "greeting", "live"},
                          tok : Tokens, behind : BOOLEAN]]
  /\ clock \in Nat
  /\ hasUsers \in BOOLEAN
  /\ used \in [visits : Nat, submits : Nat, faults : Nat, backups : Nat]
  /\ cause \in [Tabs -> BOOLEAN]
  /\ signedOut \in BOOLEAN

-----------------------------------------------------------------------------
\* After a logout no token comes back into localStorage before somebody logs in,
\* whatever requests of whatever tab are still under way, as long as none of
\* them is a refresh (AppHeader.tsx, setToken(null); api.ts, maybeRefresh).
SignedOutStays == signedOut => stored = None

\* No tab goes around in circles: it is forced to /login only after the user did
\* something in it, or a new token was stored, since it last was; a 401 or a
\* 4001 clears what would be refused again (api.ts, request; ws.ts, onclose).
NoReloadLoop ==
  [][\A t \in Tabs : DataUnauthorized(t) \/ LoginWrong(t) \/ SocketRejected(t)
                       => cause[t]]_vars

\* A valid token is thrown away only by the user, by a form with a wrong
\* password, or by the refusal of a request that went out before that token was
\* stored: whatever goes out later carries it and is accepted (api.ts, token()
\* after maybeRefresh; ws.ts, onopen).
ValidTokenKept ==
  [][Valid(stored) /\ stored' = None =>
       \E t \in Tabs : \/ Logout(t) \/ LoginWrong(t)
                       \/ DataUnauthorized(t) /\ req[t]["data"].behind
                       \/ SocketRejected(t) /\ socket[t].behind]_vars

\* A tab whose socket found no token connects by itself once somebody has
\* logged in, in that tab or another (ws.ts, the 2-second timer).
SocketFollowsLogin ==
  \A t \in Tabs : (stored # None) ~> (socket[t].pc = "live" \/ stored = None)
=============================================================================
