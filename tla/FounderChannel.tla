--------------------------- MODULE FounderChannel ---------------------------
(***************************************************************************)
(* The way between the Orchestrator and the Founders: the adapters and     *)
(* their registry, the tables founder_identity_bindings and                *)
(* upstream_sessions, and the router that picks the chat in which a        *)
(* Founder is sent what is meant for him.                                  *)
(*                                                                         *)
(* A session id is derived from a chat ("tg-" and the chat's id), so a     *)
(* session is named here by that chat; the chat its row holds is another   *)
(* matter.  Time stamps are only ever compared: each of the two tables     *)
(* keeps which of its rows was stamped after which.                        *)
(***************************************************************************)
CONSTANTS
  Founders,
  Adapters,
  Identities, AdapterOf,  \* upstream users, each of one adapter
  Chats, ChatAdapter,     \* upstream chats, each of one adapter
  Projects,
  Null

ASSUME FounderChannelAssumption ==
  /\ AdapterOf \in [Identities -> Adapters]
  /\ ChatAdapter \in [Chats -> Adapters]
  /\ Null \notin Founders \cup Projects

Binding == [founder : Founders, revoked : BOOLEAN]
Session == [founder : Founders, chat : Chats, paused : BOOLEAN, project : Projects \cup {Null}]

ASSUME NullAssumption == Null \notin Binding \cup Session

VARIABLES
  registered,  \* the adapters in the registry, in memory
  bindings,    \* founder_identity_bindings, by adapter and upstream user
  boundAfter,  \* <<i, j>>: the row of i has the later bound_at
  sessions,    \* upstream_sessions, by session id
  newer,       \* <<s, t>>: the row of s has the later last_message_at
  wrote,       \* the messages let in: <<identity, chat>>
  opened,      \* the sessions some caller opened without a message
  sent         \* what was sent: <<founder, session, chat>>

vars == <<registered, bindings, boundAfter, sessions, newer, wrote, opened, sent>>
identity == <<bindings, boundAfter>>
presence == <<sessions, newer>>
ghosts == <<wrote, opened, sent>>

TypeOK ==
  /\ registered \subseteq Adapters
  /\ bindings \in [Identities -> Binding \cup {Null}]
  /\ boundAfter \subseteq Identities \X Identities
  /\ sessions \in [Chats -> Session \cup {Null}]
  /\ newer \subseteq Chats \X Chats
  /\ wrote \subseteq Identities \X Chats
  /\ opened \subseteq Chats
  /\ sent \subseteq Founders \X Chats \X Chats

Init ==
  /\ registered = {}
  /\ bindings = [i \in Identities |-> Null] /\ boundAfter = {}
  /\ sessions = [s \in Chats |-> Null] /\ newer = {}
  /\ wrote = {} /\ opened = {} /\ sent = {}

\* The order after the row of x got the time stamp now.
Stamped(order, x, S) == {p \in order : p[1] # x /\ p[2] # x} \cup {<<x, y>> : y \in S \ {x}}

-----------------------------------------------------------------------------
(* AdapterRegistry *)

\* register: an id that is taken raises.
Register(a) ==
  /\ a \notin registered
  /\ registered' = registered \cup {a}
  /\ UNCHANGED <<identity, presence, ghosts>>

-----------------------------------------------------------------------------
(* founder_identity.py *)

\* bind_founder_identity: INSERT OR IGNORE; a revoked row counts too.
Bind(i, f) ==
  /\ bindings[i] = Null
  /\ bindings' = [bindings EXCEPT ![i] = [founder |-> f, revoked |-> FALSE]]
  /\ boundAfter' = Stamped(boundAfter, i, {j \in Identities : bindings[j] # Null})
  /\ UNCHANGED <<registered, presence, ghosts>>

Active(i) == bindings[i] # Null /\ ~bindings[i].revoked

\* revoke_founder_binding
Revoke(i) ==
  /\ Active(i)
  /\ bindings' = [bindings EXCEPT ![i].revoked = TRUE]
  /\ UNCHANGED <<registered, boundAfter, presence, ghosts>>

\* lookup_founder_by_upstream_identity
FounderOf(i) == IF Active(i) THEN bindings[i].founder ELSE Null

-----------------------------------------------------------------------------
(* upstream_sessions.py *)

Exists(s) == sessions[s] # Null

Touched(s) == newer' = Stamped(newer, s, {t \in Chats : Exists(t)})

\* get_or_create_session: a row that is there keeps its Founder and gets the chat.
Open(s, f, c) ==
  /\ sessions' = [sessions EXCEPT ![s] =
       IF Exists(s) THEN [@ EXCEPT !.chat = c]
       ELSE [founder |-> f, chat |-> c, paused |-> FALSE, project |-> Null]]
  /\ Touched(s)

\* TelegramAdapter.get_or_create_session: the caller names session, Founder and chat.
GetOrCreate(s, f, c) ==
  /\ ChatAdapter[s] = ChatAdapter[c]
  /\ Open(s, f, c)
  /\ opened' = opened \cup {s}
  /\ UNCHANGED <<registered, identity, wrote, sent>>

\* update_session_last_message
Touch(s) ==
  /\ Exists(s)
  /\ Touched(s)
  /\ UNCHANGED <<registered, identity, sessions, ghosts>>

\* set_session_paused
SetPaused(s, paused) ==
  /\ Exists(s)
  /\ sessions' = [sessions EXCEPT ![s].paused = paused]
  /\ UNCHANGED <<registered, identity, newer, ghosts>>

\* set_session_current_project
SetProject(s, p) ==
  /\ Exists(s)
  /\ sessions' = [sessions EXCEPT ![s].project = p]
  /\ UNCHANGED <<registered, identity, newer, ghosts>>

-----------------------------------------------------------------------------
(* inbound_message: what an identity without an active binding writes is   *)
(* dropped                                                                 *)

Inbound(i, c) ==
  /\ AdapterOf[i] = ChatAdapter[c]
  /\ FounderOf(i) # Null
  /\ Open(c, FounderOf(i), c)
  /\ wrote' = wrote \cup {<<i, c>>}
  /\ UNCHANGED <<registered, identity, opened, sent>>

-----------------------------------------------------------------------------
(* Router.send_outbound_to_founder *)

\* ORDER BY the stamp DESC LIMIT 1, where "order" holds the later stamps.
Newest(x, S, order) == x \in S /\ \A y \in S \ {x} : <<x, y>> \in order

\* _resolve_adapter_id; with no active binding it raises.
ResolvesTo(f, a) == \E i \in Identities :
  /\ Newest(i, {j \in Identities : FounderOf(j) = f}, boundAfter)
  /\ AdapterOf[i] = a

SessionsOf(f, a) ==
  {s \in Chats : Exists(s) /\ sessions[s].founder = f /\ ChatAdapter[s] = a}

\* Mutant: list_sessions without its founder_id.
SessionsOnAdapter(f, a) == {s \in Chats : Exists(s) /\ ChatAdapter[s] = a}

\* list_sessions
Listed(f, a) == SessionsOf(f, a)

Unpaused(S) == {s \in S : ~sessions[s].paused}

\* _resolve_session_id: a paused one when there is no other; with none it raises.
Chosen(f, a, s) ==
  LET S == Listed(f, a)
  IN Newest(s, IF Unpaused(S) # {} THEN Unpaused(S) ELSE S, newer)

\* outbound_message and outbound_approval_prompt send to the chat the row of the session holds.
Delivered(f, s) == sent' = sent \cup {<<f, s, sessions[s].chat>>}

SendOutbound(f) == \E a \in registered, s \in Chats :
  /\ ResolvesTo(f, a)
  /\ Chosen(f, a, s)
  /\ Delivered(f, s)
  /\ UNCHANGED <<registered, identity, presence, wrote, opened>>

-----------------------------------------------------------------------------

\* The process starts again: the registry is empty.
Restart ==
  /\ registered' = {}
  /\ UNCHANGED <<identity, presence, ghosts>>

Next ==
  \/ \E a \in Adapters : Register(a)
  \/ \E i \in Identities, f \in Founders : Bind(i, f)
  \/ \E i \in Identities : Revoke(i)
  \/ \E s, c \in Chats, f \in Founders : GetOrCreate(s, f, c)
  \/ \E s \in Chats : Touch(s)
  \/ \E s \in Chats, paused \in BOOLEAN : SetPaused(s, paused)
  \/ \E s \in Chats, p \in Projects \cup {Null} : SetProject(s, p)
  \/ \E i \in Identities, c \in Chats : Inbound(i, c)
  \/ \E f \in Founders : SendOutbound(f)
  \/ Restart

Spec == Init /\ [][Next]_vars

-----------------------------------------------------------------------------
(* Properties *)

\* What is meant for a Founder goes to a chat in which somebody bound to him has written on the
\* adapter of that chat, whatever else was bound, revoked, paused, restarted and written by
\* others in that chat or before; the exception is a session that a caller opened without a
\* message, whose row holds the chat of its last opening (send_outbound_to_founder).
OutboundReachesWriters ==
  \A m \in sent : m[2] \in opened \/ \E i \in Identities :
    /\ <<i, m[3]>> \in wrote
    /\ AdapterOf[i] = ChatAdapter[m[3]]
    /\ bindings[i].founder = m[1]

=============================================================================
