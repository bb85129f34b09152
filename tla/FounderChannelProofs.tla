------------------------ MODULE FounderChannelProofs ------------------------
(***************************************************************************)
(* Proofs about FounderChannel for any Founders, adapters, identities and  *)
(* chats.                                                                  *)
(***************************************************************************)
EXTENDS FounderChannel, TLAPS

-----------------------------------------------------------------------------
(* The types *)

LEMMA TypeInit == Init => TypeOK
BY DEF Init, TypeOK

LEMMA StampedType ==
  ASSUME NEW S, NEW order, order \subseteq S \X S, NEW x \in S, NEW T, T \subseteq S
  PROVE  Stamped(order, x, T) \subseteq S \X S
BY DEF Stamped

LEMMA OpenType ==
  ASSUME TypeOK, NEW s \in Chats, NEW f \in Founders, NEW c \in Chats, Open(s, f, c)
  PROVE  /\ sessions' \in [Chats -> Session \cup {Null}]
         /\ newer' \subseteq Chats \X Chats
<1>1. [founder |-> f, chat |-> c, paused |-> FALSE, project |-> Null] \in Session
  BY DEF Session
<1>2. Exists(s) => [sessions[s] EXCEPT !.chat = c] \in Session
  BY DEF Exists, Session, TypeOK
<1>3. newer' \subseteq Chats \X Chats
  <2>1. {t \in Chats : Exists(t)} \subseteq Chats
    OBVIOUS
  <2>. QED  BY <2>1, StampedType DEF Open, Touched, TypeOK
<1>. QED  BY <1>1, <1>2, <1>3 DEF Open, TypeOK

LEMMA TypeStep == TypeOK /\ [Next]_vars => TypeOK'
<1>. SUFFICES ASSUME TypeOK, [Next]_vars PROVE TypeOK'
  OBVIOUS
<1>1. ASSUME NEW a \in Adapters, Register(a) PROVE TypeOK'
  BY <1>1 DEF Register, identity, presence, ghosts, TypeOK
<1>2. ASSUME NEW i \in Identities, NEW f \in Founders, Bind(i, f) PROVE TypeOK'
  <2>1. [founder |-> f, revoked |-> FALSE] \in Binding
    BY DEF Binding
  <2>2. {j \in Identities : bindings[j] # Null} \subseteq Identities
    OBVIOUS
  <2>3. boundAfter' \subseteq Identities \X Identities
    BY <1>2, <2>2, StampedType DEF Bind, TypeOK
  <2>. QED  BY <1>2, <2>1, <2>3 DEF Bind, presence, ghosts, TypeOK
<1>3. ASSUME NEW i \in Identities, Revoke(i) PROVE TypeOK'
  <2>1. [bindings[i] EXCEPT !.revoked = TRUE] \in Binding
    BY <1>3 DEF Revoke, Active, Binding, TypeOK
  <2>. QED  BY <1>3, <2>1 DEF Revoke, presence, ghosts, TypeOK
<1>4. ASSUME NEW s \in Chats, NEW c \in Chats, NEW f \in Founders, GetOrCreate(s, f, c)
      PROVE  TypeOK'
  BY <1>4, OpenType DEF GetOrCreate, identity, TypeOK
<1>5. ASSUME NEW s \in Chats, Touch(s) PROVE TypeOK'
  <2>1. {t \in Chats : Exists(t)} \subseteq Chats
    OBVIOUS
  <2>2. newer' \subseteq Chats \X Chats
    BY <1>5, <2>1, StampedType DEF Touch, Touched, TypeOK
  <2>. QED  BY <1>5, <2>2 DEF Touch, identity, ghosts, TypeOK
<1>6. ASSUME NEW s \in Chats, NEW paused \in BOOLEAN, SetPaused(s, paused) PROVE TypeOK'
  <2>1. [sessions[s] EXCEPT !.paused = paused] \in Session
    BY <1>6 DEF SetPaused, Exists, Session, TypeOK
  <2>. QED  BY <1>6, <2>1 DEF SetPaused, identity, ghosts, TypeOK
<1>7. ASSUME NEW s \in Chats, NEW p \in Projects \cup {Null}, SetProject(s, p) PROVE TypeOK'
  <2>1. [sessions[s] EXCEPT !.project = p] \in Session
    BY <1>7 DEF SetProject, Exists, Session, TypeOK
  <2>. QED  BY <1>7, <2>1 DEF SetProject, identity, ghosts, TypeOK
<1>8. ASSUME NEW i \in Identities, NEW c \in Chats, Inbound(i, c) PROVE TypeOK'
  <2>1. FounderOf(i) \in Founders
    BY <1>8 DEF Inbound, FounderOf, Active, Binding, TypeOK
  <2>2. /\ sessions' \in [Chats -> Session \cup {Null}]
        /\ newer' \subseteq Chats \X Chats
    BY <1>8, <2>1, OpenType DEF Inbound
  <2>. QED  BY <1>8, <2>2 DEF Inbound, identity, TypeOK
<1>9. ASSUME NEW f \in Founders, SendOutbound(f) PROVE TypeOK'
  <2>1. PICK a \in registered, s \in Chats : Chosen(f, a, s) /\ Delivered(f, s)
    BY <1>9 DEF SendOutbound
  <2>2. Exists(s)
    BY <2>1 DEF Chosen, Newest, Unpaused, Listed, SessionsOf
  <2>3. sessions[s].chat \in Chats
    BY <2>2 DEF Exists, Session, TypeOK
  <2>. QED  BY <1>9, <2>1, <2>3 DEF SendOutbound, Delivered, identity, presence, TypeOK
<1>10. CASE Restart
  BY <1>10 DEF Restart, identity, presence, ghosts, TypeOK
<1>11. CASE UNCHANGED vars
  BY <1>11 DEF vars, TypeOK
<1>. QED
  BY <1>1, <1>2, <1>3, <1>4, <1>5, <1>6, <1>7, <1>8, <1>9, <1>10, <1>11 DEF Next

\* Both tables and the registry keep their types.
THEOREM TypeCorrect == Spec => []TypeOK
BY TypeInit, TypeStep, PTL DEF Spec

-----------------------------------------------------------------------------
(* Bindings *)

\* A binding keeps its Founder: a later bind is ignored, a revocation leaves the row.
LEMMA BindingsKept ==
  ASSUME TypeOK, [Next]_vars, NEW i \in Identities, bindings[i] # Null
  PROVE  bindings'[i] # Null /\ bindings'[i].founder = bindings[i].founder
<1>1. ASSUME NEW j \in Identities, NEW f \in Founders, Bind(j, f)
      PROVE  bindings'[i] = bindings[i]
  BY <1>1 DEF Bind, TypeOK
<1>2. ASSUME NEW j \in Identities, Revoke(j), j = i
      PROVE  bindings'[i] = [bindings[i] EXCEPT !.revoked = TRUE]
  BY <1>2 DEF Revoke, TypeOK
<1>3. [bindings[i] EXCEPT !.revoked = TRUE] \in Binding
  BY DEF Binding, TypeOK
<1>4. ASSUME NEW j \in Identities, Revoke(j), j # i
      PROVE  bindings'[i] = bindings[i]
  BY <1>4 DEF Revoke, TypeOK
<1>5. CASE UNCHANGED bindings
  BY <1>5
<1>6. bindings[i] \in Binding
  BY DEF TypeOK
<1>7. CASE \E j \in Identities : Revoke(j)
  BY <1>2, <1>3, <1>4, <1>6, <1>7, NullAssumption DEF Binding, NullAssumption
<1>8. CASE \E j \in Identities, f \in Founders : Bind(j, f)
  BY <1>1, <1>8
<1>. QED
  BY <1>5, <1>7, <1>8
  DEF Next, vars, Register, GetOrCreate, Touch, SetPaused, SetProject, Inbound, SendOutbound,
      Restart, identity

-----------------------------------------------------------------------------
(* What is sent *)

\* An identity of the Founder's has written in the chat.
WritesFor(i, f, c) ==
  /\ <<i, c>> \in wrote
  /\ AdapterOf[i] = ChatAdapter[c]
  /\ bindings[i] # Null /\ bindings[i].founder = f

\* The row of a session that only messages opened holds its own chat, and is a writer's.
SessionsAreWriters ==
  \A s \in Chats : Exists(s) /\ s \notin opened =>
    /\ sessions[s].chat = s
    /\ \E i \in Identities : WritesFor(i, sessions[s].founder, s)

SentToWriters ==
  \A m \in sent : m[2] \in opened \/ \E i \in Identities : WritesFor(i, m[1], m[3])

LEMMA GhostsGrow ==
  ASSUME [Next]_vars
  PROVE  wrote \subseteq wrote' /\ opened \subseteq opened'
BY DEF Next, vars, Register, Bind, Revoke, GetOrCreate, Touch, SetPaused, SetProject, Inbound,
   SendOutbound, Restart, ghosts

LEMMA WritesKept ==
  ASSUME TypeOK, [Next]_vars, NEW i \in Identities, NEW f, NEW c, WritesFor(i, f, c)
  PROVE  /\ <<i, c>> \in wrote' /\ AdapterOf[i] = ChatAdapter[c]
         /\ bindings'[i] # Null /\ bindings'[i].founder = f
BY GhostsGrow, BindingsKept DEF WritesFor

\* A row changes its Founder and its chat only when the session is opened.
LEMMA SessionsKept ==
  ASSUME TypeOK, [Next]_vars, NEW s \in Chats, Exists(s)'
  PROVE  \/ /\ Exists(s)
            /\ sessions'[s].founder = sessions[s].founder /\ sessions'[s].chat = sessions[s].chat
         \/ s \in opened'
         \/ \E i \in Identities :
              /\ Inbound(i, s)
              /\ sessions'[s].chat = s
              /\ sessions'[s].founder = IF Exists(s) THEN sessions[s].founder ELSE FounderOf(i)
<1>1. ASSUME NEW t \in Chats, NEW paused \in BOOLEAN, SetPaused(t, paused)
      PROVE  /\ Exists(s)
             /\ sessions'[s].founder = sessions[s].founder /\ sessions'[s].chat = sessions[s].chat
  BY <1>1 DEF SetPaused, Exists, Session, TypeOK
<1>2. ASSUME NEW t \in Chats, NEW p \in Projects \cup {Null}, SetProject(t, p)
      PROVE  /\ Exists(s)
             /\ sessions'[s].founder = sessions[s].founder /\ sessions'[s].chat = sessions[s].chat
  BY <1>2 DEF SetProject, Exists, Session, TypeOK
<1>3. ASSUME NEW t \in Chats, NEW f \in Founders, NEW c \in Chats, Open(t, f, c), t # s
      PROVE  sessions'[s] = sessions[s]
  BY <1>3 DEF Open, TypeOK
<1>4. ASSUME NEW f \in Founders, NEW c \in Chats, Open(s, f, c)
      PROVE  /\ sessions'[s].chat = c
             /\ sessions'[s].founder = IF Exists(s) THEN sessions[s].founder ELSE f
  <2>1. sessions'[s] = IF Exists(s) THEN [sessions[s] EXCEPT !.chat = c]
                       ELSE [founder |-> f, chat |-> c, paused |-> FALSE, project |-> Null]
    BY <1>4 DEF Open, TypeOK
  <2>. QED  BY <2>1 DEF Exists, Session, TypeOK
<1>5. ASSUME NEW t \in Chats, NEW c \in Chats, NEW f \in Founders, GetOrCreate(t, f, c)
      PROVE  s \in opened' \/ (Exists(s) /\ sessions'[s] = sessions[s])
  <2>1. CASE t = s
    BY <1>5, <2>1 DEF GetOrCreate
  <2>2. CASE t # s
    BY <1>3, <1>5, <2>2 DEF GetOrCreate, Exists
  <2>. QED  BY <2>1, <2>2
<1>6. ASSUME NEW i \in Identities, NEW c \in Chats, Inbound(i, c)
      PROVE  \/ Exists(s) /\ sessions'[s] = sessions[s]
             \/ /\ Inbound(i, s)
                /\ sessions'[s].chat = s
                /\ sessions'[s].founder = IF Exists(s) THEN sessions[s].founder ELSE FounderOf(i)
  <2>1. FounderOf(i) \in Founders
    BY <1>6 DEF Inbound, FounderOf, Active, Binding, TypeOK
  <2>2. CASE c = s
    BY <1>4, <1>6, <2>1, <2>2 DEF Inbound
  <2>3. CASE c # s
    BY <1>3, <1>6, <2>1, <2>3 DEF Inbound, Exists
  <2>. QED  BY <2>2, <2>3
<1>7. CASE UNCHANGED sessions
  BY <1>7 DEF Exists
<1>. QED
  BY <1>1, <1>2, <1>5, <1>6, <1>7
  DEF Next, vars, Register, Bind, Revoke, Touch, SendOutbound, Restart, presence

LEMMA SessionsStep ==
  ASSUME TypeOK, SessionsAreWriters, [Next]_vars
  PROVE  SessionsAreWriters'
<1>. SUFFICES ASSUME NEW s \in Chats, Exists(s)', s \notin opened'
             PROVE  /\ sessions'[s].chat = s
                    /\ \E i \in Identities : WritesFor(i, sessions[s].founder, s)'
  BY DEF SessionsAreWriters
<1>1. s \notin opened
  BY GhostsGrow
<1>2. ASSUME Exists(s), sessions'[s].founder = sessions[s].founder
      PROVE  \E i \in Identities : WritesFor(i, sessions[s].founder, s)'
  <2>1. PICK i \in Identities : WritesFor(i, sessions[s].founder, s)
    BY <1>1, <1>2 DEF SessionsAreWriters
  <2>. QED  BY <1>2, <2>1, WritesKept DEF WritesFor
<1>3. CASE /\ Exists(s)
           /\ sessions'[s].founder = sessions[s].founder /\ sessions'[s].chat = sessions[s].chat
  BY <1>1, <1>2, <1>3 DEF SessionsAreWriters
<1>4. ASSUME NEW i \in Identities, Inbound(i, s), sessions'[s].chat = s,
             sessions'[s].founder = IF Exists(s) THEN sessions[s].founder ELSE FounderOf(i)
      PROVE  /\ sessions'[s].chat = s
             /\ \E j \in Identities : WritesFor(j, sessions[s].founder, s)'
  <2>1. CASE Exists(s)
    BY <1>2, <1>4, <2>1
  <2>2. CASE ~Exists(s)
    BY <1>4, <2>2 DEF Inbound, FounderOf, Active, WritesFor, identity
  <2>. QED  BY <2>1, <2>2, <1>4
<1>. QED  BY <1>3, <1>4, SessionsKept

LEMMA SentStep ==
  ASSUME TypeOK, SessionsAreWriters, SentToWriters, [Next]_vars
  PROVE  SentToWriters'
<1>. SUFFICES ASSUME NEW m \in sent', m[2] \notin opened'
             PROVE  \E i \in Identities : WritesFor(i, m[1], m[3])'
  BY DEF SentToWriters
<1>1. m[2] \notin opened
  BY GhostsGrow
<1>2. CASE m \in sent
  <2>1. PICK i \in Identities : WritesFor(i, m[1], m[3])
    BY <1>1, <1>2 DEF SentToWriters
  <2>. QED  BY <2>1, WritesKept DEF WritesFor
<1>3. CASE m \notin sent
  <2>1. PICK f \in Founders : SendOutbound(f)
    BY <1>3 DEF Next, vars, Register, Bind, Revoke, GetOrCreate, Touch, SetPaused, SetProject,
       Inbound, Restart, ghosts
  <2>2. PICK a \in registered, s \in Chats : Chosen(f, a, s) /\ Delivered(f, s)
    BY <2>1 DEF SendOutbound
  <2>3. Exists(s) /\ sessions[s].founder = f
    BY <2>2 DEF Chosen, Newest, Unpaused, Listed, SessionsOf
  <2>4. m[1] = f /\ m[2] = s /\ m[3] = sessions[s].chat
    BY <1>3, <2>2 DEF Delivered
  <2>5. PICK i \in Identities : WritesFor(i, f, m[3])
    BY <1>1, <2>3, <2>4 DEF SessionsAreWriters
  <2>. QED  BY <2>4, <2>5, WritesKept DEF WritesFor
<1>. QED  BY <1>2, <1>3

\* Whatever is sent through a session that only messages opened reaches a chat of its Founder.
THEOREM OutboundFindsItsFounder == Spec => []OutboundReachesWriters
<1>1. Init => SessionsAreWriters /\ SentToWriters
  BY DEF Init, SessionsAreWriters, SentToWriters, Exists
<1>2. SentToWriters => OutboundReachesWriters
  BY DEF SentToWriters, OutboundReachesWriters, WritesFor
<1>. QED  BY <1>1, <1>2, TypeCorrect, SessionsStep, SentStep, PTL DEF Spec
=============================================================================
