---------------------------- MODULE InvitesProofs ----------------------------
(***************************************************************************)
(* Theorems about Invites, for all sets of peers, projects and invites and *)
(* for every choice of the events in Env.                                  *)
(***************************************************************************)
EXTENDS Invites, TLAPS

USE InvitesAssumption

-----------------------------------------------------------------------------
(***************************************************************************)
(* Sequences: what Append and Tail do to what holds of every element.      *)
(***************************************************************************)
LEMMA AppendElements ==
  ASSUME NEW S, NEW s \in Seq(S), NEW e \in S
  PROVE  /\ Append(s, e) \in Seq(S)
         /\ Len(Append(s, e)) = Len(s) + 1
         /\ \A k \in 1 .. Len(s) : Append(s, e)[k] = s[k]
         /\ Append(s, e)[Len(s) + 1] = e
OBVIOUS

LEMMA TailElements ==
  ASSUME NEW S, NEW s \in Seq(S), s # <<>>
  PROVE  /\ Tail(s) \in Seq(S)
         /\ Len(s) \in Nat \ {0}
         /\ Len(Tail(s)) = Len(s) - 1
         /\ \A k \in 1 .. Len(s) - 1 : Tail(s)[k] = s[k + 1]
         /\ Head(s) = s[1]
         /\ Head(s) \in S
OBVIOUS

-----------------------------------------------------------------------------
(***************************************************************************)
(* Types.                                                                  *)
(***************************************************************************)
LEMMA ReceivedType ==
  ASSUME TypeOK, NEW q \in Peers, NEW type, Received(q, type)
  PROVE  /\ Head(toInvited[q]) \in Message
         /\ Head(toInvited[q]).id \in Invites
         /\ toInvited' \in [Peers -> Seq(Message)]
<1>1. toInvited[q] \in Seq(Message) /\ toInvited[q] # <<>>
  BY DEF TypeOK, Received
<1>2. Head(toInvited[q]) \in Message /\ Tail(toInvited[q]) \in Seq(Message)
  BY <1>1, TailElements
<1> QED
  BY <1>2 DEF TypeOK, Received, Message

LEMMA SendType ==
  ASSUME TypeOK, NEW q \in Peers, NEW m \in Message, Send(q, m)
  PROVE  toInvited' \in [Peers -> Seq(Message)]
BY AppendElements DEF TypeOK, Send

LEMMA RespondType ==
  ASSUME TypeOK, NEW S, NEW d \in Decisions, Respond(S, d)
  PROVE  responses' \in [Invites -> Seq(Decisions)]
BY AppendElements DEF TypeOK, Respond

LEMMA CloseType ==
  ASSUME TypeOK, NEW Q, CloseConnections(Q)
  PROVE  /\ conn' \in [Peers -> BOOLEAN]
         /\ toInvited' \in [Peers -> Seq(Message)]
         /\ responses' \in [Invites -> Seq(Decisions)]
<1>1. <<>> \in Seq(Message) /\ <<>> \in Seq(Decisions)
  OBVIOUS
<1> QED
  BY <1>1 DEF TypeOK, CloseConnections

LEMMA EndCallType ==
  ASSUME TypeOK, NEW i \in Invites, NEW r \in Calls, EndCall(i, r)
  PROVE  /\ call' \in [Invites -> Calls]
         /\ outbound' \in [Slots -> Invites \cup {None}]
BY DEF TypeOK, EndCall, ClearOutbound, Slots, Slot

LEMMA RemoveType ==
  ASSUME TypeOK, NEW i \in Invites, NEW r \in Reasons,
         RemovePendingInvite(i, r)
  PROVE  /\ pending' \in [Invites -> {"none", "pending", "accepting"}]
         /\ events' \in [Invites -> Seq({"invite-received"} \cup Reasons)]
BY AppendElements DEF TypeOK, RemovePendingInvite, Emit

LEMMA DeleteType ==
  ASSUME TypeOK, NEW p \in Projects, DeleteByProject(p)
  PROVE  pending' \in [Invites -> {"none", "pending", "accepting"}]
BY DEF TypeOK, DeleteByProject

THEOREM TypeCorrect == Spec => []TypeOK
<1>1. Init => TypeOK
  BY DEF Init, TypeOK, Calls, Answers, Slots
<1>2. TypeOK /\ [Next]_vars => TypeOK'
  <2> SUFFICES ASSUME TypeOK, [Next]_vars
               PROVE  TypeOK'
    OBVIOUS
  <2>1. ASSUME NEW i \in Invites, SendInvite(i) PROVE TypeOK'
    <3>1. Msg("invite", i) \in Message
      BY DEF Msg, Message
    <3>2. toInvited' \in [Peers -> Seq(Message)]
      BY <2>1, <3>1, SendType DEF SendInvite
    <3>3. call' \in [Invites -> Calls] /\ outbound' \in [Slots -> Invites \cup {None}]
      BY <2>1, EndCallType DEF SendInvite, TypeOK, Calls, CallsRunning
    <3> QED
      BY <2>1, <3>2, <3>3 DEF SendInvite, TypeOK, invited
  <2>2. ASSUME NEW i \in Invites, ThrowIfAborted(i) PROVE TypeOK'
    <3>1. call' \in [Invites -> Calls] /\ outbound' \in [Slots -> Invites \cup {None}]
      BY <2>2, EndCallType DEF ThrowIfAborted, Calls
    <3> QED
      BY <2>2, <3>1 DEF ThrowIfAborted, TypeOK, invited, network
  <2>3. ASSUME NEW i \in Invites, HandleInviteResponse(i) PROVE TypeOK'
    <3>1. responses[i] \in Seq(Decisions) /\ responses[i] # <<>>
      BY <2>3 DEF HandleInviteResponse, TypeOK
    <3>2. Head(responses[i]) \in Decisions /\ Tail(responses[i]) \in Seq(Decisions)
      BY <3>1, TailElements
    <3>3. call' \in [Invites -> Calls] /\ outbound' \in [Slots -> Invites \cup {None}]
      BY <2>3, <3>2, EndCallType
      DEF HandleInviteResponse, TypeOK, Calls, CallsRunning, Decisions
    <3> QED
      BY <2>3, <3>2, <3>3 DEF HandleInviteResponse, TypeOK, invited
  <2>4. ASSUME NEW i \in Invites, AssignRole(i) PROVE TypeOK'
    BY <2>4 DEF AssignRole, TypeOK, Calls, CallsRunning, invited, network
  <2>5. ASSUME NEW i \in Invites, SendProjectJoinDetails(i) PROVE TypeOK'
    <3>1. Msg("details", i) \in Message
      BY DEF Msg, Message
    <3>2. toInvited' \in [Peers -> Seq(Message)]
      BY <2>5, <3>1, SendType DEF SendProjectJoinDetails
    <3>3. call' \in [Invites -> Calls] /\ outbound' \in [Slots -> Invites \cup {None}]
      BY <2>5, EndCallType DEF SendProjectJoinDetails, Calls
    <3> QED
      BY <2>5, <3>2, <3>3 DEF SendProjectJoinDetails, TypeOK, invited
  <2>6. ASSUME NEW i \in Invites, SendAccept(i) PROVE TypeOK'
    <3>1. responses' \in [Invites -> Seq(Decisions)]
      BY <2>6, RespondType DEF SendAccept, Decisions
    <3>2. /\ pending' \in [Invites -> {"none", "pending", "accepting"}]
          /\ events' \in [Invites -> Seq({"invite-received"} \cup Reasons)]
      BY <2>6, RemoveType DEF SendAccept, TypeOK, Reasons
    <3> QED
      BY <2>6, <3>1, <3>2
      DEF SendAccept, TypeOK, Answers, InFlight, invitor
  <2>7. ASSUME NEW i \in Invites, Joined(i) PROVE TypeOK'
    <3>1. responses' \in [Invites -> Seq(Decisions)]
      BY <2>7, RespondType DEF Joined, Decisions
    <3>2. pending' \in [Invites -> {"none", "pending", "accepting"}]
      BY <2>7, DeleteType DEF Joined
    <3>3. events' \in [Invites -> Seq({"invite-received"} \cup Reasons)]
      BY <2>7, AppendElements DEF Joined, TypeOK, Reasons
    <3>4. active' \in SUBSET Projects
      BY <2>7 DEF Joined, TypeOK
    <3>5. answer' \in [Invites -> Answers]
      BY <2>7 DEF Joined, TypeOK, Answers
    <3> QED
      BY <2>7, <3>1, <3>2, <3>3, <3>4, <3>5 DEF Joined, TypeOK, invitor
  <2>8. ASSUME NEW i \in Invites, Invite(i) PROVE TypeOK'
    BY <2>8 DEF Invite, TypeOK, Slots, Slot, Calls, CallsRunning, invited,
                network
  <2>9. ASSUME NEW i \in Invites, RequestCancelInvite(i) PROVE TypeOK'
    <3>1. Msg("cancel", i) \in Message
      BY DEF Msg, Message
    <3>2. toInvited' \in [Peers -> Seq(Message)]
      BY <2>9, <3>1, SendType DEF RequestCancelInvite, TypeOK
    <3>3. call' \in [Invites -> Calls] /\ outbound' \in [Slots -> Invites \cup {None}]
      BY <2>9, EndCallType DEF RequestCancelInvite, TypeOK, Calls, CallsRunning
    <3> QED
      BY <2>9, <3>2, <3>3 DEF RequestCancelInvite, TypeOK, invited
  <2>10. ASSUME NEW i \in Invites, Accept(i) PROVE TypeOK'
    BY <2>10 DEF Accept, TypeOK, Answers, InFlight, invitor, network
  <2>11. ASSUME NEW i \in Invites, AcceptExistingProject(i) PROVE TypeOK'
    <3>1. responses' \in [Invites -> Seq(Decisions)]
      BY <2>11, RespondType DEF AcceptExistingProject, Decisions
    <3>2. pending' \in [Invites -> {"none", "pending", "accepting"}]
      BY <2>11, DeleteType DEF AcceptExistingProject
    <3>3. events' \in [Invites -> Seq({"invite-received"} \cup Reasons)]
      BY <2>11, AppendElements DEF AcceptExistingProject, TypeOK, Reasons
    <3> QED
      BY <2>11, <3>1, <3>2, <3>3
      DEF AcceptExistingProject, TypeOK, Answers, invitor
  <2>12. ASSUME NEW i \in Invites, Reject(i) PROVE TypeOK'
    <3>1. responses' \in [Invites -> Seq(Decisions)]
      BY <2>12, RespondType DEF Reject, Decisions
    <3>2. /\ pending' \in [Invites -> {"none", "pending", "accepting"}]
          /\ events' \in [Invites -> Seq({"invite-received"} \cup Reasons)]
      BY <2>12, RemoveType DEF Reject, Reasons
    <3> QED
      BY <2>12, <3>1, <3>2 DEF Reject, TypeOK, Answers, invitor
  <2>13. ASSUME NEW i \in Invites, AssignRoleFails(i) PROVE TypeOK'
    <3>1. call' \in [Invites -> Calls] /\ outbound' \in [Slots -> Invites \cup {None}]
      BY <2>13, EndCallType DEF AssignRoleFails, Calls
    <3> QED
      BY <2>13, <3>1 DEF AssignRoleFails, TypeOK, invited, network
  <2>14. ASSUME NEW i \in Invites, AddProjectFails(i) PROVE TypeOK'
    <3>1. /\ pending' \in [Invites -> {"none", "pending", "accepting"}]
          /\ events' \in [Invites -> Seq({"invite-received"} \cup Reasons)]
      BY <2>14, RemoveType DEF AddProjectFails, Reasons
    <3>2. active \cup {ProjectOf[i]} \in SUBSET Projects
      BY DEF TypeOK
    <3>3. active' \in SUBSET Projects
      BY <2>14, <3>2 DEF AddProjectFails, TypeOK
    <3> QED
      BY <2>14, <3>1, <3>3
      DEF AddProjectFails, TypeOK, Answers, invitor, network
  <2>15. ASSUME NEW q \in Peers, HandleInviteRpcMessage(q) PROVE TypeOK'
    <3> DEFINE i == Head(toInvited[q]).id
    <3>1. i \in Invites /\ toInvited' \in [Peers -> Seq(Message)]
      BY <2>15, ReceivedType DEF HandleInviteRpcMessage
    <3>2. responses' \in [Invites -> Seq(Decisions)]
      BY <2>15, RespondType DEF HandleInviteRpcMessage, Decisions
    <3>3. /\ pending' \in [Invites -> {"none", "pending", "accepting"}]
          /\ events' \in [Invites -> Seq({"invite-received"} \cup Reasons)]
      <4>1. events[i] \in Seq({"invite-received"} \cup Reasons)
        BY <3>1 DEF TypeOK
      <4>2. Append(events[i], "invite-received")
              \in Seq({"invite-received"} \cup Reasons)
        BY <4>1
      <4>3. Emit(i, "invite-received")
              \in [Invites -> Seq({"invite-received"} \cup Reasons)]
        BY <3>1, <4>2 DEF TypeOK, Emit
      <4>4. events' = events \/ events' = Emit(i, "invite-received")
        BY <2>15 DEF HandleInviteRpcMessage
      <4>5. pending' = pending \/ pending' = [pending EXCEPT ![i] = "pending"]
        BY <2>15 DEF HandleInviteRpcMessage
      <4> QED
        BY <3>1, <4>3, <4>4, <4>5 DEF TypeOK
    <3> QED
      BY <2>15, <3>1, <3>2, <3>3 DEF HandleInviteRpcMessage, TypeOK, invitor
  <2>16. ASSUME NEW q \in Peers, HandleInviteCancel(q) PROVE TypeOK'
    <3> DEFINE i == Head(toInvited[q]).id
    <3>1. i \in Invites /\ toInvited' \in [Peers -> Seq(Message)]
      BY <2>16, ReceivedType DEF HandleInviteCancel
    <3>2. /\ pending' \in [Invites -> {"none", "pending", "accepting"}]
          /\ events' \in [Invites -> Seq({"invite-received"} \cup Reasons)]
      BY <2>16, <3>1, RemoveType DEF HandleInviteCancel, TypeOK, Reasons
    <3> QED
      BY <2>16, <3>1, <3>2 DEF HandleInviteCancel, TypeOK, invitor
  <2>17. ASSUME NEW q \in Peers, GotProjectDetails(q) PROVE TypeOK'
    <3> DEFINE i == Head(toInvited[q]).id
    <3>1. i \in Invites /\ toInvited' \in [Peers -> Seq(Message)]
      BY <2>17, ReceivedType DEF GotProjectDetails
    <3>2. /\ pending' \in [Invites -> {"none", "pending", "accepting"}]
          /\ events' \in [Invites -> Seq({"invite-received"} \cup Reasons)]
      BY <2>17, <3>1, RemoveType DEF GotProjectDetails, TypeOK, Reasons
    <3>3. answer' \in [Invites -> Answers]
      BY <2>17, <3>1 DEF GotProjectDetails, TypeOK, Answers, InFlight
    <3>4. row' \in SUBSET Projects
      <4>1. ProjectOf[i] \in Projects /\ row \in SUBSET Projects
        BY <3>1 DEF TypeOK
      <4>2. row' = row \/ row' = row \cup {ProjectOf[i]}
        BY <2>17 DEF GotProjectDetails
      <4> QED
        BY <4>1, <4>2
    <3> QED
      BY <2>17, <3>1, <3>2, <3>3, <3>4 DEF GotProjectDetails, TypeOK, invitor
  <2>18. ASSUME NEW q \in Peers, Connect(q) PROVE TypeOK'
    BY <2>18 DEF Connect, TypeOK, invited, invitor
  <2>19. ASSUME NEW q \in Peers, Disconnect(q) PROVE TypeOK'
    BY <2>19, CloseType DEF Disconnect, TypeOK, invited, invitor
  <2>20. ASSUME NEW q \in Peers, InvitorRestarts(q) PROVE TypeOK'
    <3>1. /\ call' \in [Invites -> Calls]
          /\ outbound' \in [Slots -> Invites \cup {None}]
      BY <2>20 DEF InvitorRestarts, TypeOK, Calls
    <3> QED
      BY <2>20, <3>1, CloseType DEF InvitorRestarts, TypeOK, invited
  <2>21. CASE InvitedRestarts
    BY <2>21, CloseType DEF InvitedRestarts, TypeOK, Answers, invitor
  <2>22. CASE UNCHANGED vars
    BY <2>22 DEF TypeOK, vars, invited, invitor, network
  <2> QED
    BY <2>1, <2>2, <2>3, <2>4, <2>5, <2>6, <2>7, <2>8, <2>9, <2>10, <2>11,
       <2>12, <2>13, <2>14, <2>15, <2>16, <2>17, <2>18, <2>19, <2>20, <2>21,
       <2>22
    DEF Next, InvitorStep, InvitedStep, User, Failure, Deliver
<1> QED
  BY <1>1, <1>2, PTL DEF Spec

-----------------------------------------------------------------------------
(***************************************************************************)
(* The messages under way.                                                 *)
(***************************************************************************)
LEMMA MsgFields ==
  ASSUME NEW i \in Invites, NEW type \in {"invite", "cancel", "details"}
  PROVE  /\ Msg(type, i) \in Message
         /\ Msg(type, i).type = type
         /\ Msg(type, i).id = i
BY DEF Msg, Message

LEMMA MsgInjective ==
  ASSUME NEW i \in Invites, NEW j \in Invites,
         NEW s \in {"invite", "cancel", "details"},
         NEW t \in {"invite", "cancel", "details"},
         Msg(s, i) = Msg(t, j)
  PROVE  s = t /\ i = j
BY MsgFields

LEMMA SentMessages ==
  ASSUME TypeOK, NEW q \in Peers, NEW m \in Message, Send(q, m),
         NEW r \in Peers, NEW k \in 1 .. Len(toInvited'[r])
  PROVE  \/ /\ k \in 1 .. Len(toInvited[r])
            /\ toInvited'[r][k] = toInvited[r][k]
         \/ /\ r = q
            /\ k = Len(toInvited[r]) + 1
            /\ toInvited'[r][k] = m
<1>1. toInvited[r] \in Seq(Message) /\ toInvited[q] \in Seq(Message)
  BY DEF TypeOK
<1>2. CASE ~conn[q] \/ r # q
  <2>1. toInvited'[r] = toInvited[r]
    BY <1>2 DEF Send, TypeOK
  <2> QED
    BY <2>1, <1>1
<1>3. CASE conn[q] /\ r = q
  <2>1. toInvited'[r] = Append(toInvited[r], m)
    BY <1>3 DEF Send, TypeOK
  <2> QED
    BY <2>1, <1>1, <1>3, AppendElements
<1> QED
  BY <1>2, <1>3

LEMMA ReceivedMessages ==
  ASSUME TypeOK, NEW q \in Peers, NEW type, Received(q, type),
         NEW r \in Peers, NEW k \in 1 .. Len(toInvited'[r])
  PROVE  \/ /\ r # q
            /\ k \in 1 .. Len(toInvited[r])
            /\ toInvited'[r] = toInvited[r]
         \/ /\ r = q
            /\ k + 1 \in 1 .. Len(toInvited[r])
            /\ toInvited'[r][k] = toInvited[r][k + 1]
<1>1. toInvited[r] \in Seq(Message) /\ toInvited[q] \in Seq(Message)
  BY DEF TypeOK
<1>2. CASE r # q
  BY <1>1, <1>2 DEF Received, TypeOK
<1>3. CASE r = q
  <2>1. toInvited'[r] = Tail(toInvited[r]) /\ toInvited[r] # <<>>
    BY <1>3 DEF Received, TypeOK
  <2> QED
    BY <2>1, <1>1, <1>3, TailElements
<1> QED
  BY <1>2, <1>3

LEMMA HeadMessage ==
  ASSUME TypeOK, NEW q \in Peers, NEW type \in {"invite", "cancel", "details"},
         Received(q, type)
  PROVE  /\ Len(toInvited[q]) \in Nat \ {0}
         /\ 1 \in 1 .. Len(toInvited[q])
         /\ Head(toInvited[q]).id \in Invites
         /\ toInvited[q][1] = Msg(type, Head(toInvited[q]).id)
<1>1. toInvited[q] \in Seq(Message) /\ toInvited[q] # <<>>
  BY DEF TypeOK, Received
<1>2. /\ Len(toInvited[q]) \in Nat \ {0}
      /\ Head(toInvited[q]) = toInvited[q][1]
      /\ Head(toInvited[q]) \in Message
  BY <1>1, TailElements
<1>3. Head(toInvited[q]).type = type
  BY DEF Received
<1>4. \A m \in Message : m = Msg(m.type, m.id) /\ m.id \in Invites
  BY DEF Message, Msg
<1> QED
  BY <1>2, <1>3, <1>4

LEMMA MessagesKept ==
  ASSUME TypeOK, MessageInv, UNCHANGED toInvited, granted \subseteq granted',
         \A i \in Invites : News(i) => News(i)'
  PROVE  MessageInv'
<1> SUFFICES ASSUME NEW q \in Peers, NEW j \in Invites,
                    NEW k \in 1 .. Len(toInvited'[q])
             PROVE  /\ toInvited'[q][k] = Msg("invite", j) =>
                         /\ PeerOf[j] = q
                         /\ News(j)'
                         /\ \A l \in 1 .. Len(toInvited'[q]) :
                              l # k => toInvited'[q][l] # Msg("invite", j)
                    /\ toInvited'[q][k] = Msg("details", j) =>
                         ProjectOf[j] \in granted'
  BY DEF MessageInv, Msg
<1>1. /\ toInvited[q][k] = Msg("invite", j) =>
           /\ PeerOf[j] = q
           /\ News(j)
           /\ \A l \in 1 .. Len(toInvited[q]) :
                l # k => toInvited[q][l] # Msg("invite", j)
      /\ toInvited[q][k] = Msg("details", j) => ProjectOf[j] \in granted
  BY DEF MessageInv
<1>2. News(j) => News(j)'
  OBVIOUS
<1> QED
  BY <1>1, <1>2

LEMMA MessageSent ==
  ASSUME TypeOK, MessageInv, NEW i \in Invites, NEW type \in {"cancel", "details"},
         Send(PeerOf[i], Msg(type, i)), UNCHANGED granted,
         type = "details" => ProjectOf[i] \in granted,
         \A j \in Invites : News(j) => News(j)'
  PROVE  MessageInv'
<1> SUFFICES ASSUME NEW q \in Peers, NEW j \in Invites,
                    NEW k \in 1 .. Len(toInvited'[q])
             PROVE  /\ toInvited'[q][k] = Msg("invite", j) =>
                         /\ PeerOf[j] = q
                         /\ News(j)'
                         /\ \A l \in 1 .. Len(toInvited'[q]) :
                              l # k => toInvited'[q][l] # Msg("invite", j)
                    /\ toInvited'[q][k] = Msg("details", j) =>
                         ProjectOf[j] \in granted'
  BY DEF MessageInv, Msg
<1>1. \A l \in 1 .. Len(toInvited'[q]) :
        \/ /\ l \in 1 .. Len(toInvited[q])
           /\ toInvited'[q][l] = toInvited[q][l]
        \/ toInvited'[q][l] = Msg(type, i)
  BY MsgFields, SentMessages
<1>2. CASE toInvited'[q][k] = Msg(type, i)
  <2>1. toInvited'[q][k] # Msg("invite", j)
    BY <1>2, MsgInjective
  <2>2. toInvited'[q][k] = Msg("details", j) => type = "details" /\ j = i
    BY <1>2, MsgInjective
  <2> QED
    BY <2>1, <2>2
<1>3. CASE k \in 1 .. Len(toInvited[q]) /\ toInvited'[q][k] = toInvited[q][k]
  <2>1. Msg(type, i) # Msg("invite", j)
    BY MsgInjective
  <2> QED
    BY <1>1, <1>3, <2>1 DEF MessageInv
<1> QED
  BY <1>1, <1>2, <1>3

LEMMA InviteSent ==
  ASSUME TypeOK, MessageInv, NEW i \in Invites, ~News(i), News(i)',
         Send(PeerOf[i], Msg("invite", i)), UNCHANGED granted,
         \A j \in Invites : News(j) => News(j)'
  PROVE  MessageInv'
<1> SUFFICES ASSUME NEW q \in Peers, NEW j \in Invites,
                    NEW k \in 1 .. Len(toInvited'[q])
             PROVE  /\ toInvited'[q][k] = Msg("invite", j) =>
                         /\ PeerOf[j] = q
                         /\ News(j)'
                         /\ \A l \in 1 .. Len(toInvited'[q]) :
                              l # k => toInvited'[q][l] # Msg("invite", j)
                    /\ toInvited'[q][k] = Msg("details", j) =>
                         ProjectOf[j] \in granted'
  BY DEF MessageInv, Msg
<1>1. \A l \in 1 .. Len(toInvited'[q]) :
        \/ /\ l \in 1 .. Len(toInvited[q])
           /\ toInvited'[q][l] = toInvited[q][l]
        \/ /\ q = PeerOf[i]
           /\ l = Len(toInvited[q]) + 1
           /\ toInvited'[q][l] = Msg("invite", i)
  BY MsgFields, SentMessages
<1>2. \A l \in 1 .. Len(toInvited[q]) : toInvited[q][l] # Msg("invite", i)
  BY DEF MessageInv
<1>3. CASE k \in 1 .. Len(toInvited[q]) /\ toInvited'[q][k] = toInvited[q][k]
  BY <1>1, <1>2, <1>3, MsgInjective DEF MessageInv
<1>4. CASE /\ q = PeerOf[i] /\ k = Len(toInvited[q]) + 1
           /\ toInvited'[q][k] = Msg("invite", i)
  BY <1>1, <1>2, <1>4, MsgInjective
<1> QED
  BY <1>1, <1>3, <1>4

LEMMA MessageReceived ==
  ASSUME TypeOK, MessageInv, NEW p \in Peers,
         NEW type \in {"invite", "cancel", "details"}, Received(p, type),
         UNCHANGED granted,
         \A j \in Invites :
           \/ News(j) => News(j)'
           \/ type = "invite" /\ j = Head(toInvited[p]).id
  PROVE  MessageInv'
<1> DEFINE i == Head(toInvited[p]).id
<1>1. /\ 1 \in 1 .. Len(toInvited[p]) /\ i \in Invites
      /\ toInvited[p][1] = Msg(type, i)
  BY HeadMessage
<1> HIDE DEF i
<1> SUFFICES ASSUME NEW q \in Peers, NEW j \in Invites,
                    NEW k \in 1 .. Len(toInvited'[q])
             PROVE  /\ toInvited'[q][k] = Msg("invite", j) =>
                         /\ PeerOf[j] = q
                         /\ News(j)'
                         /\ \A l \in 1 .. Len(toInvited'[q]) :
                              l # k => toInvited'[q][l] # Msg("invite", j)
                    /\ toInvited'[q][k] = Msg("details", j) =>
                         ProjectOf[j] \in granted'
  BY DEF MessageInv, Msg
<1>2. CASE q # p
  <2>1. toInvited'[q] = toInvited[q] /\ k \in 1 .. Len(toInvited[q])
    BY <1>2, ReceivedMessages
  <2>2. toInvited[q][k] = Msg("invite", j) => ~(type = "invite" /\ j = i)
    BY <1>1, <1>2, <2>1 DEF MessageInv
  <2> QED
    BY <2>1, <2>2 DEF MessageInv, i
<1>3. CASE q = p
  <2>1. \A l \in 1 .. Len(toInvited'[p]) :
          /\ l + 1 \in 1 .. Len(toInvited[p])
          /\ toInvited'[p][l] = toInvited[p][l + 1]
    BY ReceivedMessages
  <2>2. /\ k \in Int /\ k + 1 # 1 /\ k + 1 \in 1 .. Len(toInvited[p])
        /\ toInvited'[q][k] = toInvited[p][k + 1]
    BY <1>3, <2>1
  <2>3. toInvited[p][k + 1] = Msg("invite", j) =>
          /\ PeerOf[j] = p
          /\ News(j)
          /\ \A l \in 1 .. Len(toInvited[p]) :
               l # k + 1 => toInvited[p][l] # Msg("invite", j)
    BY <2>2 DEF MessageInv
  <2>4. toInvited[p][k + 1] = Msg("invite", j) => ~(type = "invite" /\ j = i)
    BY <1>1, <2>2, <2>3
  <2>5. toInvited[p][k + 1] = Msg("details", j) => ProjectOf[j] \in granted
    BY <2>2 DEF MessageInv
  <2>6. toInvited[p][k + 1] = Msg("invite", j) =>
          \A l \in 1 .. Len(toInvited'[p]) :
            l # k => toInvited'[p][l] # Msg("invite", j)
    BY <2>1, <2>2, <2>3
  <2> QED
    BY <1>3, <2>2, <2>3, <2>4, <2>5, <2>6 DEF i
<1> QED
  BY <1>2, <1>3

LEMMA MessagesLost ==
  ASSUME TypeOK, MessageInv, NEW Q, CloseConnections(Q), UNCHANGED granted,
         Q = Peers \/ \A i \in Invites : News(i) => News(i)'
  PROVE  MessageInv'
<1> SUFFICES ASSUME NEW q \in Peers, NEW j \in Invites,
                    NEW k \in 1 .. Len(toInvited'[q])
             PROVE  /\ toInvited'[q][k] = Msg("invite", j) =>
                         /\ PeerOf[j] = q
                         /\ News(j)'
                         /\ \A l \in 1 .. Len(toInvited'[q]) :
                              l # k => toInvited'[q][l] # Msg("invite", j)
                    /\ toInvited'[q][k] = Msg("details", j) =>
                         ProjectOf[j] \in granted'
  BY DEF MessageInv, Msg
<1>1. q \notin Q /\ toInvited'[q] = toInvited[q]
  BY DEF CloseConnections
<1> QED
  BY <1>1 DEF MessageInv

LEMMA ResponsesKept ==
  ASSUME TypeOK, ResponseInv,
         \A i \in Invites : /\ answer[i] \in Consented => answer'[i] \in Consented
                            /\ answer[i] = "rejected" => answer'[i] = "rejected",
         \A i \in Invites : \A k \in 1 .. Len(responses'[i]) :
           \/ \E l \in 1 .. Len(responses[i]) : responses'[i][k] = responses[i][l]
           \/ responses'[i][k] = "ACCEPT" /\ answer'[i] \in Consented
           \/ responses'[i][k] = "REJECT" /\ answer'[i] = "rejected"
           \/ responses'[i][k] = "ALREADY"
  PROVE  ResponseInv'
BY DEF ResponseInv

LEMMA Responded ==
  ASSUME TypeOK, NEW S, NEW d \in Decisions, Respond(S, d),
         NEW i \in Invites, NEW k \in 1 .. Len(responses'[i])
  PROVE  \/ \E l \in 1 .. Len(responses[i]) : responses'[i][k] = responses[i][l]
         \/ i \in S /\ responses'[i][k] = d
<1>1. responses[i] \in Seq(Decisions)
  BY DEF TypeOK
<1>2. CASE i \in S /\ conn[PeerOf[i]]
  <2>1. responses'[i] = Append(responses[i], d)
    BY <1>2 DEF Respond
  <2> QED
    BY <1>1, <1>2, <2>1, AppendElements
<1>3. CASE ~(i \in S /\ conn[PeerOf[i]])
  <2>1. responses'[i] = responses[i]
    BY <1>3 DEF Respond
  <2> QED
    BY <2>1
<1> QED
  BY <1>2, <1>3

LEMMA RespondedInv ==
  ASSUME TypeOK, ResponseInv, NEW S, NEW d \in Decisions, Respond(S, d),
         \A i \in Invites : /\ answer[i] \in Consented => answer'[i] \in Consented
                            /\ answer[i] = "rejected" => answer'[i] = "rejected",
         d = "ACCEPT" => \A i \in S \cap Invites : answer'[i] \in Consented,
         d = "REJECT" => \A i \in S \cap Invites : answer'[i] = "rejected"
  PROVE  ResponseInv'
<1>1. \A i \in Invites : \A k \in 1 .. Len(responses'[i]) :
        \/ \E l \in 1 .. Len(responses[i]) : responses'[i][k] = responses[i][l]
        \/ i \in S /\ responses'[i][k] = d
  BY Responded
<1> QED
  BY <1>1, ResponsesKept DEF Decisions

LEMMA ClosedInv ==
  ASSUME TypeOK, ResponseInv, NEW Q, CloseConnections(Q),
         \A i \in Invites : /\ answer[i] \in Consented => answer'[i] \in Consented
                            /\ answer[i] = "rejected" => answer'[i] = "rejected"
  PROVE  ResponseInv'
<1>1. \A i \in Invites : \A k \in 1 .. Len(responses'[i]) :
        responses'[i] = responses[i]
  BY DEF CloseConnections
<1> QED
  BY <1>1, ResponsesKept

-----------------------------------------------------------------------------
(***************************************************************************)
(* Each action keeps the books: first the invitors' actions, which change  *)
(* no answer, then the invited device's.                                   *)
(***************************************************************************)
LEMMA SendInviteStep ==
  ASSUME TypeOK, BookkeepingAgrees, NEW i \in Invites, SendInvite(i)
  PROVE  BookkeepingAgrees'
<1> USE DEF BookkeepingAgrees
<1>1. PendingInv'
  BY DEF PendingInv, SendInvite, EndCall, ClearOutbound, CallsAccepted, invited, invitor, network, TypeOK
<1>2. RowInv'
  BY DEF RowInv, SendInvite, EndCall, ClearOutbound, CallsAccepted, invited, invitor, network, TypeOK
<1>3. CallInv'
  BY DEF CallInv, SendInvite, EndCall, ClearOutbound, CallsAccepted, invited, invitor, network, TypeOK
<1>4. OneAcceptPerProject'
  BY DEF OneAcceptPerProject, SendInvite, EndCall, ClearOutbound, CallsAccepted, invited, invitor, network, TypeOK
<1>5. OutcomeIsTheAnswer'
  BY DEF OutcomeIsTheAnswer, SendInvite, EndCall, ClearOutbound, CallsAccepted, invited, invitor, network, TypeOK
<1>6. MessageInv'
  BY InviteSent, MessagesKept DEF SendInvite, EndCall, News, Send, TypeOK, CallInv, invited
<1>7. ResponseInv'
  BY ResponsesKept DEF SendInvite, TypeOK, invited, network, invitor
<1> QED
  BY <1>1, <1>2, <1>3, <1>4, <1>5, <1>6, <1>7

LEMMA ThrowIfAbortedStep ==
  ASSUME TypeOK, BookkeepingAgrees, NEW i \in Invites, ThrowIfAborted(i)
  PROVE  BookkeepingAgrees'
<1> USE DEF BookkeepingAgrees
<1>1. PendingInv'
  BY DEF PendingInv, ThrowIfAborted, EndCall, CallsAccepted, invited, invitor, network, TypeOK
<1>2. RowInv'
  BY DEF RowInv, ThrowIfAborted, EndCall, CallsAccepted, invited, invitor, network, TypeOK
<1>3. CallInv'
  BY DEF CallInv, ThrowIfAborted, EndCall, CallsAccepted, invited, invitor, network, TypeOK
<1>4. OneAcceptPerProject'
  BY DEF OneAcceptPerProject, ThrowIfAborted, EndCall, CallsAccepted, invited, invitor, network, TypeOK
<1>5. OutcomeIsTheAnswer'
  BY DEF OutcomeIsTheAnswer, ThrowIfAborted, EndCall, CallsAccepted, invited, invitor, network, TypeOK
<1>6. MessageInv'
  BY MessagesKept DEF ThrowIfAborted, EndCall, News, TypeOK, invited, network, invitor
<1>7. ResponseInv'
  BY ResponsesKept DEF ThrowIfAborted, TypeOK, invited, network, invitor
<1> QED
  BY <1>1, <1>2, <1>3, <1>4, <1>5, <1>6, <1>7

LEMMA HandleInviteResponseStep ==
  ASSUME TypeOK, BookkeepingAgrees, NEW i \in Invites, HandleInviteResponse(i)
  PROVE  BookkeepingAgrees'
<1> USE DEF BookkeepingAgrees
<1>1. PendingInv'
  BY DEF PendingInv, HandleInviteResponse, EndCall, CallsAccepted, Decisions, ResponseInv, invited, invitor, network, TypeOK
<1>2. RowInv'
  BY DEF RowInv, HandleInviteResponse, EndCall, CallsAccepted, Decisions, ResponseInv, invited, invitor, network, TypeOK
<1>3. CallInv'
  BY DEF CallInv, HandleInviteResponse, EndCall, CallsAccepted, Decisions, ResponseInv, invited, invitor, network, TypeOK
<1>4. OneAcceptPerProject'
  BY DEF OneAcceptPerProject, HandleInviteResponse, EndCall, CallsAccepted, Decisions, ResponseInv, invited, invitor, network, TypeOK
<1>5. OutcomeIsTheAnswer'
  BY DEF OutcomeIsTheAnswer, HandleInviteResponse, EndCall, CallsAccepted, Decisions, ResponseInv, invited, invitor, network, TypeOK
<1>6. MessageInv'
  BY MessagesKept DEF HandleInviteResponse, EndCall, News, TypeOK, invited, network, invitor
<1>7. ResponseInv'
  BY ResponsesKept DEF HandleInviteResponse, TypeOK, invited, network, invitor
<1> QED
  BY <1>1, <1>2, <1>3, <1>4, <1>5, <1>6, <1>7

LEMMA AssignRoleStep ==
  ASSUME TypeOK, BookkeepingAgrees, NEW i \in Invites, AssignRole(i)
  PROVE  BookkeepingAgrees'
<1> USE DEF BookkeepingAgrees
<1>1. PendingInv'
  BY DEF PendingInv, AssignRole, CallsAccepted, invited, invitor, network, TypeOK
<1>2. RowInv'
  BY DEF RowInv, AssignRole, CallsAccepted, invited, invitor, network, TypeOK
<1>3. CallInv'
  BY DEF CallInv, AssignRole, CallsAccepted, invited, invitor, network, TypeOK
<1>4. OneAcceptPerProject'
  BY DEF OneAcceptPerProject, AssignRole, CallsAccepted, invited, invitor, network, TypeOK
<1>5. OutcomeIsTheAnswer'
  BY DEF OutcomeIsTheAnswer, AssignRole, CallsAccepted, invited, invitor, network, TypeOK
<1>6. MessageInv'
  BY MessagesKept DEF AssignRole, News, TypeOK, invited, network, invitor
<1>7. ResponseInv'
  BY ResponsesKept DEF AssignRole, TypeOK, invited, network, invitor
<1> QED
  BY <1>1, <1>2, <1>3, <1>4, <1>5, <1>6, <1>7

LEMMA AssignRoleFailsStep ==
  ASSUME TypeOK, BookkeepingAgrees, NEW i \in Invites, AssignRoleFails(i)
  PROVE  BookkeepingAgrees'
<1> USE DEF BookkeepingAgrees
<1>1. PendingInv'
  BY DEF PendingInv, AssignRoleFails, EndCall, CallsAccepted, invited, invitor, network, TypeOK
<1>2. RowInv'
  BY DEF RowInv, AssignRoleFails, EndCall, CallsAccepted, invited, invitor, network, TypeOK
<1>3. CallInv'
  BY DEF CallInv, AssignRoleFails, EndCall, CallsAccepted, invited, invitor, network, TypeOK
<1>4. OneAcceptPerProject'
  BY DEF OneAcceptPerProject, AssignRoleFails, EndCall, CallsAccepted, invited, invitor, network, TypeOK
<1>5. OutcomeIsTheAnswer'
  BY DEF OutcomeIsTheAnswer, AssignRoleFails, EndCall, CallsAccepted, invited, invitor, network, TypeOK
<1>6. MessageInv'
  BY MessagesKept DEF AssignRoleFails, EndCall, News, TypeOK, invited, network, invitor
<1>7. ResponseInv'
  BY ResponsesKept DEF AssignRoleFails, TypeOK, invited, network, invitor
<1> QED
  BY <1>1, <1>2, <1>3, <1>4, <1>5, <1>6, <1>7

LEMMA SendProjectJoinDetailsStep ==
  ASSUME TypeOK, BookkeepingAgrees, NEW i \in Invites, SendProjectJoinDetails(i)
  PROVE  BookkeepingAgrees'
<1> USE DEF BookkeepingAgrees
<1>1. PendingInv'
  BY DEF PendingInv, SendProjectJoinDetails, EndCall, CallsAccepted, invited, invitor, network, TypeOK
<1>2. RowInv'
  BY DEF RowInv, SendProjectJoinDetails, EndCall, CallsAccepted, invited, invitor, network, TypeOK
<1>3. CallInv'
  BY DEF CallInv, SendProjectJoinDetails, EndCall, CallsAccepted, invited, invitor, network, TypeOK
<1>4. OneAcceptPerProject'
  BY DEF OneAcceptPerProject, SendProjectJoinDetails, EndCall, CallsAccepted, invited, invitor, network, TypeOK
<1>5. OutcomeIsTheAnswer'
  BY DEF OutcomeIsTheAnswer, SendProjectJoinDetails, EndCall, CallsAccepted, invited, invitor, network, TypeOK
<1>6. MessageInv'
  BY MessageSent DEF SendProjectJoinDetails, EndCall, News, TypeOK, CallInv, invited
<1>7. ResponseInv'
  BY ResponsesKept DEF SendProjectJoinDetails, TypeOK, invited, network, invitor
<1> QED
  BY <1>1, <1>2, <1>3, <1>4, <1>5, <1>6, <1>7

LEMMA InviteStep ==
  ASSUME TypeOK, BookkeepingAgrees, NEW i \in Invites, Invite(i)
  PROVE  BookkeepingAgrees'
<1> USE DEF BookkeepingAgrees
<1>1. PendingInv'
  BY DEF PendingInv, Invite, CallsAccepted, invited, invitor, network, TypeOK
<1>2. RowInv'
  BY DEF RowInv, Invite, CallsAccepted, invited, invitor, network, TypeOK
<1>3. CallInv'
  BY DEF CallInv, Invite, CallsAccepted, invited, invitor, network, TypeOK
<1>4. OneAcceptPerProject'
  BY DEF OneAcceptPerProject, Invite, CallsAccepted, invited, invitor, network, TypeOK
<1>5. OutcomeIsTheAnswer'
  BY DEF OutcomeIsTheAnswer, Invite, CallsAccepted, invited, invitor, network, TypeOK
<1>6. MessageInv'
  BY MessagesKept DEF Invite, News, TypeOK, invited, network, invitor
<1>7. ResponseInv'
  BY ResponsesKept DEF Invite, TypeOK, invited, network, invitor
<1> QED
  BY <1>1, <1>2, <1>3, <1>4, <1>5, <1>6, <1>7

LEMMA RequestCancelInviteStep ==
  ASSUME TypeOK, BookkeepingAgrees, NEW i \in Invites, RequestCancelInvite(i)
  PROVE  BookkeepingAgrees'
<1> USE DEF BookkeepingAgrees
<1>1. PendingInv'
  BY DEF PendingInv, RequestCancelInvite, EndCall, CallsAccepted, invited, invitor, network, TypeOK
<1>2. RowInv'
  BY DEF RowInv, RequestCancelInvite, EndCall, CallsAccepted, invited, invitor, network, TypeOK
<1>3. CallInv'
  BY DEF CallInv, RequestCancelInvite, EndCall, CallsAccepted, invited, invitor, network, TypeOK
<1>4. OneAcceptPerProject'
  BY DEF OneAcceptPerProject, RequestCancelInvite, EndCall, CallsAccepted, invited, invitor, network, TypeOK
<1>5. OutcomeIsTheAnswer'
  BY DEF OutcomeIsTheAnswer, RequestCancelInvite, EndCall, CallsAccepted, invited, invitor, network, TypeOK
<1>6. MessageInv'
  BY MessageSent, MessagesKept DEF RequestCancelInvite, EndCall, News, TypeOK, invited
<1>7. ResponseInv'
  BY ResponsesKept DEF RequestCancelInvite, TypeOK, invited, network, invitor
<1> QED
  BY <1>1, <1>2, <1>3, <1>4, <1>5, <1>6, <1>7

LEMMA InvitorRestartsStep ==
  ASSUME TypeOK, BookkeepingAgrees, NEW q \in Peers, InvitorRestarts(q)
  PROVE  BookkeepingAgrees'
<1> USE DEF BookkeepingAgrees
<1>1. PendingInv'
  BY DEF PendingInv, InvitorRestarts, CallsRunning, CallsAccepted, invited, invitor, network, TypeOK
<1>2. RowInv'
  BY DEF RowInv, InvitorRestarts, CallsRunning, CallsAccepted, invited, invitor, network, TypeOK
<1>3. CallInv'
  BY DEF CallInv, InvitorRestarts, CallsRunning, CallsAccepted, invited, invitor, network, TypeOK
<1>4. OneAcceptPerProject'
  BY DEF OneAcceptPerProject, InvitorRestarts, CallsRunning, CallsAccepted, invited, invitor, network, TypeOK
<1>5. OutcomeIsTheAnswer'
  BY DEF OutcomeIsTheAnswer, InvitorRestarts, CallsRunning, CallsAccepted, invited, invitor, network, TypeOK
<1>6. MessageInv'
  BY MessagesLost DEF InvitorRestarts, News, TypeOK, invited
<1>7. ResponseInv'
  BY ClosedInv DEF InvitorRestarts, invited
<1> QED
  BY <1>1, <1>2, <1>3, <1>4, <1>5, <1>6, <1>7

LEMMA ConnectStep ==
  ASSUME TypeOK, BookkeepingAgrees, NEW q \in Peers, Connect(q)
  PROVE  BookkeepingAgrees'
<1> USE DEF BookkeepingAgrees
<1>1. PendingInv'
  BY DEF PendingInv, Connect, CallsAccepted, invited, invitor, network, TypeOK
<1>2. RowInv'
  BY DEF RowInv, Connect, CallsAccepted, invited, invitor, network, TypeOK
<1>3. CallInv'
  BY DEF CallInv, Connect, CallsAccepted, invited, invitor, network, TypeOK
<1>4. OneAcceptPerProject'
  BY DEF OneAcceptPerProject, Connect, CallsAccepted, invited, invitor, network, TypeOK
<1>5. OutcomeIsTheAnswer'
  BY DEF OutcomeIsTheAnswer, Connect, CallsAccepted, invited, invitor, network, TypeOK
<1>6. MessageInv'
  BY MessagesKept DEF Connect, News, TypeOK, invited, network, invitor
<1>7. ResponseInv'
  BY ResponsesKept DEF Connect, TypeOK, invited, network, invitor
<1> QED
  BY <1>1, <1>2, <1>3, <1>4, <1>5, <1>6, <1>7

LEMMA DisconnectStep ==
  ASSUME TypeOK, BookkeepingAgrees, NEW q \in Peers, Disconnect(q)
  PROVE  BookkeepingAgrees'
<1> USE DEF BookkeepingAgrees
<1>1. PendingInv'
  BY DEF PendingInv, Disconnect, CallsAccepted, invited, invitor, network, TypeOK
<1>2. RowInv'
  BY DEF RowInv, Disconnect, CallsAccepted, invited, invitor, network, TypeOK
<1>3. CallInv'
  BY DEF CallInv, Disconnect, CallsAccepted, invited, invitor, network, TypeOK
<1>4. OneAcceptPerProject'
  BY DEF OneAcceptPerProject, Disconnect, CallsAccepted, invited, invitor, network, TypeOK
<1>5. OutcomeIsTheAnswer'
  BY DEF OutcomeIsTheAnswer, Disconnect, CallsAccepted, invited, invitor, network, TypeOK
<1>6. MessageInv'
  BY MessagesLost DEF Disconnect, News, TypeOK, invited, invitor
<1>7. ResponseInv'
  BY ClosedInv DEF Disconnect, invited, invitor
<1> QED
  BY <1>1, <1>2, <1>3, <1>4, <1>5, <1>6, <1>7

LEMMA SendAcceptStep ==
  ASSUME TypeOK, BookkeepingAgrees, NEW i \in Invites, SendAccept(i)
  PROVE  BookkeepingAgrees'
<1> USE DEF BookkeepingAgrees
<1>0. /\ \A j \in Invites : answer'[j] = answer[j]
                               \/ (answer[j] = "sending" /\ answer'[j] \in {"awaiting", "failed"})
      /\ call' = call
  BY DEF SendAccept, invitor, TypeOK
<1>1. PendingInv'
  BY DEF PendingInv, SendAccept, RemovePendingInvite, PendingInv, InFlight, Consented, CallsAccepted, invitor, TypeOK
<1>2. RowInv'
  <2>1. \A j \in Invites :
          /\ answer'[j] = answer[j]
             \/ (j = i /\ answer'[j] \in {"awaiting", "failed"})
          /\ pending'[j] = pending[j] \/ pending'[j] = "none"
    BY DEF SendAccept, RemovePendingInvite, TypeOK
  <2>2. answer[i] = "sending" /\ row' = row /\ granted' = granted
    BY DEF SendAccept, invitor
  <2> QED
    BY <2>1, <2>2 DEF RowInv, InFlight
<1>3. CallInv'
  BY DEF CallInv, SendAccept, RemovePendingInvite, PendingInv, InFlight, Consented, CallsAccepted, invitor, TypeOK
<1>4. OneAcceptPerProject'
  BY <1>0 DEF OneAcceptPerProject, InFlight
<1>5. OutcomeIsTheAnswer'
  BY <1>0 DEF OutcomeIsTheAnswer, InFlight, Consented
<1>6. MessageInv'
  BY MessagesKept DEF SendAccept, RemovePendingInvite, PendingInv, News, TypeOK, invited, network, invitor
<1>7. ResponseInv'
  BY RespondedInv DEF SendAccept, Decisions, Consented, InFlight, PendingInv, TypeOK
<1> QED
  BY <1>1, <1>2, <1>3, <1>4, <1>5, <1>6, <1>7

LEMMA JoinedStep ==
  ASSUME TypeOK, BookkeepingAgrees, NEW i \in Invites, Joined(i)
  PROVE  BookkeepingAgrees'
<1> USE DEF BookkeepingAgrees
<1>1. PendingInv'
  BY DEF PendingInv, Joined, DeleteByProject, PendingInv, RowInv, CallInv, OneAcceptPerProject, InFlight, Consented, CallsAccepted, invitor, TypeOK
<1>2. RowInv'
  <2>1. \A j \in Invites :
          /\ answer'[j] = IF j = i THEN "joined" ELSE answer[j]
          /\ pending'[j] = IF ProjectOf[j] = ProjectOf[i] THEN "none"
                                                        ELSE pending[j]
    BY DEF Joined, DeleteByProject, TypeOK
  <2>2. answer[i] = "adding" /\ row' = row /\ granted' = granted
    BY DEF Joined, invitor
  <2>3. \A j \in Invites : ProjectOf[j] = ProjectOf[i] /\ j # i =>
          answer[j] \notin InFlight
    BY <2>2 DEF OneAcceptPerProject, InFlight
  <2>4. row' \subseteq granted'
    BY <2>2 DEF RowInv
  <2>5. ASSUME NEW j \in Invites
        PROVE  /\ answer'[j] \in {"sending", "awaiting"} => ProjectOf[j] \notin row
               /\ answer'[j] \in {"adding", "joined"} => ProjectOf[j] \in row
    BY <2>1, <2>2 DEF RowInv
  <2>6. ASSUME NEW j \in Invites, answer'[j] = "joined",
               NEW k \in Invites, ProjectOf[k] = ProjectOf[j]
        PROVE  pending'[k] = "none" /\ answer'[k] \notin InFlight
    <3>1. CASE j = i
      BY <2>1, <2>3, <2>6, <3>1 DEF InFlight
    <3>2. CASE j # i
      BY <2>1, <2>6, <3>2 DEF RowInv, InFlight
    <3> QED
      BY <3>1, <3>2
  <2> QED
    BY <2>2, <2>4, <2>5, <2>6 DEF RowInv
<1>3. CallInv'
  BY DEF CallInv, Joined, DeleteByProject, PendingInv, RowInv, CallInv, OneAcceptPerProject, InFlight, Consented, CallsAccepted, invitor, TypeOK
<1>4. OneAcceptPerProject'
  BY DEF OneAcceptPerProject, Joined, DeleteByProject, PendingInv, RowInv, CallInv, OneAcceptPerProject, InFlight, Consented, CallsAccepted, invitor, TypeOK
<1>5. OutcomeIsTheAnswer'
  BY DEF OutcomeIsTheAnswer, Joined, DeleteByProject, PendingInv, RowInv, CallInv, OneAcceptPerProject, InFlight, Consented, CallsAccepted, invitor, TypeOK
<1>6. MessageInv'
  BY MessagesKept DEF Joined, DeleteByProject, News, TypeOK, invited, network, invitor
<1>7. ResponseInv'
  BY RespondedInv DEF Joined, Decisions, Consented, InFlight, PendingInv, TypeOK
<1> QED
  BY <1>1, <1>2, <1>3, <1>4, <1>5, <1>6, <1>7

LEMMA AcceptStep ==
  ASSUME TypeOK, BookkeepingAgrees, NEW i \in Invites, Accept(i)
  PROVE  BookkeepingAgrees'
<1> USE DEF BookkeepingAgrees
<1>1. PendingInv'
  BY DEF PendingInv, Accept, IsAcceptingForProject, network, PendingInv, RowInv, CallInv, OutcomeIsTheAnswer, InFlight, Consented, CallsAccepted, invitor, TypeOK
<1>2. RowInv'
  BY DEF RowInv, Accept, IsAcceptingForProject, network, PendingInv, RowInv, CallInv, OutcomeIsTheAnswer, InFlight, Consented, CallsAccepted, invitor, TypeOK
<1>3. CallInv'
  BY DEF CallInv, Accept, IsAcceptingForProject, network, PendingInv, RowInv, CallInv, OutcomeIsTheAnswer, InFlight, Consented, CallsAccepted, invitor, TypeOK
<1>4. OneAcceptPerProject'
  BY DEF OneAcceptPerProject, Accept, IsAcceptingForProject, network, PendingInv, RowInv, CallInv, OutcomeIsTheAnswer, InFlight, Consented, CallsAccepted, invitor, TypeOK
<1>5. OutcomeIsTheAnswer'
  BY DEF OutcomeIsTheAnswer, Accept, IsAcceptingForProject, network, PendingInv, RowInv, CallInv, OutcomeIsTheAnswer, InFlight, Consented, CallsAccepted, invitor, TypeOK
<1>6. MessageInv'
  BY MessagesKept DEF Accept, News, TypeOK, invited, network, invitor
<1>7. ResponseInv'
  BY ResponsesKept DEF Accept, Consented, InFlight, PendingInv, TypeOK, invited, network, invitor
<1> QED
  BY <1>1, <1>2, <1>3, <1>4, <1>5, <1>6, <1>7

LEMMA AcceptExistingProjectStep ==
  ASSUME TypeOK, BookkeepingAgrees, NEW i \in Invites, AcceptExistingProject(i)
  PROVE  BookkeepingAgrees'
<1> USE DEF BookkeepingAgrees
<1>1. PendingInv'
  BY DEF PendingInv, AcceptExistingProject, DeleteByProject, RowInv, PendingInv, CallInv, OutcomeIsTheAnswer, InFlight, Consented, CallsAccepted, invitor, TypeOK
<1>2. RowInv'
  BY DEF RowInv, AcceptExistingProject, DeleteByProject, RowInv, PendingInv, CallInv, OutcomeIsTheAnswer, InFlight, Consented, CallsAccepted, invitor, TypeOK
<1>3. CallInv'
  BY DEF CallInv, AcceptExistingProject, DeleteByProject, RowInv, PendingInv, CallInv, OutcomeIsTheAnswer, InFlight, Consented, CallsAccepted, invitor, TypeOK
<1>4. OneAcceptPerProject'
  BY DEF OneAcceptPerProject, AcceptExistingProject, DeleteByProject, RowInv, PendingInv, CallInv, OutcomeIsTheAnswer, InFlight, Consented, CallsAccepted, invitor, TypeOK
<1>5. OutcomeIsTheAnswer'
  BY DEF OutcomeIsTheAnswer, AcceptExistingProject, DeleteByProject, RowInv, PendingInv, CallInv, OutcomeIsTheAnswer, InFlight, Consented, CallsAccepted, invitor, TypeOK
<1>6. MessageInv'
  BY MessagesKept DEF AcceptExistingProject, DeleteByProject, News, TypeOK, invited, network, invitor
<1>7. ResponseInv'
  BY RespondedInv DEF AcceptExistingProject, Decisions, Consented, InFlight, PendingInv, TypeOK
<1> QED
  BY <1>1, <1>2, <1>3, <1>4, <1>5, <1>6, <1>7

LEMMA RejectStep ==
  ASSUME TypeOK, BookkeepingAgrees, NEW i \in Invites, Reject(i)
  PROVE  BookkeepingAgrees'
<1> USE DEF BookkeepingAgrees
<1>1. PendingInv'
  BY DEF PendingInv, Reject, RemovePendingInvite, PendingInv, RowInv, CallInv, OneAcceptPerProject, InFlight, Consented, CallsAccepted, invitor, TypeOK
<1>2. RowInv'
  BY DEF RowInv, Reject, RemovePendingInvite, PendingInv, RowInv, CallInv, OneAcceptPerProject, InFlight, Consented, CallsAccepted, invitor, TypeOK
<1>3. CallInv'
  BY DEF CallInv, Reject, RemovePendingInvite, PendingInv, RowInv, CallInv, OneAcceptPerProject, InFlight, Consented, CallsAccepted, invitor, TypeOK
<1>4. OneAcceptPerProject'
  BY DEF OneAcceptPerProject, Reject, RemovePendingInvite, PendingInv, RowInv, CallInv, OneAcceptPerProject, InFlight, Consented, CallsAccepted, invitor, TypeOK
<1>5. OutcomeIsTheAnswer'
  BY DEF OutcomeIsTheAnswer, Reject, RemovePendingInvite, PendingInv, RowInv, CallInv, OneAcceptPerProject, InFlight, Consented, CallsAccepted, invitor, TypeOK
<1>6. MessageInv'
  BY MessagesKept DEF Reject, RemovePendingInvite, News, TypeOK, invited, network, invitor
<1>7. ResponseInv'
  BY RespondedInv DEF Reject, Decisions, Consented, InFlight, PendingInv, TypeOK
<1> QED
  BY <1>1, <1>2, <1>3, <1>4, <1>5, <1>6, <1>7

LEMMA AddProjectFailsStep ==
  ASSUME TypeOK, BookkeepingAgrees, NEW i \in Invites, AddProjectFails(i)
  PROVE  BookkeepingAgrees'
<1> USE DEF BookkeepingAgrees
<1>1. PendingInv'
  BY DEF PendingInv, AddProjectFails, RemovePendingInvite, network, PendingInv, RowInv, CallInv, OneAcceptPerProject, InFlight, Consented, CallsAccepted, invitor, TypeOK
<1>2. RowInv'
  BY DEF RowInv, AddProjectFails, RemovePendingInvite, network, PendingInv, RowInv, CallInv, OneAcceptPerProject, InFlight, Consented, CallsAccepted, invitor, TypeOK
<1>3. CallInv'
  BY DEF CallInv, AddProjectFails, RemovePendingInvite, network, PendingInv, RowInv, CallInv, OneAcceptPerProject, InFlight, Consented, CallsAccepted, invitor, TypeOK
<1>4. OneAcceptPerProject'
  BY DEF OneAcceptPerProject, AddProjectFails, RemovePendingInvite, network, PendingInv, RowInv, CallInv, OneAcceptPerProject, InFlight, Consented, CallsAccepted, invitor, TypeOK
<1>5. OutcomeIsTheAnswer'
  BY DEF OutcomeIsTheAnswer, AddProjectFails, RemovePendingInvite, network, PendingInv, RowInv, CallInv, OneAcceptPerProject, InFlight, Consented, CallsAccepted, invitor, TypeOK
<1>6. MessageInv'
  BY MessagesKept DEF AddProjectFails, RemovePendingInvite, News, TypeOK, invited, network, invitor
<1>7. ResponseInv'
  BY ResponsesKept DEF AddProjectFails, Consented, InFlight, TypeOK, invited, network, invitor
<1> QED
  BY <1>1, <1>2, <1>3, <1>4, <1>5, <1>6, <1>7

LEMMA HandleInviteRpcMessageStep ==
  ASSUME TypeOK, BookkeepingAgrees, NEW q \in Peers, HandleInviteRpcMessage(q)
  PROVE  BookkeepingAgrees'
<1> USE DEF BookkeepingAgrees
<1>1. PendingInv'
  <2>1. /\ Head(toInvited[q]).id \in Invites
        /\ News(Head(toInvited[q]).id)
    BY HeadMessage DEF HandleInviteRpcMessage, MessageInv
  <2>2. PICK i \in Invites :
          /\ News(i)
          /\ answer' = answer /\ call' = call /\ granted' = granted
          /\ pending' = pending \/ pending' = [pending EXCEPT ![i] = "pending"]
    BY <2>1 DEF HandleInviteRpcMessage, invitor
  <2> QED
    BY <2>2 DEF PendingInv, News, TypeOK
<1>2. RowInv'
  BY DEF RowInv, HandleInviteRpcMessage, InFlight, Consented, CallsAccepted, invitor, TypeOK
<1>3. CallInv'
  <2>1. /\ Head(toInvited[q]).id \in Invites
        /\ News(Head(toInvited[q]).id)
    BY HeadMessage DEF HandleInviteRpcMessage, MessageInv
  <2>2. PICK i \in Invites :
          /\ News(i)
          /\ answer' = answer /\ call' = call /\ granted' = granted
          /\ pending' = pending \/ pending' = [pending EXCEPT ![i] = "pending"]
    BY <2>1 DEF HandleInviteRpcMessage, invitor
  <2> QED
    BY <2>2 DEF CallInv, News, TypeOK
<1>4. OneAcceptPerProject'
  BY DEF OneAcceptPerProject, HandleInviteRpcMessage, InFlight, Consented, CallsAccepted, invitor, TypeOK
<1>5. OutcomeIsTheAnswer'
  BY DEF OutcomeIsTheAnswer, HandleInviteRpcMessage, InFlight, Consented, CallsAccepted, invitor, TypeOK
<1>6. MessageInv'
  BY MessageReceived DEF HandleInviteRpcMessage, News, TypeOK, invitor
<1>7. ResponseInv'
  BY RespondedInv DEF HandleInviteRpcMessage, Decisions, Consented, InFlight, PendingInv, TypeOK
<1> QED
  BY <1>1, <1>2, <1>3, <1>4, <1>5, <1>6, <1>7

LEMMA HandleInviteCancelStep ==
  ASSUME TypeOK, BookkeepingAgrees, NEW q \in Peers, HandleInviteCancel(q)
  PROVE  BookkeepingAgrees'
<1> USE DEF BookkeepingAgrees
<1>1. PendingInv'
  BY DEF PendingInv, HandleInviteCancel, RemovePendingInvite, InFlight, Consented, CallsAccepted, invitor, TypeOK
<1>2. RowInv'
  BY DEF RowInv, HandleInviteCancel, RemovePendingInvite, InFlight, Consented, CallsAccepted, invitor, TypeOK
<1>3. CallInv'
  BY DEF CallInv, HandleInviteCancel, RemovePendingInvite, InFlight, Consented, CallsAccepted, invitor, TypeOK
<1>4. OneAcceptPerProject'
  BY DEF OneAcceptPerProject, HandleInviteCancel, RemovePendingInvite, InFlight, Consented, CallsAccepted, invitor, TypeOK
<1>5. OutcomeIsTheAnswer'
  BY DEF OutcomeIsTheAnswer, HandleInviteCancel, RemovePendingInvite, InFlight, Consented, CallsAccepted, invitor, TypeOK
<1>6. MessageInv'
  BY MessageReceived DEF HandleInviteCancel, RemovePendingInvite, News, TypeOK, invitor
<1>7. ResponseInv'
  BY ResponsesKept DEF HandleInviteCancel, TypeOK, invited, network, invitor
<1> QED
  BY <1>1, <1>2, <1>3, <1>4, <1>5, <1>6, <1>7

LEMMA GotProjectDetailsStep ==
  ASSUME TypeOK, BookkeepingAgrees, NEW q \in Peers, GotProjectDetails(q)
  PROVE  BookkeepingAgrees'
<1> USE DEF BookkeepingAgrees
<1>0. /\ \A j \in Invites :
            \/ answer'[j] = answer[j] /\ pending'[j] = pending[j]
            \/ answer[j] = "awaiting" /\ answer'[j] = "adding" /\ pending'[j] = pending[j]
            \/ answer[j] = "awaiting" /\ answer'[j] = "failed" /\ pending'[j] = "none"
      /\ call' = call /\ granted' = granted
  <2> DEFINE i == Head(toInvited[q]).id
  <2>1. \/ answer' = answer /\ pending' = pending
        \/ /\ answer[i] = "awaiting" /\ answer' = [answer EXCEPT ![i] = "adding"]
           /\ pending' = pending
        \/ /\ answer[i] = "awaiting" /\ answer' = [answer EXCEPT ![i] = "failed"]
           /\ pending' = [pending EXCEPT ![i] = "none"]
    BY DEF GotProjectDetails, RemovePendingInvite
  <2>2. call' = call /\ granted' = granted
    BY DEF GotProjectDetails, invitor
  <2> HIDE DEF i
  <2>3. QED
    BY <2>1, <2>2 DEF TypeOK
<1>1. PendingInv'
  BY <1>0 DEF PendingInv, InFlight
<1>2. RowInv'
  <2> DEFINE i == Head(toInvited[q]).id
  <2>1. i \in Invites /\ ProjectOf[i] \in granted
    <3>1. Received(q, "details")
      BY DEF GotProjectDetails
    <3>2. /\ i \in Invites /\ 1 \in 1 .. Len(toInvited[q])
          /\ toInvited[q][1] = Msg("details", i)
      BY <3>1, HeadMessage
    <3> HIDE DEF i
    <3> QED
      BY <3>2 DEF MessageInv
  <2>2. granted' = granted
    BY DEF GotProjectDetails, invitor
  <2>3. CASE row' = row
    <3>1. \/ answer' = answer
          \/ answer' = [answer EXCEPT ![i] = "failed"]
      BY <2>1, <2>3 DEF GotProjectDetails, RowInv
    <3>2. pending' = pending \/ pending' = [pending EXCEPT ![i] = "none"]
      BY DEF GotProjectDetails, RemovePendingInvite
    <3> HIDE DEF i
    <3>3. \A j \in Invites :
            /\ answer'[j] = answer[j] \/ answer'[j] = "failed"
            /\ pending'[j] = pending[j] \/ pending'[j] = "none"
      BY <2>1, <3>1, <3>2 DEF TypeOK
    <3> QED
      BY <2>2, <2>3, <3>3 DEF RowInv, InFlight
  <2>4. CASE row' # row
    <3>1. /\ answer[i] = "awaiting" /\ ProjectOf[i] \notin row
          /\ row' = row \cup {ProjectOf[i]} /\ pending' = pending
          /\ answer' = [answer EXCEPT ![i] = "adding"]
      BY <2>4 DEF GotProjectDetails
    <3>2. \A j \in Invites : answer'[j] = IF j = i THEN "adding" ELSE answer[j]
      BY <2>1, <3>1 DEF TypeOK
    <3>3. \A j \in Invites : ProjectOf[j] = ProjectOf[i] /\ j # i =>
            answer[j] \notin InFlight \cup {"joined"}
      BY <2>1, <3>1 DEF OneAcceptPerProject, RowInv, InFlight
    <3> HIDE DEF i
    <3>4. ASSUME NEW j \in Invites
          PROVE  /\ answer'[j] \in {"sending", "awaiting"} => ProjectOf[j] \notin row'
                 /\ answer'[j] \in {"adding", "joined"} => ProjectOf[j] \in row'
      BY <2>1, <3>1, <3>2, <3>3 DEF RowInv, InFlight
    <3>5. ASSUME NEW j \in Invites, answer'[j] = "joined",
                 NEW k \in Invites, ProjectOf[k] = ProjectOf[j]
          PROVE  pending'[k] = "none" /\ answer'[k] \notin InFlight
      BY <2>1, <3>1, <3>2, <3>3, <3>5 DEF RowInv, InFlight
    <3>6. row' \subseteq granted'
      BY <2>1, <2>2, <3>1 DEF RowInv
    <3> QED
      BY <3>4, <3>5, <3>6 DEF RowInv
  <2> QED
    BY <2>3, <2>4
<1>3. CallInv'
  BY DEF CallInv, GotProjectDetails, RemovePendingInvite, InFlight, Consented, CallsAccepted, invitor, TypeOK
<1>4. OneAcceptPerProject'
  BY <1>0 DEF OneAcceptPerProject, InFlight
<1>5. OutcomeIsTheAnswer'
  BY <1>0 DEF OutcomeIsTheAnswer, Consented, InFlight
<1>6. MessageInv'
  <2>1. \A j \in Invites : News(j) => News(j)'
    BY <1>0 DEF News
  <2>2. Received(q, "details")
    BY DEF GotProjectDetails
  <2>3. QED
    BY <1>0, <2>1, <2>2, MessageReceived
<1>7. ResponseInv'
  BY ResponsesKept DEF GotProjectDetails, Consented, InFlight, TypeOK, invited, network, invitor
<1> QED
  BY <1>1, <1>2, <1>3, <1>4, <1>5, <1>6, <1>7

LEMMA InvitedRestartsStep ==
  ASSUME TypeOK, BookkeepingAgrees, InvitedRestarts
  PROVE  BookkeepingAgrees'
<1> USE DEF BookkeepingAgrees
<1>1. PendingInv'
  BY DEF PendingInv, InvitedRestarts, InFlight, Consented, CallsAccepted, invitor, TypeOK
<1>2. RowInv'
  BY DEF RowInv, InvitedRestarts, InFlight, Consented, CallsAccepted, invitor, TypeOK
<1>3. CallInv'
  BY DEF CallInv, InvitedRestarts, InFlight, Consented, CallsAccepted, invitor, TypeOK
<1>4. OneAcceptPerProject'
  BY DEF OneAcceptPerProject, InvitedRestarts, InFlight, Consented, CallsAccepted, invitor, TypeOK
<1>5. OutcomeIsTheAnswer'
  BY DEF OutcomeIsTheAnswer, InvitedRestarts, InFlight, Consented, CallsAccepted, invitor, TypeOK
<1>6. MessageInv'
  BY MessagesLost DEF InvitedRestarts, invitor
<1>7. ResponseInv'
  BY ClosedInv DEF InvitedRestarts, Consented, InFlight, TypeOK
<1> QED
  BY <1>1, <1>2, <1>3, <1>4, <1>5, <1>6, <1>7

-----------------------------------------------------------------------------
(***************************************************************************)
(* The theorems.                                                           *)
(***************************************************************************)
LEMMA InitBookkeeping == Init => BookkeepingAgrees
<1> SUFFICES ASSUME Init PROVE BookkeepingAgrees
  OBVIOUS
<1>1. PendingInv /\ RowInv /\ CallInv
  BY DEF Init, PendingInv, RowInv, CallInv
<1>2. MessageInv /\ ResponseInv
  BY DEF Init, MessageInv, ResponseInv
<1>3. OneAcceptPerProject /\ OutcomeIsTheAnswer
  BY DEF Init, OneAcceptPerProject, OutcomeIsTheAnswer, InFlight, CallsAccepted
<1> QED
  BY <1>1, <1>2, <1>3 DEF BookkeepingAgrees

LEMMA NextBookkeeping ==
  TypeOK /\ BookkeepingAgrees /\ [Next]_vars => BookkeepingAgrees'
<1> SUFFICES ASSUME TypeOK, BookkeepingAgrees, [Next]_vars
             PROVE  BookkeepingAgrees'
  OBVIOUS
<1>1. CASE \E i \in Invites : InvitorStep(i)
  BY <1>1, SendInviteStep, ThrowIfAbortedStep, HandleInviteResponseStep,
     AssignRoleStep, SendProjectJoinDetailsStep
  DEF InvitorStep
<1>2. CASE \E i \in Invites : InvitedStep(i)
  BY <1>2, SendAcceptStep, JoinedStep DEF InvitedStep
<1>3. CASE \E i \in Invites : User(i)
  BY <1>3, InviteStep, RequestCancelInviteStep, AcceptStep,
     AcceptExistingProjectStep, RejectStep
  DEF User
<1>4. CASE \E i \in Invites : Failure(i)
  BY <1>4, AssignRoleFailsStep, AddProjectFailsStep DEF Failure
<1>5. CASE \E q \in Peers : Deliver(q)
  BY <1>5, HandleInviteRpcMessageStep, HandleInviteCancelStep,
     GotProjectDetailsStep
  DEF Deliver
<1>6. CASE \E q \in Peers : Connect(q) \/ Disconnect(q) \/ InvitorRestarts(q)
  BY <1>6, ConnectStep, DisconnectStep, InvitorRestartsStep
<1>7. CASE InvitedRestarts
  BY <1>7, InvitedRestartsStep
<1>8. CASE UNCHANGED vars
  BY <1>8
  DEF vars, invited, invitor, network, BookkeepingAgrees, PendingInv, RowInv,
      CallInv, MessageInv, ResponseInv, News, OneAcceptPerProject,
      OutcomeIsTheAnswer
<1> QED
  BY <1>1, <1>2, <1>3, <1>4, <1>5, <1>6, <1>7, <1>8 DEF Next

\* The books of the invited device, of its invitors and the messages between
\* them agree at every moment: the invariant the other theorems rest on.
THEOREM BookkeepingCorrect == Spec => []BookkeepingAgrees
<1>1. Init => BookkeepingAgrees
  BY InitBookkeeping
<1>2. TypeOK /\ BookkeepingAgrees /\ [Next]_vars => BookkeepingAgrees'
  BY NextBookkeeping
<1> QED
  BY <1>1, <1>2, TypeCorrect, PTL DEF Spec

\* At most one accept() per project is under way (invite-api.js).
THEOREM OneAcceptCorrect == Spec => []OneAcceptPerProject
<1>1. BookkeepingAgrees => OneAcceptPerProject
  BY DEF BookkeepingAgrees
<1> QED
  BY <1>1, BookkeepingCorrect, PTL

\* invite() reports what the other user did (member-api.js).
THEOREM OutcomeCorrect == Spec => []OutcomeIsTheAnswer
<1>1. BookkeepingAgrees => OutcomeIsTheAnswer
  BY DEF BookkeepingAgrees
<1> QED
  BY <1>1, BookkeepingCorrect, PTL

\* After a join the project stays and no invite to it is pending.
THEOREM JoinedCorrect == Spec => []JoinedIsSettled
<1>1. BookkeepingAgrees => JoinedIsSettled
  BY DEF BookkeepingAgrees, RowInv, JoinedIsSettled, PendingFor
<1> QED
  BY <1>1, BookkeepingCorrect, PTL

-----------------------------------------------------------------------------
(***************************************************************************)
(* Invites implements Membership.                                          *)
(***************************************************************************)
ConsentedTo == {i \in Invites : answer[i] \in Consented}
Joining == {p \in Projects : \E i \in Invites : /\ ProjectOf[i] = p
                                                /\ answer[i] = "adding"}

\* A step that leaves answers, roles and keys alone.
LEMMA InvisibleStep ==
  ASSUME UNCHANGED <<answer, granted, row>>
  PROVE  UNCHANGED Promise!mvars
BY DEF Promise!mvars

\* An answer may move on from {from} without the promise showing it, as long
\* as it stays on its side of the user's consent and no join is concerned.
LEMMA AnswerStep ==
  ASSUME TypeOK, NEW i \in Invites, NEW result,
         answer' = [answer EXCEPT ![i] = result],
         answer[i] \in Consented <=> result \in Consented,
         answer[i] # "adding", result # "adding",
         UNCHANGED <<granted, row>>
  PROVE  UNCHANGED Promise!mvars
<1>1. \A j \in Invites : /\ answer'[j] \in Consented <=> answer[j] \in Consented
                         /\ answer'[j] = "adding" <=> answer[j] = "adding"
  BY DEF TypeOK
<1> QED
  BY <1>1 DEF Promise!mvars

LEMMA AcceptPromise ==
  ASSUME TypeOK, BookkeepingAgrees, NEW i \in Invites, Accept(i)
  PROVE  Promise!MNext
<1>1. answer[i] = "none" \/ answer[i] \in InFlight
  BY DEF Accept, BookkeepingAgrees, PendingInv, TypeOK
<1>2. \A j \in Invites : answer'[j] = IF j = i THEN "sending" ELSE answer[j]
  BY DEF Accept, TypeOK
<1>3. answer[i] # "adding"
  BY DEF Accept, BookkeepingAgrees, RowInv
<1>4. ConsentedTo' = ConsentedTo \cup {i}
  BY <1>2 DEF ConsentedTo, Consented, InFlight
<1>5. Joining' = Joining
  BY <1>2, <1>3 DEF Joining
<1>6. UNCHANGED <<granted, row>>
  BY DEF Accept, invitor
<1>7. Promise!Consent(i)
  BY <1>4, <1>5, <1>6 DEF Promise!Consent, ConsentedTo, Joining
<1> QED
  BY <1>7 DEF Promise!MNext

LEMMA AssignRolePromise ==
  ASSUME TypeOK, BookkeepingAgrees, NEW i \in Invites, AssignRole(i)
  PROVE  Promise!MNext
<1>1. answer[i] \in Consented
  BY DEF AssignRole, BookkeepingAgrees, OutcomeIsTheAnswer, CallsAccepted
<1>2. Promise!Grant(i)
  BY <1>1 DEF AssignRole, invited, Promise!Grant
<1> QED
  BY <1>2 DEF Promise!MNext

LEMMA DetailsPromise ==
  ASSUME TypeOK, BookkeepingAgrees, NEW q \in Peers, GotProjectDetails(q)
  PROVE  Promise!MNext \/ UNCHANGED Promise!mvars
<1> DEFINE i == Head(toInvited[q]).id
<1>1. i \in Invites /\ ProjectOf[i] \in granted
  <2>1. Received(q, "details")
    BY DEF GotProjectDetails
  <2>2. /\ i \in Invites /\ 1 \in 1 .. Len(toInvited[q])
        /\ toInvited[q][1] = Msg("details", i)
    BY <2>1, HeadMessage
  <2> HIDE DEF i
  <2> QED
    BY <2>2 DEF BookkeepingAgrees, MessageInv
<1>2. granted' = granted
  BY DEF GotProjectDetails, invitor
<1>3. \/ answer' = answer /\ row' = row
      \/ /\ answer[i] = "awaiting" /\ row' = row
         /\ answer' = [answer EXCEPT ![i] = "failed"]
      \/ /\ answer[i] = "awaiting"
         /\ ProjectOf[i] \notin row
         /\ answer' = [answer EXCEPT ![i] = "adding"]
         /\ row' = row \cup {ProjectOf[i]}
  BY DEF GotProjectDetails
<1> HIDE DEF i
<1>4. CASE answer' = answer /\ row' = row
  BY <1>2, <1>4, InvisibleStep
<1>5. CASE /\ answer[i] = "awaiting" /\ row' = row
           /\ answer' = [answer EXCEPT ![i] = "failed"]
  BY <1>1, <1>2, <1>5, AnswerStep DEF Consented, InFlight
<1>6. CASE /\ answer[i] = "awaiting"
           /\ ProjectOf[i] \notin row
           /\ answer' = [answer EXCEPT ![i] = "adding"]
           /\ row' = row \cup {ProjectOf[i]}
  <2>1. \A j \in Invites : answer'[j] = IF j = i THEN "adding" ELSE answer[j]
    BY <1>1, <1>6 DEF TypeOK
  <2>2. ConsentedTo' = ConsentedTo /\ i \in ConsentedTo
    BY <1>1, <1>6, <2>1 DEF ConsentedTo, Consented, InFlight
  <2>3. Joining' = Joining \cup {ProjectOf[i]}
    BY <1>1, <1>6, <2>1 DEF Joining
  <2>4. Promise!Join(i)
    BY <1>1, <1>2, <1>6, <2>2, <2>3 DEF Promise!Join, ConsentedTo, Joining
  <2>5. \E j \in Invites : Promise!Join(j)
    BY <1>1, <2>4 DEF Promise!Join
  <2> QED
    BY <2>5 DEF Promise!MNext
<1> QED
  BY <1>3, <1>4, <1>5, <1>6

LEMMA JoinedPromise ==
  ASSUME TypeOK, BookkeepingAgrees, NEW i \in Invites, Joined(i)
  PROVE  Promise!MNext
<1>1. \A j \in Invites : answer'[j] = IF j = i THEN "joined" ELSE answer[j]
  BY DEF Joined, TypeOK
<1>2. answer[i] = "adding" /\ UNCHANGED <<granted, row>>
  BY DEF Joined, invitor
<1>3. ConsentedTo' = ConsentedTo
  BY <1>1, <1>2 DEF ConsentedTo, Consented, InFlight
<1>4. Joining' \in SUBSET Joining
  BY <1>1 DEF Joining
<1>5. Promise!Settle
  BY <1>2, <1>3, <1>4 DEF Promise!Settle, ConsentedTo, Joining
<1> QED
  BY <1>5 DEF Promise!MNext

LEMMA AddProjectFailsPromise ==
  ASSUME TypeOK, BookkeepingAgrees, NEW i \in Invites, AddProjectFails(i)
  PROVE  Promise!MNext
<1>1. \A j \in Invites : answer'[j] = IF j = i THEN "failed" ELSE answer[j]
  BY DEF AddProjectFails, TypeOK
<1>2. /\ answer[i] = "adding" /\ granted' = granted
      /\ row' = row \ {ProjectOf[i]}
  BY DEF AddProjectFails, invitor
<1>3. ConsentedTo' = ConsentedTo
  BY <1>1, <1>2 DEF ConsentedTo, Consented, InFlight
<1>4. Joining' = Joining \ {ProjectOf[i]} /\ ProjectOf[i] \in Joining
  BY <1>1, <1>2 DEF Joining, BookkeepingAgrees, OneAcceptPerProject, InFlight
<1>5. Promise!GiveUp(ProjectOf[i])
  BY <1>2, <1>3, <1>4 DEF Promise!GiveUp, ConsentedTo, Joining
<1> QED
  BY <1>5 DEF Promise!MNext

LEMMA InvitedRestartsPromise ==
  ASSUME TypeOK, InvitedRestarts
  PROVE  Promise!MNext
<1>1. \A j \in Invites :
        answer'[j] = IF answer[j] \in InFlight THEN "lost" ELSE answer[j]
  BY DEF InvitedRestarts
<1>2. UNCHANGED <<granted, row>>
  BY DEF InvitedRestarts, invitor
<1>3. ConsentedTo' = ConsentedTo
  BY <1>1 DEF ConsentedTo, Consented, InFlight
<1>4. Joining' \in SUBSET Joining
  BY <1>1 DEF Joining, InFlight
<1>5. Promise!Settle
  BY <1>2, <1>3, <1>4 DEF Promise!Settle, ConsentedTo, Joining
<1> QED
  BY <1>5 DEF Promise!MNext

LEMMA UserPromise ==
  ASSUME TypeOK, BookkeepingAgrees, NEW i \in Invites, User(i)
  PROVE  Promise!MNext \/ UNCHANGED Promise!mvars
<1>1. CASE Invite(i) \/ RequestCancelInvite(i)
  BY <1>1, InvisibleStep DEF Invite, RequestCancelInvite, invited
<1>2. CASE Accept(i)
  BY <1>2, AcceptPromise
<1>3. CASE AcceptExistingProject(i)
  <2>1. answer' = [answer EXCEPT ![i] = IF answer[i] = "none" THEN "already"
                                                              ELSE answer[i]]
        /\ UNCHANGED <<granted, row>>
    BY <1>3 DEF AcceptExistingProject, invitor
  <2>2. CASE answer[i] = "none"
    BY <2>1, <2>2, AnswerStep DEF Consented, InFlight
  <2>3. CASE answer[i] # "none"
    BY <2>1, <2>3, InvisibleStep DEF TypeOK
  <2> QED
    BY <2>2, <2>3
<1>4. CASE Reject(i)
  <2>1. answer[i] = "none"
    BY <1>4 DEF Reject, BookkeepingAgrees, PendingInv
  <2> QED
    BY <1>4, <2>1, AnswerStep DEF Reject, Consented, InFlight, invitor
<1> QED
  BY <1>1, <1>2, <1>3, <1>4 DEF User

\* Whatever cancellations, refusals, restarts and lost messages cross: a role
\* needs the user's consent, keys need a role, and only a join that has not
\* ended can take them away (invite-api.js, member-api.js, mapeo-manager.js).
THEOREM MembershipRefined == Spec => RefinesMembership
<1>1. Init => Promise!MInit
  BY DEF Init, Promise!MInit, Consented, InFlight
<1>2. TypeOK /\ BookkeepingAgrees /\ [Next]_vars
        => [Promise!MNext]_(Promise!mvars)
  <2> SUFFICES ASSUME TypeOK, BookkeepingAgrees, [Next]_vars
               PROVE  Promise!MNext \/ UNCHANGED Promise!mvars
    OBVIOUS
  <2>1. ASSUME NEW i \in Invites, InvitorStep(i)
        PROVE  Promise!MNext \/ UNCHANGED Promise!mvars
    <3>1. CASE AssignRole(i)
      BY <3>1, AssignRolePromise
    <3>2. CASE ~AssignRole(i)
      BY <2>1, <3>2, InvisibleStep
      DEF InvitorStep, SendInvite, ThrowIfAborted, HandleInviteResponse,
          SendProjectJoinDetails, invited
    <3> QED
      BY <3>1, <3>2
  <2>2. ASSUME NEW i \in Invites, SendAccept(i)
        PROVE  UNCHANGED Promise!mvars
    <3>1. /\ answer[i] = "sending" /\ UNCHANGED <<granted, row>>
          /\ \/ answer' = [answer EXCEPT ![i] = "awaiting"]
             \/ answer' = [answer EXCEPT ![i] = "failed"]
      BY <2>2 DEF SendAccept, invitor
    <3> QED
      BY <3>1, AnswerStep DEF Consented, InFlight
  <2>3. ASSUME NEW i \in Invites, Joined(i) PROVE Promise!MNext
    BY <2>3, JoinedPromise
  <2>4. ASSUME NEW i \in Invites, User(i)
        PROVE  Promise!MNext \/ UNCHANGED Promise!mvars
    BY <2>4, UserPromise
  <2>5. ASSUME NEW i \in Invites, AssignRoleFails(i)
        PROVE  UNCHANGED Promise!mvars
    BY <2>5, InvisibleStep DEF AssignRoleFails, invited
  <2>6. ASSUME NEW i \in Invites, AddProjectFails(i) PROVE Promise!MNext
    BY <2>6, AddProjectFailsPromise
  <2>7. ASSUME NEW q \in Peers, Deliver(q)
        PROVE  Promise!MNext \/ UNCHANGED Promise!mvars
    <3>1. CASE GotProjectDetails(q)
      BY <3>1, DetailsPromise
    <3>2. CASE ~GotProjectDetails(q)
      BY <2>7, <3>2, InvisibleStep
      DEF Deliver, HandleInviteRpcMessage, HandleInviteCancel, invitor
    <3> QED
      BY <3>1, <3>2
  <2>8. ASSUME NEW q \in Peers, Connect(q) \/ Disconnect(q) \/ InvitorRestarts(q)
        PROVE  UNCHANGED Promise!mvars
    BY <2>8, InvisibleStep
    DEF Connect, Disconnect, InvitorRestarts, invited, invitor
  <2>9. CASE InvitedRestarts
    BY <2>9, InvitedRestartsPromise
  <2>10. CASE UNCHANGED vars
    BY <2>10, InvisibleStep DEF vars, invited, invitor
  <2> QED
    BY <2>1, <2>2, <2>3, <2>4, <2>5, <2>6, <2>7, <2>8, <2>9, <2>10
    DEF Next, InvitedStep, Failure
<1> QED
  BY <1>1, <1>2, TypeCorrect, BookkeepingCorrect, PTL
  DEF Spec, RefinesMembership, Promise!MSpec
=============================================================================
