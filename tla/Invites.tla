------------------------------- MODULE Invites -------------------------------
(***************************************************************************)
(* Inviting a device to projects: the InviteApi of the invited device      *)
(* (src/src/invite-api.js), the MemberApi of every device that invites it  *)
(* (src/src/member-api.js, one per peer and project), the part of          *)
(* MapeoManager that adds a project (src/src/mapeo-manager.js) and the     *)
(* messages LocalPeers carries between them (src/src/local-peers.js).      *)
(*                                                                         *)
(* An invite ID is random and used by one invite() call, so the call is    *)
(* named by its ID.  Between two awaits the code runs without              *)
(* interleaving: each action is one such stretch.                          *)
(*                                                                         *)
(* A definition commented as a mutant is part of no specification: it is   *)
(* the action after it with a plausible mistake, which one of the          *)
(* properties must notice.                                                 *)
(***************************************************************************)
EXTENDS Integers, Sequences, FiniteSets

CONSTANTS Peers,      \* devices that may invite this one
          Projects,
          Invites,    \* invite IDs
          PeerOf,     \* [Invites -> Peers]: who sends it
          ProjectOf,  \* [Invites -> Projects]
          None,       \* no invite
          Env         \* the events outside the protocol that may happen

\* what the users and the world may do besides
EnvEvents == {"cancel", "disconnect", "assignFails", "addFails",
              "invitedRestarts", "invitorRestarts"}

ASSUME InvitesAssumption ==
  /\ PeerOf \in [Invites -> Peers]
  /\ ProjectOf \in [Invites -> Projects]
  /\ None \notin Invites
  /\ Env \subseteq EnvEvents

VARIABLES
  \* the invited device
  pending,    \* PendingInvites, by invite ID
  answer,     \* what became of the user's answer to an invite
  events,     \* 'invite-received' and 'invite-removed' events since start
  row,        \* projects in the projectKeys table
  active,     \* projects in MapeoManager's activeProjects
  \* the inviting devices
  call,       \* the invite() call of each ID
  outbound,   \* MemberApi's outboundInvitesByDevice, for the invited device
  granted,    \* projects in which the invited device has a role
  \* connections
  conn, toInvited, responses

invited == <<pending, answer, events, row, active>>
invitor == <<call, outbound, granted>>
network == <<conn, toInvited, responses>>
vars == <<invited, invitor, network>>

Slots == Peers \X Projects
Slot(i) == <<PeerOf[i], ProjectOf[i]>>

Decisions == {"ACCEPT", "REJECT", "ALREADY"}
Message == [type : {"invite", "cancel", "details"}, id : Invites]
Msg(type, i) == [type |-> type, id |-> i]

InFlight == {"sending", "awaiting", "adding"}      \* stages of accept()
Answers == {"none", "joined", "already", "failed", "rejected", "lost"}
             \cup InFlight
\* the answers that began with the user accepting the invite
Consented == InFlight \cup {"joined", "failed", "lost"}

CallsRunning == {"preparing", "aborting", "waiting", "assigning", "sharing"}
Calls == {"idle", "accepted", "rejected", "already", "aborted", "failed",
          "lost"} \cup CallsRunning
\* the calls that got an ACCEPT and did not fail on it
CallsAccepted == {"assigning", "sharing", "accepted"}

Reasons == {"accepted", "rejected", "canceled", "accepted other",
            "connection error", "internal error"}

TypeOK ==
  /\ pending \in [Invites -> {"none", "pending", "accepting"}]
  /\ answer \in [Invites -> Answers]
  /\ events \in [Invites -> Seq({"invite-received"} \cup Reasons)]
  /\ row \in SUBSET Projects
  /\ active \in SUBSET Projects
  /\ call \in [Invites -> Calls]
  /\ outbound \in [Slots -> Invites \cup {None}]
  /\ granted \in SUBSET Projects
  /\ conn \in [Peers -> BOOLEAN]
  /\ toInvited \in [Peers -> Seq(Message)]
  /\ responses \in [Invites -> Seq(Decisions)]

\* The device may be a member of some projects already; it holds the keys of
\* no project it has no role in.
Init ==
  /\ pending = [i \in Invites |-> "none"]
  /\ answer = [i \in Invites |-> "none"]
  /\ events = [i \in Invites |-> <<>>]
  /\ granted \in SUBSET Projects
  /\ row = granted
  /\ active = {}
  /\ call = [i \in Invites |-> "idle"]
  /\ outbound = [s \in Slots |-> None]
  /\ conn = [q \in Peers |-> TRUE]
  /\ toInvited = [q \in Peers |-> <<>>]
  /\ responses = [i \in Invites |-> <<>>]

-----------------------------------------------------------------------------
(***************************************************************************)
(* Messages.  A message to a peer that is not connected is not sent; one   *)
(* that is under way when the connection drops is lost.  Messages of one   *)
(* connection keep their order.  A response is filtered by its invite ID,  *)
(* so only the order of the responses to one invite can be observed.       *)
(***************************************************************************)
Send(q, m) ==
  toInvited' = IF conn[q] THEN [toInvited EXCEPT ![q] = Append(@, m)]
                          ELSE toInvited

\* sendInviteResponse(...).catch(noop), for each of the invites in S
Respond(S, decision) ==
  responses' = [i \in Invites |->
                  IF i \in S /\ conn[PeerOf[i]]
                    THEN Append(responses[i], decision) ELSE responses[i]]

Received(q, type) == /\ toInvited[q] # <<>>
                     /\ Head(toInvited[q]).type = type
                     /\ toInvited' = [toInvited EXCEPT ![q] = Tail(@)]

CloseConnections(Q) ==
  /\ conn' = [q \in Peers |-> IF q \in Q THEN FALSE ELSE conn[q]]
  /\ toInvited' = [q \in Peers |-> IF q \in Q THEN <<>> ELSE toInvited[q]]
  /\ responses' = [i \in Invites |->
                     IF PeerOf[i] \in Q THEN <<>> ELSE responses[i]]

Connect(q) == /\ ~conn[q]
              /\ conn' = [conn EXCEPT ![q] = TRUE]
              /\ UNCHANGED <<invited, invitor, toInvited, responses>>

Disconnect(q) == /\ "disconnect" \in Env
                 /\ conn[q]
                 /\ CloseConnections({q})
                 /\ UNCHANGED <<invited, invitor>>

-----------------------------------------------------------------------------
(***************************************************************************)
(* MemberApi.invite() and requestCancelInvite().                           *)
(***************************************************************************)
\* The entry of outboundInvitesByDevice is deleted by device, whichever
\* call it belongs to.
ClearOutbound(i) == outbound' = [outbound EXCEPT ![Slot(i)] = None]

EndCall(i, result) == /\ call' = [call EXCEPT ![i] = result]
                      /\ ClearOutbound(i)

Invite(i) ==
  /\ call[i] = "idle"
  /\ outbound[Slot(i)] = None        \* 'Already inviting this device ID'
  /\ outbound' = [outbound EXCEPT ![Slot(i)] = i]
  /\ call' = [call EXCEPT ![i] = "preparing"]
  /\ UNCHANGED <<invited, granted, network>>

\* The own name and the project name have been read: send the invite, unless
\* the call was aborted meanwhile or the peer is gone.
SendInvite(i) ==
  /\ call[i] = "preparing"
  /\ IF conn[PeerOf[i]]
       THEN call' = [call EXCEPT ![i] = "waiting"] /\ UNCHANGED outbound
       ELSE EndCall(i, "failed")
  /\ Send(PeerOf[i], Msg("invite", i))
  /\ UNCHANGED <<invited, granted, conn, responses>>

ThrowIfAborted(i) == /\ call[i] = "aborting"
                     /\ EndCall(i, "aborted")
                     /\ UNCHANGED <<invited, granted, network>>

\* Aborts the call the entry belongs to; once the invite is out, its abort
\* listener sends the cancellation and its wait for a response ends.
RequestCancelInvite(i) ==
  /\ "cancel" \in Env
  /\ outbound[Slot(i)] = i
  /\ \/ /\ call[i] = "preparing"
        /\ call' = [call EXCEPT ![i] = "aborting"]
        /\ UNCHANGED <<outbound, toInvited>>
     \/ /\ call[i] = "waiting"
        /\ Send(PeerOf[i], Msg("cancel", i))
        /\ EndCall(i, "aborted")
  /\ UNCHANGED <<invited, granted, conn, responses>>

\* The first response to an invite that is being waited for ends the wait.
\* From then on the call has no entry, although it goes on if it is ACCEPT.  Any
\* decision but ACCEPT and ALREADY counts as REJECT, as one that is unspecified
\* or not recognized would; this version sends no such one.
HandleInviteResponse(i) ==
  /\ responses[i] # <<>>
  /\ responses' = [responses EXCEPT ![i] = Tail(@)]
  /\ IF call[i] = "waiting"
       THEN EndCall(i, IF Head(responses[i]) = "ACCEPT" THEN "assigning" ELSE
                       IF Head(responses[i]) = "ALREADY" THEN "already"
                                                         ELSE "rejected")
       ELSE UNCHANGED <<call, outbound>>
  /\ UNCHANGED <<invited, granted, conn, toInvited>>

\* Mutant: the call ends with the role, and sends no details.
AssignRoleOnly(i) == /\ call[i] = "assigning"
                     /\ EndCall(i, "accepted")
                     /\ granted' = granted \cup {ProjectOf[i]}
                     /\ UNCHANGED <<invited, network>>

AssignRole(i) ==
  /\ call[i] = "assigning"
  /\ call' = [call EXCEPT ![i] = "sharing"]
  /\ granted' = granted \cup {ProjectOf[i]}
  /\ UNCHANGED <<invited, outbound, network>>

\* roles.assignRole() throws; the finally block runs.
AssignRoleFails(i) == /\ "assignFails" \in Env
                      /\ call[i] = "assigning"
                      /\ EndCall(i, "failed")
                      /\ UNCHANGED <<invited, granted, network>>

\* Mutants: the details go out before the role is assigned, or not at all.
SendProjectJoinDetailsFirst(i) ==
  /\ call[i] = "assigning"
  /\ Send(PeerOf[i], Msg("details", i))
  /\ EndCall(i, IF conn[PeerOf[i]] THEN "accepted" ELSE "failed")
  /\ UNCHANGED <<invited, granted, conn, responses>>

SendNoProjectJoinDetails(i) ==
  /\ call[i] = "sharing"
  /\ EndCall(i, IF conn[PeerOf[i]] THEN "accepted" ELSE "failed")
  /\ UNCHANGED <<invited, granted, network>>

SendProjectJoinDetails(i) ==
  /\ call[i] = "sharing"
  /\ Send(PeerOf[i], Msg("details", i))
  /\ EndCall(i, IF conn[PeerOf[i]] THEN "accepted" ELSE "failed")
  /\ UNCHANGED <<invited, granted, conn, responses>>

InvitorRestarts(q) ==
  LET mine == {i \in Invites : PeerOf[i] = q}
  IN  /\ "invitorRestarts" \in Env
      /\ call' = [i \in Invites |->
                    IF i \in mine /\ call[i] \in CallsRunning THEN "lost"
                                                              ELSE call[i]]
      /\ outbound' = [s \in Slots |-> IF s[1] = q THEN None ELSE outbound[s]]
      /\ CloseConnections({q})
      /\ UNCHANGED <<invited, granted>>

-----------------------------------------------------------------------------
(***************************************************************************)
(* InviteApi, and MapeoManager.addProject() which it calls.                *)
(***************************************************************************)
Emit(i, event) == [events EXCEPT ![i] = Append(@, event)]

\* deleteByInviteId, and 'invite-removed' only if there was one to delete
RemovePendingInvite(i, reason) ==
  /\ pending' = [pending EXCEPT ![i] = "none"]
  /\ events' = IF pending[i] # "none" THEN Emit(i, reason) ELSE events

PendingFor(p) == {i \in Invites : pending[i] # "none" /\ ProjectOf[i] = p}

\* Mutant: only the invite being accepted is deleted.
DeleteAcceptingByProject(p) ==
  pending' = [i \in Invites |->
                IF ProjectOf[i] = p /\ pending[i] = "accepting" THEN "none"
                                                               ELSE pending[i]]

\* deleteByProjectInviteId
DeleteByProject(p) ==
  pending' = [i \in Invites |-> IF ProjectOf[i] = p THEN "none" ELSE pending[i]]

IsAcceptingForProject(p) ==
  \E i \in Invites : pending[i] = "accepting" /\ ProjectOf[i] = p

HandleInviteRpcMessage(q) ==
  LET i == Head(toInvited[q]).id
      isAlreadyMember == ProjectOf[i] \in row
  IN  /\ Received(q, "invite")
      /\ Respond(IF isAlreadyMember THEN {i} ELSE {}, "ALREADY")
      /\ IF isAlreadyMember \/ pending[i] # "none"
           THEN UNCHANGED <<pending, events>>
           ELSE /\ pending' = [pending EXCEPT ![i] = "pending"]
                /\ events' = Emit(i, "invite-received")
      /\ UNCHANGED <<answer, row, active, invitor, conn>>

\* Ignored once the invite is being accepted.
HandleInviteCancel(q) ==
  LET i == Head(toInvited[q]).id
  IN  /\ Received(q, "cancel")
      /\ IF pending[i] = "pending"
           THEN RemovePendingInvite(i, "canceled")
           ELSE UNCHANGED <<pending, events>>
      /\ UNCHANGED <<answer, row, active, invitor, conn, responses>>

\* Mutant: only a second accept() of the same invite is refused.
AcceptSameInviteOnce(i) ==
  /\ pending[i] = "pending"
  /\ ProjectOf[i] \notin row
  /\ pending' = [pending EXCEPT ![i] = "accepting"]
  /\ answer' = [answer EXCEPT ![i] = "sending"]
  /\ UNCHANGED <<events, row, active, invitor, network>>

\* accept(), up to its first await
Accept(i) ==
  /\ pending[i] # "none"
  /\ ProjectOf[i] \notin row
  /\ ~IsAcceptingForProject(ProjectOf[i])     \* 'Cannot double-accept invite'
  /\ pending' = [pending EXCEPT ![i] = "accepting"]
  /\ answer' = [answer EXCEPT ![i] = "sending"]
  /\ UNCHANGED <<events, row, active, invitor, network>>

\* accept() of a project whose keys are in the table: it ends at once, and
\* every pending invite to the project with it, this one's included.
AcceptExistingProject(i) ==
  LET p == ProjectOf[i]
  IN  /\ pending[i] # "none"
      /\ p \in row
      /\ DeleteByProject(p)
      /\ Respond(PendingFor(p), "ALREADY")
      /\ events' = [j \in Invites |-> IF j \in PendingFor(p)
                                        THEN Append(events[j], "accepted")
                                        ELSE events[j]]
      /\ answer' = [answer EXCEPT ![i] = IF @ = "none" THEN "already" ELSE @]
      /\ UNCHANGED <<row, active, invitor, conn, toInvited>>

\* sendInviteResponse(ACCEPT); accept() throws if the peer is not connected.
SendAccept(i) ==
  /\ answer[i] = "sending"
  /\ Respond({i}, "ACCEPT")
  /\ IF conn[PeerOf[i]]
       THEN /\ answer' = [answer EXCEPT ![i] = "awaiting"]
            /\ UNCHANGED <<pending, events>>
       ELSE /\ answer' = [answer EXCEPT ![i] = "failed"]
            /\ RemovePendingInvite(i, "connection error")
  /\ UNCHANGED <<row, active, invitor, conn, toInvited>>

\* The details reach the accept() that waits for them, and nobody else.
\* addProject() refuses a project it knows, or else saves the keys and opens
\* the project in the same stretch.
GotProjectDetails(q) ==
  LET i == Head(toInvited[q]).id
      p == ProjectOf[i]
  IN  /\ Received(q, "details")
      /\ \/ /\ answer[i] # "awaiting"
            /\ UNCHANGED <<answer, row, pending, events>>
         \/ /\ answer[i] = "awaiting"
            /\ p \in active \cup row               \* 'already exists'
            /\ answer' = [answer EXCEPT ![i] = "failed"]
            /\ RemovePendingInvite(i, "internal error")
            /\ UNCHANGED row
         \/ /\ answer[i] = "awaiting"
            /\ p \notin active \cup row
            /\ answer' = [answer EXCEPT ![i] = "adding"]
            /\ row' = row \cup {p}
            /\ UNCHANGED <<pending, events>>
      /\ UNCHANGED <<active, invitor, conn, responses>>

\* Mutant: the other invitors are not told.
JoinedInSilence(i) ==
  LET p == ProjectOf[i]
  IN  /\ answer[i] = "adding"
      /\ answer' = [answer EXCEPT ![i] = "joined"]
      /\ active' = active \cup {p}
      /\ DeleteByProject(p)
      /\ events' = [j \in Invites |->
                      IF j \in PendingFor(p) \ {i}
                        THEN Append(events[j], "accepted other")
                      ELSE IF j = i THEN Append(events[j], "accepted")
                      ELSE events[j]]
      /\ UNCHANGED <<row, invitor, network>>

\* The project is open and synced: accept() removes the invites to it and
\* tells the other invitors.
Joined(i) ==
  LET p == ProjectOf[i]
      others == PendingFor(p) \ {i}
  IN  /\ answer[i] = "adding"
      /\ answer' = [answer EXCEPT ![i] = "joined"]
      /\ active' = active \cup {p}
      /\ DeleteByProject(p)
      /\ Respond(others, "ALREADY")
      /\ events' = [j \in Invites |->
                      IF j \in others THEN Append(events[j], "accepted other")
                      ELSE IF j = i THEN Append(events[j], "accepted")
                      ELSE events[j]]
      /\ UNCHANGED <<row, invitor, conn, toInvited>>

\* The project cannot be opened, or it does not sync: its keys are deleted.
\* In the second case it stays among the active projects.
AddProjectFails(i) ==
  /\ "addFails" \in Env
  /\ answer[i] = "adding"
  /\ answer' = [answer EXCEPT ![i] = "failed"]
  /\ row' = row \ {ProjectOf[i]}
  /\ active' \in {active, active \cup {ProjectOf[i]}}
  /\ RemovePendingInvite(i, "internal error")
  /\ UNCHANGED <<invitor, network>>

\* Mutant: an invite that is being accepted can still be rejected.
RejectAccepting(i) ==
  /\ pending[i] # "none"
  /\ Respond({i}, "REJECT")
  /\ RemovePendingInvite(i, "rejected")
  /\ answer' = [answer EXCEPT ![i] = "rejected"]
  /\ UNCHANGED <<row, active, invitor, conn, toInvited>>

Reject(i) ==
  /\ pending[i] = "pending"
  /\ Respond({i}, "REJECT")
  /\ RemovePendingInvite(i, "rejected")
  /\ answer' = [answer EXCEPT ![i] = "rejected"]
  /\ UNCHANGED <<row, active, invitor, conn, toInvited>>

\* Pending invites are kept in memory only; the keys of projects on disk.
InvitedRestarts ==
  /\ "invitedRestarts" \in Env
  /\ pending' = [i \in Invites |-> "none"]
  /\ answer' = [i \in Invites |->
                  IF answer[i] \in InFlight THEN "lost" ELSE answer[i]]
  /\ events' = [i \in Invites |-> <<>>]
  /\ active' = {}
  /\ CloseConnections(Peers)
  /\ UNCHANGED <<row, invitor>>

-----------------------------------------------------------------------------
InvitorStep(i) == \/ SendInvite(i)
                  \/ ThrowIfAborted(i)
                  \/ HandleInviteResponse(i)
                  \/ AssignRole(i)
                  \/ SendProjectJoinDetails(i)

InvitedStep(i) == SendAccept(i) \/ Joined(i)

Deliver(q) == \/ HandleInviteRpcMessage(q)
              \/ HandleInviteCancel(q)
              \/ GotProjectDetails(q)

\* What the two users do.
User(i) == \/ Invite(i)
           \/ RequestCancelInvite(i)
           \/ Accept(i)
           \/ AcceptExistingProject(i)
           \/ Reject(i)

Failure(i) == AssignRoleFails(i) \/ AddProjectFails(i)

Next == \/ \E i \in Invites : \/ InvitorStep(i)
                              \/ InvitedStep(i)
                              \/ User(i)
                              \/ Failure(i)
        \/ \E q \in Peers : \/ Deliver(q)
                            \/ Connect(q)
                            \/ Disconnect(q)
                            \/ InvitorRestarts(q)
        \/ InvitedRestarts

Spec == Init /\ [][Next]_vars

\* The programs keep running their own steps and connections deliver; users
\* and failures owe nothing.
Fairness == /\ \A i \in Invites : /\ WF_vars(InvitorStep(i))
                                  /\ WF_vars(InvitedStep(i))
            /\ \A q \in Peers : WF_vars(Deliver(q))

FairSpec == Spec /\ Fairness

-----------------------------------------------------------------------------
(***************************************************************************)
(* Properties.                                                             *)
(***************************************************************************)
\* The invites implement Membership: nobody gets a role by an invite the user
\* did not accept, whatever cancellations, refusals and lost messages cross;
\* the keys of a project arrive only after the role was assigned; and only a
\* join that has not ended can take them away again (the order of assignRole
\* and sendProjectJoinDetails, and the cleanup in addProject).
Promise == INSTANCE Membership
             WITH consented <- {i \in Invites : answer[i] \in Consented},
                  member    <- row,
                  tentative <- {p \in Projects :
                                  \E i \in Invites : /\ ProjectOf[i] = p
                                                     /\ answer[i] = "adding"}

RefinesMembership == Promise!MSpec

\* For one project at most one accept() is under way, however the answers,
\* the messages and the failures interleave: isAcceptingForProject and the
\* projectKeys table take turns in guarding it.
OneAcceptPerProject ==
  \A i, j \in Invites :
    /\ answer[i] \in InFlight
    /\ answer[j] \in InFlight
    /\ ProjectOf[i] = ProjectOf[j]
    => i = j

\* Once an accept() has joined a project, its keys stay, and no invite to it
\* is pending, then or later: a late invite is answered ALREADY.
JoinedIsSettled ==
  \A i \in Invites : answer[i] = "joined" =>
    ProjectOf[i] \in row /\ PendingFor(ProjectOf[i]) = {}

\* invite() reports what the user of the other device did: REJECT only when
\* the invite was rejected, a role only when it was accepted.
OutcomeIsTheAnswer ==
  \A i \in Invites : /\ call[i] = "rejected" => answer[i] = "rejected"
                     /\ call[i] \in CallsAccepted => answer[i] \in Consented

-----------------------------------------------------------------------------
(***************************************************************************)
(* The inductive invariant of the proofs (InvitesProofs), by parts.        *)
(***************************************************************************)
\* An invite is pending until it is answered, and accepting as long as its
\* accept() has not got the project details.
PendingInv ==
  \A i \in Invites :
    /\ pending[i] = "pending" => answer[i] = "none"
    /\ pending[i] = "accepting" => answer[i] \in InFlight
    /\ answer[i] \in {"sending", "awaiting"} => pending[i] = "accepting"

\* The keys of a project are in the table from the moment accept() has the
\* details; accept() does not start on a project whose keys are there.
RowInv ==
  /\ row \subseteq granted
  /\ \A i \in Invites :
       /\ answer[i] \in {"sending", "awaiting"} => ProjectOf[i] \notin row
       /\ answer[i] \in {"adding", "joined"} => ProjectOf[i] \in row
       /\ answer[i] = "joined" =>
            \A j \in Invites : ProjectOf[j] = ProjectOf[i] =>
              pending[j] = "none" /\ answer[j] \notin InFlight

\* A call does what its invite was answered, and nothing can be known of an
\* invite before it is sent.
CallInv ==
  \A i \in Invites :
    /\ call[i] \in {"idle", "preparing", "aborting"} =>
         answer[i] = "none" /\ pending[i] = "none"
    /\ call[i] \in {"sharing", "accepted"} => ProjectOf[i] \in granted

\* An invite that was sent and has not been taken up by its receiver.
News(i) == /\ call[i] \notin {"idle", "preparing", "aborting"}
           /\ answer[i] = "none"
           /\ pending[i] = "none"

\* An invite that is under way is news to its receiver and is under way once;
\* details are sent to members only.
MessageInv ==
  \A q \in Peers, i \in Invites : \A k \in 1 .. Len(toInvited[q]) :
    /\ toInvited[q][k] = Msg("invite", i) =>
         /\ PeerOf[i] = q
         /\ News(i)
         /\ \A l \in 1 .. Len(toInvited[q]) :
              l # k => toInvited[q][l] # Msg("invite", i)
    /\ toInvited[q][k] = Msg("details", i) => ProjectOf[i] \in granted

ResponseInv ==
  \A i \in Invites : \A k \in 1 .. Len(responses[i]) :
    /\ responses[i][k] = "ACCEPT" => answer[i] \in Consented
    /\ responses[i][k] = "REJECT" => answer[i] = "rejected"

\* No invite is taken up twice: the bookkeeping of both sides (PendingInvites,
\* the projectKeys table, the calls) and the messages under way agree.
BookkeepingAgrees ==
  /\ PendingInv /\ RowInv /\ CallInv /\ MessageInv /\ ResponseInv
  /\ OneAcceptPerProject /\ OutcomeIsTheAnswer

-----------------------------------------------------------------------------
\* Members that are not hindered go through with it: an accepted invite ends
\* with its accept() resolved or rejected.
AcceptEnds ==
  \A i \in Invites : answer[i] \in InFlight ~> answer[i] \notin InFlight

\* A running invite() ends, unless it is up to the user of the other device:
\* whichever way an invite stops being pending, its invitor hears of it.
InviteEnds ==
  \A i \in Invites :
    call[i] \in CallsRunning /\ pending[i] # "pending"
      ~> call[i] \notin CallsRunning \/ pending[i] = "pending"

\* A role given through an invite brings the device into the project.
RoleBringsMembership ==
  \A i \in Invites :
    call[i] \in CallsAccepted ~> ProjectOf[i] \in row \/ answer[i] = "failed"

=============================================================================
