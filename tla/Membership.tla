----------------------------- MODULE Membership -----------------------------
(***************************************************************************)
(* What inviting a device promises, with nothing of how it is done.  The   *)
(* device comes to hold the keys of a project only after a member gave it  *)
(* a role there; a role is given only for an invite its user said yes to;  *)
(* and only a join that is still being tried can be given up again.        *)
(* src/src/invite-api.js and src/src/member-api.js implement this; the     *)
(* refinement is stated in Invites.tla.                                    *)
(***************************************************************************)
CONSTANTS Invites,      \* invite IDs
          Projects,
          ProjectOf     \* [Invites -> Projects]

VARIABLES consented,    \* invites the user of the invited device said yes to
          granted,      \* projects in which the device was given a role
          member,       \* projects whose keys the device holds
          tentative     \* the ones among them that are still being joined

mvars == <<consented, granted, member, tentative>>

MInit == /\ consented = {}
         /\ granted \in SUBSET Projects
         /\ member \in SUBSET granted
         /\ tentative = {}

Consent(i) == /\ consented' = consented \cup {i}
              /\ UNCHANGED <<granted, member, tentative>>

Grant(i) == /\ i \in consented
            /\ granted' = granted \cup {ProjectOf[i]}
            /\ UNCHANGED <<consented, member, tentative>>

Join(i) == /\ i \in consented
           /\ ProjectOf[i] \in granted \ member
           /\ member' = member \cup {ProjectOf[i]}
           /\ tentative' = tentative \cup {ProjectOf[i]}
           /\ UNCHANGED <<consented, granted>>

GiveUp(p) == /\ p \in tentative
             /\ member' = member \ {p}
             /\ tentative' = tentative \ {p}
             /\ UNCHANGED <<consented, granted>>

\* A restart settles every join that was under way: the keys are on disk.
Settle == /\ tentative' \in SUBSET tentative
          /\ UNCHANGED <<consented, granted, member>>

MNext == \/ \E i \in Invites : Consent(i) \/ Grant(i) \/ Join(i)
         \/ \E p \in Projects : GiveUp(p)
         \/ Settle

MSpec == MInit /\ [][MNext]_mvars
=============================================================================
