------------------------------ MODULE CommSetup ------------------------------
(***************************************************************************)
(* Setting up the comm channel.  An identity lives twice: the main process *)
(* keeps its keys in an encrypted file, the renderer keeps the address in  *)
(* its store and shows it to be funded with 70 CKB.  Generating, deleting  *)
(* and publishing the profile cell are asynchronous calls between the two. *)
(***************************************************************************)
EXTENDS Naturals, FiniteSets

CONSTANTS
  Clicks,         \* bound: generate calls that run at once
  Publishes,      \* bound: publish runs at once
  MaxIdentities   \* bound: key pairs generated

ASSUME SetupBoundsAssumption ==
  Clicks \in Nat \ {0} /\ Publishes \in Nat \ {0} /\ MaxIdentities \in Nat

Identity == 1..MaxIdentities
Nobody == 0

VARIABLES
  keygens,     \* identities generated so far; each keygen draws fresh seeds
  keyFile,     \* whose keys comm-identity.enc holds
  keyTmp,      \* whose keys comm-identity.enc.tmp holds
  identity,    \* the identity of the renderer's store
  profile,     \* whose publish its profileTxHash is, Nobody for null
  generating,  \* per generate call: stage and key pair
  deleting,    \* the delete call: idle, rm, clear
  section,     \* CommChannelSection: away, setup, publishing, failed
  publishing,  \* per runPublish: stage, identity, and whether its section is still mounted
  funded,      \* addresses that hold the 70 CKB
  cells,       \* identities with a profile cell on the chain
  gone,        \* identities whose keys the operator has had deleted
  crossed      \* history: identities whose write overlapped another one of the file

setupVars == <<keygens, keyFile, keyTmp, identity, profile, generating, deleting,
               section, publishing, funded, cells, gone, crossed>>

NoCall == [at |-> "idle", id |-> Nobody]
NoPublish == [at |-> "idle", id |-> Nobody, copy |-> Nobody, mounted |-> FALSE]

SetupTypeOK ==
  /\ keygens \in 0..MaxIdentities
  /\ {keyFile, keyTmp, identity, profile} \subseteq Identity \union {Nobody}
  /\ generating \in [1..Clicks -> [at : {"idle", "load", "access", "write", "rename", "reply"},
                                   id : Identity \union {Nobody}]]
  /\ deleting \in {"idle", "rm", "clear"}
  /\ section \in {"away", "setup", "publishing", "failed"}
  /\ publishing \in [1..Publishes -> [at : {"idle", "build", "mark", "store", "swap", "broadcast", "record"},
                                      id : Identity \union {Nobody}, copy : Identity \union {Nobody},
                                      mounted : BOOLEAN]]
  /\ funded \union cells \union gone \union crossed \subseteq Identity

SetupInit ==
  /\ keygens = 0
  /\ keyFile = Nobody /\ keyTmp = Nobody /\ identity = Nobody /\ profile = Nobody
  /\ generating = [c \in 1..Clicks |-> NoCall]
  /\ deleting = "idle" /\ section = "setup"
  /\ publishing = [p \in 1..Publishes |-> NoPublish]
  /\ funded = {} /\ cells = {} /\ gone = {} /\ crossed = {}

----------------------------------------------------------------------------
(* useCommChannelSetup.generate and generateIdentity: every await is a     *)
(* point where another call of the main process may run.                   *)

\* "Set up comm channel" stays enabled while a call runs.
ClickSetup(c) ==
  /\ section # "away" /\ identity = Nobody /\ generating[c] = NoCall
  /\ keygens < MaxIdentities
  /\ generating' = [generating EXCEPT ![c].at = "load"]
  /\ UNCHANGED <<keygens, keyFile, keyTmp, identity, profile, deleting, section,
                 publishing, funded, cells, gone, crossed>>

\* loadCommIdentity: throws when there is one, else draws the keys.
Keygen(c) ==
  /\ generating[c].at = "load"
  /\ IF keyFile # Nobody \/ keygens = MaxIdentities
     THEN generating' = [generating EXCEPT ![c] = NoCall] /\ UNCHANGED keygens
     ELSE /\ keygens' = keygens + 1
          /\ generating' = [generating EXCEPT ![c] = [at |-> "access", id |-> keygens + 1]]
  /\ UNCHANGED <<keyFile, keyTmp, identity, profile, deleting, section, publishing,
                 funded, cells, gone, crossed>>

\* The calls between their look at the file and the end of their write of it:
\* nothing keeps two of them apart.
Saving == {c \in 1..Clicks : generating[c].at \in {"write", "rename"}}
Marking == {p \in 1..Publishes : publishing[p].at \in {"store", "swap"}}

\* saveCommIdentity: fs.access, then writeFile to .tmp, then rename.
SaveStep(c) ==
  LET g == generating[c] IN
  /\ \/ /\ g.at = "access"
        /\ generating' = [generating EXCEPT ![c] =
                            IF keyFile = Nobody THEN [@ EXCEPT !.at = "write"] ELSE NoCall]
        /\ crossed' = IF keyFile = Nobody /\ (Saving # {} \/ Marking # {})
                       THEN crossed \union {g.id} \union {generating[d].id : d \in Saving}
                       ELSE crossed
        /\ UNCHANGED <<keyFile, keyTmp>>
     \/ /\ g.at = "write"
        /\ keyTmp' = g.id
        /\ generating' = [generating EXCEPT ![c].at = "rename"]
        /\ UNCHANGED <<keyFile, crossed>>
     \/ /\ g.at = "rename"
        /\ keyTmp' = Nobody
        /\ keyFile' = IF keyTmp = Nobody THEN keyFile ELSE keyTmp
        /\ generating' = [generating EXCEPT ![c] =
                            IF keyTmp = Nobody THEN NoCall ELSE [@ EXCEPT !.at = "reply"]]
        /\ UNCHANGED crossed
  /\ UNCHANGED <<keygens, identity, profile, deleting, section, publishing, funded, cells, gone>>

\* The address is answered while the file is still being written.
ShowsUnsaved(c) ==
  /\ generating[c].at = "write"
  /\ identity' = IF identity = Nobody THEN generating[c].id ELSE identity
  /\ profile' = IF identity = Nobody THEN Nobody ELSE profile
  /\ generating' = [generating EXCEPT ![c] = NoCall]
  /\ UNCHANGED <<keygens, keyFile, keyTmp, deleting, section, publishing, funded, cells, gone, crossed>>

\* setIdentity refuses a second identity: the first reply is shown.
ShowIdentity(c) ==
  /\ generating[c].at = "reply"
  /\ identity' = IF identity = Nobody THEN generating[c].id ELSE identity
  /\ profile' = IF identity = Nobody THEN Nobody ELSE profile
  /\ generating' = [generating EXCEPT ![c] = NoCall]
  /\ UNCHANGED <<keygens, keyFile, keyTmp, deleting, section, publishing, funded, cells, gone, crossed>>

----------------------------------------------------------------------------
(* "Cancel setup" of the funding step and "Delete identity" of the ready one. *)
ClickDelete ==
  /\ deleting = "idle" /\ identity # Nobody
  /\ section = "setup" \/ (section # "away" /\ profile # Nobody)
  /\ section' = "setup" /\ deleting' = "rm"
  /\ UNCHANGED <<keygens, keyFile, keyTmp, identity, profile, generating, publishing,
                 funded, cells, gone, crossed>>

RemoveFile ==
  /\ deleting = "rm"
  /\ deleting' = "clear" /\ keyFile' = Nobody
  /\ gone' = gone \union ({keyFile} \ {Nobody})
  /\ UNCHANGED <<keygens, keyTmp, identity, profile, generating, section, publishing, funded, cells, crossed>>

ClearIdentity ==
  /\ deleting = "clear"
  /\ deleting' = "idle" /\ identity' = Nobody /\ profile' = Nobody
  /\ UNCHANGED <<keygens, keyFile, keyTmp, generating, section, publishing, funded, cells, gone, crossed>>

----------------------------------------------------------------------------
(* The operator funds the address; FundingStep polls its balance and calls *)
(* onFunded once, "Retry publish" appears after an error.                  *)
Fund ==
  /\ identity \notin funded \union {Nobody}
  /\ funded' = funded \union {identity}
  /\ UNCHANGED <<keygens, keyFile, keyTmp, identity, profile, generating, deleting, section,
                 publishing, cells, gone, crossed>>

RunPublish(p) ==
  /\ publishing[p] = NoPublish /\ identity # Nobody /\ profile = Nobody
  /\ section = "failed" \/ (section = "setup" /\ identity \in funded)
  /\ section' = "publishing"
  /\ publishing' = [publishing EXCEPT ![p] = [NoPublish EXCEPT !.at = "build", !.mounted = TRUE]]
  /\ UNCHANGED <<keygens, keyFile, keyTmp, identity, profile, generating, deleting, funded, cells, gone, crossed>>

Failed(p) ==
  /\ publishing' = [publishing EXCEPT ![p] = NoPublish]
  /\ section' = IF publishing[p].mounted /\ section = "publishing" THEN "failed" ELSE section

\* publishProfile signs for the keys in the file; building fails without a file
\* or without capacity.
BuildProfile(p) ==
  /\ publishing[p].at = "build"
  /\ IF keyFile \in funded
     THEN publishing' = [publishing EXCEPT ![p].at = "mark", ![p].id = keyFile] /\ UNCHANGED section
     ELSE Failed(p)
  /\ UNCHANGED <<keygens, keyFile, keyTmp, identity, profile, generating, deleting, funded, cells, gone, crossed>>

\* updateCommIdentity, before it answers: the file is read, the copy with the
\* network added is written to .tmp, and the rename puts it in place of whatever
\* the file is by then, deleted or another one's.
MarkStep(p) ==
  LET call == publishing[p] IN
  /\ \/ /\ call.at = "mark" /\ keyFile # Nobody
        /\ publishing' = [publishing EXCEPT ![p].at = "store", ![p].copy = keyFile]
        /\ UNCHANGED <<keyFile, keyTmp, section>>
     \/ /\ call.at = "store"
        /\ keyTmp' = call.copy
        /\ publishing' = [publishing EXCEPT ![p].at = "swap"]
        /\ UNCHANGED <<keyFile, section>>
     \/ /\ call.at = "swap" /\ keyTmp # Nobody
        /\ keyTmp' = Nobody /\ keyFile' = keyTmp
        /\ publishing' = [publishing EXCEPT ![p].at = "broadcast", ![p].copy = Nobody]
        /\ UNCHANGED section
     \/ /\ \/ call.at = "mark" /\ keyFile = Nobody
           \/ call.at = "swap" /\ keyTmp = Nobody
        /\ Failed(p)
        /\ UNCHANGED <<keyFile, keyTmp>>
  /\ UNCHANGED <<keygens, identity, profile, generating, deleting, funded, cells, gone, crossed>>

\* The cell may be on the chain although the broadcast failed here.
BroadcastProfile(p) ==
  /\ publishing[p].at = "broadcast"
  /\ \/ /\ cells' = cells \union {publishing[p].id}
        /\ publishing' = [publishing EXCEPT ![p].at = "record"]
        /\ UNCHANGED section
     \/ /\ cells' \in {cells, cells \union {publishing[p].id}}
        /\ Failed(p)
  /\ UNCHANGED <<keygens, keyFile, keyTmp, identity, profile, generating, deleting, funded, gone, crossed>>

\* recordProfilePublished writes to whatever identity the store has by now.
RecordPublished(p) ==
  /\ publishing[p].at = "record"
  /\ profile' = IF identity = Nobody THEN Nobody ELSE publishing[p].id
  /\ section' = IF publishing[p].mounted THEN "setup" ELSE section
  /\ publishing' = [publishing EXCEPT ![p] = NoPublish]
  /\ UNCHANGED <<keygens, keyFile, keyTmp, identity, generating, deleting, funded, cells, gone, crossed>>

----------------------------------------------------------------------------
\* isPublishing is component state: it is lost when the operator leaves.
LeaveSettings ==
  /\ section # "away"
  /\ section' = "away"
  /\ publishing' = [p \in 1..Publishes |-> [publishing[p] EXCEPT !.mounted = FALSE]]
  /\ UNCHANGED <<keygens, keyFile, keyTmp, identity, profile, generating, deleting, funded, cells, gone, crossed>>

OpenSettings ==
  /\ section = "away"
  /\ section' = "setup"
  /\ UNCHANGED <<keygens, keyFile, keyTmp, identity, profile, generating, deleting, publishing,
                 funded, cells, gone, crossed>>

\* The application dies and starts again: the file and the store remain, and
\* a .tmp is written anew before it is renamed.
Restart ==
  /\ generating' = [c \in 1..Clicks |-> NoCall]
  /\ publishing' = [p \in 1..Publishes |-> NoPublish]
  /\ deleting' = "idle" /\ section' = "away" /\ keyTmp' = Nobody
  /\ UNCHANGED <<keygens, keyFile, identity, profile, funded, cells, gone, crossed>>

SetupNext ==
  \/ \E c \in 1..Clicks : ClickSetup(c) \/ Keygen(c) \/ SaveStep(c) \/ ShowIdentity(c)
  \/ \E p \in 1..Publishes : RunPublish(p) \/ BuildProfile(p) \/ MarkStep(p)
                             \/ BroadcastProfile(p) \/ RecordPublished(p)
  \/ ClickDelete \/ RemoveFile \/ ClearIdentity \/ Fund
  \/ LeaveSettings \/ OpenSettings \/ Restart

SetupSpec == SetupInit /\ [][SetupNext]_setupVars

----------------------------------------------------------------------------
\* The address the operator is told to fund can be spent from: its keys are in
\* the file, or the operator has had them deleted, whatever else was generated,
\* deleted or published meanwhile.  Of two calls that are past their look at the
\* file together only one may win (generateIdentity, updateCommIdentity): the
\* identities generated by those are left out, and only those.
AddressHasKeys ==
  identity # Nobody /\ identity \notin crossed => identity \in {keyFile} \union gone
=============================================================================
