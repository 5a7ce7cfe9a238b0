---------------------------- MODULE ServerConfig ----------------------------
(***************************************************************************)
(* The list of backup servers and its way between the GUI and the service  *)
(* (gui/config.go, pbs_server.go, service_api.go, main.go 641-1140).  The  *)
(* service owns config.json; a GUI in service mode holds a copy without    *)
(* the credentials, edits it in memory and pushes the whole document; a    *)
(* standalone GUI has a config.json of its own, in the user's home.        *)
(*                                                                         *)
(* A credential is modelled as the identity it was issued for: what a user *)
(* types is right, what matters is what the code puts together afterwards. *)
(***************************************************************************)
EXTENDS FiniteSets, Functions

CONSTANTS Servers,  \* ids of server entries
          Tokens,   \* API token ids
          Users,    \* user names
          Keys,     \* paths of encryption keys, for the other plain fields too
          Empty,    \* the empty string
          MaxEdits, \* bound on the edits of the user
          MaxFaults \* bound on lost and failed calls

VARIABLES
  stored,    \* the servers in the service: id -> entry, for the ids there are
  storedDef, \* its default server, or Empty
  home,      \* the servers in the config.json of a standalone GUI
  homeDef,
  mode,      \* "standalone" or "service"
  gui,       \* the servers in the memory of the GUI
  guiDef,
  hydrated,  \* history: the GUI's copy came from the service
  touched,   \* history: ids edited since the GUI and the service last agreed
  deleted,   \* history: ids ever deleted by the user
  edits,
  faults

remote == <<stored, storedDef>>
local == <<home, homeDef>>
memory == <<gui, guiDef>>
vars == <<remote, local, mode, memory, hydrated, touched, deleted, edits, faults>>

Entry == [authid : Tokens \cup {Empty}, secret : Tokens \cup {Empty},
          username : Users \cup {Empty}, password : Users \cup {Empty}, key : Keys \cup {Empty}]

\* What the form of a server submits: an empty credential stands for the stored one.
Forms == {e \in Entry : e.secret \in {Empty, e.authid} /\ e.password \in {Empty, e.username}}

\* A valid entry: one method, with its credential.
ByToken(e) == e.authid # Empty /\ e.secret = e.authid /\ e.username = Empty /\ e.password = Empty
ByUser(e) == e.authid = Empty /\ e.secret = Empty /\ e.username # Empty /\ e.password = e.username
Paired(e) == ByToken(e) \/ ByUser(e)

Ids(servers) == DOMAIN servers
With(servers, id, e) == [i \in Ids(servers) \cup {id} |-> IF i = id THEN e ELSE servers[i]]
Without(servers, id) == Restrict(servers, Ids(servers) \ {id})

----------------------------------------------------------------------------
(* Credentials of one entry *)

TokenEntry(e, secret) == [e EXCEPT !.username = Empty, !.password = Empty, !.secret = secret]
UserEntry(e, password) == [e EXCEPT !.authid = Empty, !.secret = Empty, !.password = password]

\* Mutant: the stored credential is kept whatever identity it belongs to.
NormalizeReusing(old, e) ==
  IF e.authid # Empty
    THEN TokenEntry(e, IF e.secret = Empty /\ old # {} THEN (CHOOSE o \in old : TRUE).secret ELSE e.secret)
    ELSE UserEntry(e, IF e.password = Empty /\ old # {} THEN (CHOOSE o \in old : TRUE).password ELSE e.password)

\* normalizeServerAuth; old is the stored entry, in a set, or {}.
Normalize(old, e) ==
  IF e.authid # Empty
    THEN TokenEntry(e, IF e.secret = Empty /\ \E o \in old : o.authid = e.authid
                         THEN (CHOOSE o \in old : TRUE).secret ELSE e.secret)
    ELSE UserEntry(e, IF e.password = Empty /\ \E o \in old : o.username = e.username
                        THEN (CHOOSE o \in old : TRUE).password ELSE e.password)

\* What normalizeServerAuth and validate ask for: an identity, and from who
\* holds the credentials (requireCreds) the credential too.
Acceptable(e, requireCreds) ==
  /\ e.authid # Empty \/ e.username # Empty
  /\ requireCreds => IF e.authid # Empty THEN e.secret # Empty ELSE e.password # Empty

Old(servers, id) == {servers[i] : i \in Ids(servers) \cap {id}}

----------------------------------------------------------------------------
(* The document *)

\* Mutant: the path of the key is left out.
SanitizedKeyless(servers) ==
  [i \in Ids(servers) |-> [servers[i] EXCEPT !.secret = Empty, !.password = Empty, !.key = Empty]]

\* A list without its credentials, for another process.
Sanitized(servers) == [i \in Ids(servers) |-> [servers[i] EXCEPT !.secret = Empty, !.password = Empty]]

\* fullConfigDocument: what the GUI knows, typed credentials included, and its
\* list of servers even when it is empty.
Document(servers, def) == [pbs_servers |-> servers, default_pbs_id |-> def]

\* parseFullConfig: a GUI takes no credential out of a document.
Parsed(doc) == [i \in Ids(doc.pbs_servers) |->
                  [doc.pbs_servers[i] EXCEPT !.secret = Empty, !.password = Empty]]

Merged(servers) == [i \in Ids(servers) |-> Normalize(Old(stored, i), servers[i])]

\* The default a document leaves: the one it names if it is there, else the only one.
DefaultOf(servers, def) ==
  IF def \in Ids(servers) THEN def
  ELSE IF Cardinality(Ids(servers)) = 1 THEN CHOOSE i \in Ids(servers) : TRUE ELSE Empty

\* SaveFullConfigFromAPI: all of the document, or nothing of it.
Accepts(doc) == \A i \in Ids(doc.pbs_servers) : Acceptable(Merged(doc.pbs_servers)[i], TRUE)
Save(doc) ==
  /\ stored' = Merged(doc.pbs_servers)
  /\ storedDef' = DefaultOf(doc.pbs_servers, doc.default_pbs_id)

\* GetFullConfigForAPI, and what the GUI makes of it.
GetFullConfig(servers, def) == [pbs_servers |-> Sanitized(servers), default_pbs_id |-> def]
Hydrated(servers, def) ==
  /\ gui' = Parsed(GetFullConfig(servers, def))
  /\ guiDef' = def

----------------------------------------------------------------------------
(* Edits in memory: Add-, Update-, DeletePBSServerMem, SetDefaultPBSMem *)

\* An edit: the servers and the default after it, and the ids it is about.
Edit(servers, def, ids) == [servers |-> servers, def |-> def, ids |-> ids]

Additions ==
  UNION {{Edit(With(gui, id, Normalize({}, e)), IF Ids(gui) = {} THEN id ELSE guiDef, {id}) :
            e \in {f \in Forms : Acceptable(Normalize({}, f), TRUE)}} : id \in Servers \ Ids(gui)}

Updates(requireCreds) ==
  UNION {{Edit(With(gui, id, Normalize({gui[id]}, e)), guiDef, {id}) :
            e \in {f \in Forms : Acceptable(Normalize({gui[id]}, f), requireCreds)}} : id \in Ids(gui)}

\* The next default is any of the servers left: the loop is over a map.
Deletions ==
  {Edit(Without(gui, p[1]), p[2], {p[1]}) :
     p \in {q \in Ids(gui) \X (Ids(gui) \cup {Empty}) :
              q[2] \in IF guiDef # q[1] THEN {guiDef}
                       ELSE IF Ids(gui) = {q[1]} THEN {Empty} ELSE Ids(gui) \ {q[1]}}}

Defaults == {Edit(gui, id, {}) : id \in Ids(gui)}

\* SaveConfig and SetParallelFolders: the rest of the configuration.
Settings == {Edit(gui, guiDef, {})}

Edits(requireCreds) == Additions \cup Updates(requireCreds) \cup Deletions \cup Defaults \cup Settings

\* The edit replaces what is in memory, before anything is saved or pushed.
Apply(e) == /\ gui' = e.servers /\ guiDef' = e.def

Count == /\ edits < MaxEdits /\ edits' = edits + 1

Touched(e) == touched' = e.ids \cup (IF gui = Sanitized(stored) THEN {} ELSE touched)
Deleted(e) == deleted' = deleted \cup (Ids(gui) \ Ids(e.servers))

----------------------------------------------------------------------------
(* Actions *)

\* The servers a service or a home may have when a GUI starts: valid ones.
Valid == {e \in Forms : Paired(e)}
Lists == UNION {[ids -> Valid] : ids \in SUBSET Servers}

Init ==
  /\ stored \in Lists /\ storedDef \in Ids(stored) \cup {Empty}
  /\ home = <<>> /\ homeDef = Empty
  /\ \/ /\ mode = "standalone"            \* LoadConfig reads the home
        /\ gui = home /\ guiDef = homeDef /\ hydrated = FALSE
     \/ /\ mode = "service"               \* main: hydrateFromService
        /\ gui = Sanitized(stored) /\ guiDef = storedDef /\ hydrated = TRUE
     \/ /\ mode = "service"               \* main: the service did not answer
        /\ gui = <<>> /\ guiDef = Empty /\ hydrated = FALSE
  /\ touched = {} /\ deleted = {}
  /\ edits = 0 /\ faults = 0

\* A standalone GUI writes the file of its own.
EditLocal ==
  /\ mode = "standalone" /\ Count
  /\ \E e \in Edits(TRUE) :
       /\ Apply(e)
       /\ home' = e.servers /\ homeDef' = e.def
       /\ Deleted(e) /\ Touched(e)
  /\ UNCHANGED <<remote, mode, hydrated, faults>>

\* pushConfigToService: the document is saved and what the service holds now is
\* read back.
EditAndPush ==
  /\ mode = "service" /\ Count
  /\ \E e \in Edits(FALSE) :
       /\ Accepts(Document(e.servers, e.def))
       /\ Save(Document(e.servers, e.def))
       /\ Deleted(e) /\ Touched(e)
  /\ Hydrated(stored', storedDef')
  /\ hydrated' = TRUE
  /\ UNCHANGED <<local, mode, faults>>

\* The service refuses the document: the edit stays in memory.
PushRefused ==
  /\ mode = "service" /\ Count
  /\ \E e \in Edits(FALSE) :
       /\ ~Accepts(Document(e.servers, e.def))
       /\ Apply(e) /\ Deleted(e) /\ Touched(e)
  /\ UNCHANGED <<remote, local, mode, hydrated, faults>>

\* The request is lost, or its answer, or the document cannot be read back.
PushLost ==
  /\ mode = "service" /\ faults < MaxFaults /\ Count
  /\ \E e \in Edits(FALSE) :
       /\ Apply(e) /\ Deleted(e) /\ Touched(e)
       /\ \/ UNCHANGED remote
          \/ /\ Accepts(Document(e.servers, e.def))
             /\ Save(Document(e.servers, e.def))
  /\ faults' = faults + 1
  /\ UNCHANGED <<local, mode, hydrated>>

\* hydrateFromService: the service's document replaces what is in memory.
HydrateFromService ==
  /\ mode = "service"
  /\ Hydrated(stored, storedDef)
  /\ hydrated' = TRUE /\ touched' = {}
  /\ UNCHANGED <<remote, local, mode, deleted, edits, faults>>

\* From the service, or from the file.
ReloadConfig ==
  \/ HydrateFromService
  \/ /\ mode = "standalone"
     /\ gui' = home /\ guiDef' = homeDef
     /\ UNCHANGED <<remote, local, mode, hydrated, touched, deleted, edits, faults>>

\* An empty list may be one that was never hydrated: the service is asked again.
ListPBSServers == Ids(gui) = {} /\ HydrateFromService

\* StartBackup and StartMachineBackup of a standalone GUI find a service now:
\* switchToServiceMode.  The servers in memory are still the ones of the home.
SwitchToServiceMode ==
  /\ mode = "standalone"
  /\ mode' = "service"
  /\ UNCHANGED <<remote, local, memory, hydrated, touched, deleted, edits, faults>>

Next ==
  \/ EditLocal \/ EditAndPush \/ PushRefused \/ PushLost
  \/ ReloadConfig \/ ListPBSServers \/ SwitchToServiceMode

Spec == Init /\ [][Next]_vars

----------------------------------------------------------------------------
(* Properties *)

\* A credential is never stored with an identity it does not belong to, and no
\* credential outlives a change of method (normalizeServerAuth); this holds in the
\* service and in the home, whatever was edited, refused, lost and sent again.
CredentialsPaired ==
  \A servers \in {stored, home} : \A i \in Ids(servers) : Paired(servers[i])

\* A GUI whose copy came from the service changes there only the servers the
\* user edited: all others keep their credentials, which the GUI never saw, and
\* their key.
OthersKept ==
  [][hydrated => \A i \in Servers \ touched' : Old(stored, i) = Old(stored', i)]_vars

\* "A server missing from the document was deleted by the GUI"
\* (SaveFullConfigFromAPI): a server leaves the service only when the user
\* deleted it.
ServersLeaveOnlyWhenDeleted == [][\A i \in Ids(stored) : i \in Ids(stored') \cup deleted']_vars
==============================================================================
