----------------------------- MODULE DesktopProofs -----------------------------
(***************************************************************************)
(* What holds of the desktop application and the service beside it: of the *)
(* credentials of the servers, whatever the number of servers, tokens and  *)
(* users, and whatever is edited, refused and lost; of the token of the    *)
(* local API, whatever the number of requests, rotations, crashes and      *)
(* failing writes.                                                         *)
(***************************************************************************)
EXTENDS ServerConfig, LocalToken, TLAPS

(***************************************************************************)
(*                     The servers and their credentials                   *)
(***************************************************************************)
\* A list of servers whose entries are all of a kind.
AllIn(servers, kind) == \A i \in Ids(servers) : servers[i] \in kind

\* What is stored is valid.  What a GUI holds in memory may lack credentials, but
\* has none that was issued for another identity; a standalone GUI holds what it
\* stored.
Inv ==
  /\ AllIn(stored, Entry) /\ AllIn(home, Entry)
  /\ CredentialsPaired
  /\ AllIn(gui, Forms)
  /\ mode = "standalone" => gui = home

----------------------------------------------------------------------------
(* Entries *)

\* A valid entry is one the form could have submitted.
LEMMA PairedIsForm ==
  ASSUME NEW e \in Entry, Paired(e)
  PROVE  e \in Forms
  BY DEF Forms, Paired, ByToken, ByUser

\* Without its credentials an entry stays one the form could have submitted.
LEMMA BlankIsForm ==
  ASSUME NEW e \in Entry
  PROVE  [e EXCEPT !.secret = Empty, !.password = Empty] \in Forms
  BY DEF Forms, Entry

\* normalizeServerAuth never takes a credential from an entry with another identity.
LEMMA NormalizeIsForm ==
  ASSUME NEW old \in SUBSET Forms, \A o, p \in old : o = p, NEW e \in Forms
  PROVE  Normalize(old, e) \in Forms
  <1>1. ASSUME NEW o \in old
        PROVE  (CHOOSE p \in old : TRUE) = o
    BY <1>1
  <1>2. CASE e.authid # Empty
    <2>1. DEFINE secret == IF e.secret = Empty /\ \E o \in old : o.authid = e.authid
                             THEN (CHOOSE o \in old : TRUE).secret ELSE e.secret
    <2>2. secret \in {Empty, e.authid}
      BY <1>1 DEF Forms
    <2>3. secret \in Tokens \cup {Empty}
      BY <2>2 DEF Forms, Entry
    <2>4. Normalize(old, e) = TokenEntry(e, secret)
      BY <1>2 DEF Normalize
    <2>. HIDE DEF secret
    <2>. QED
      BY <2>2, <2>3, <2>4 DEF TokenEntry, Forms, Entry
  <1>3. CASE e.authid = Empty
    <2>1. DEFINE password == IF e.password = Empty /\ \E o \in old : o.username = e.username
                               THEN (CHOOSE o \in old : TRUE).password ELSE e.password
    <2>2. password \in {Empty, e.username}
      BY <1>1 DEF Forms
    <2>3. password \in Users \cup {Empty}
      BY <2>2 DEF Forms, Entry
    <2>4. Normalize(old, e) = UserEntry(e, password)
      BY <1>3 DEF Normalize
    <2>. HIDE DEF password
    <2>. QED
      BY <2>2, <2>3, <2>4 DEF UserEntry, Forms, Entry
  <1>. QED
    BY <1>2, <1>3

\* What is normalized has one method.
OneMethod(e) == IF e.authid # Empty THEN e.username = Empty /\ e.password = Empty ELSE e.secret = Empty

LEMMA NormalizeOneMethod ==
  ASSUME NEW old, NEW e \in Entry
  PROVE  OneMethod(Normalize(old, e))
  BY DEF Normalize, OneMethod, TokenEntry, UserEntry, Entry

\* With one method, an identity and its credential, an entry is valid.
LEMMA AcceptedIsPaired ==
  ASSUME NEW e \in Forms, OneMethod(e), Acceptable(e, TRUE)
  PROVE  Paired(e)
  BY DEF Forms, OneMethod, Acceptable, Paired, ByToken, ByUser

----------------------------------------------------------------------------
(* Lists *)

\* The edits leave every entry one the form could have submitted, and those that
\* ask for credentials leave every entry valid that was valid before.
LEMMA EditsAreForms ==
  ASSUME NEW requireCreds \in BOOLEAN, AllIn(gui, Forms), NEW e \in Edits(requireCreds)
  PROVE  /\ AllIn(e.servers, Forms)
         /\ requireCreds /\ (\A i \in Ids(gui) : Paired(gui[i])) =>
              \A i \in Ids(e.servers) : Paired(e.servers[i])
  <1>. DEFINE Good(list) ==
         /\ AllIn(list, Forms)
         /\ requireCreds /\ (\A i \in Ids(gui) : Paired(gui[i])) => \A i \in Ids(list) : Paired(list[i])
  <1>1. ASSUME NEW id, NEW f \in Forms, requireCreds => Paired(f)
        PROVE  Good(With(gui, id, f))
    BY <1>1 DEF With, AllIn, Ids
  <1>2. CASE e \in Additions
    <2>1. PICK id \in Servers \ Ids(gui), f \in Forms :
            /\ Acceptable(Normalize({}, f), TRUE)
            /\ e.servers = With(gui, id, Normalize({}, f))
      <3>1. PICK id \in Servers \ Ids(gui) :
              e \in {Edit(With(gui, id, Normalize({}, f)), IF Ids(gui) = {} THEN id ELSE guiDef, {id}) :
                       f \in {g \in Forms : Acceptable(Normalize({}, g), TRUE)}}
        BY <1>2 DEF Additions
      <3>2. PICK f \in {g \in Forms : Acceptable(Normalize({}, g), TRUE)} :
              e = Edit(With(gui, id, Normalize({}, f)), IF Ids(gui) = {} THEN id ELSE guiDef, {id})
        BY <3>1
      <3>3. e.servers = With(gui, id, Normalize({}, f))
        BY <3>2 DEF Edit
      <3>. QED
        BY <3>2, <3>3
    <2>2. Normalize({}, f) \in Forms
      BY NormalizeIsForm
    <2>3. Paired(Normalize({}, f))
      BY <2>1, <2>2, NormalizeOneMethod, AcceptedIsPaired DEF Forms
    <2>. QED
      BY <1>1, <2>1, <2>2, <2>3
  <1>3. CASE e \in Updates(requireCreds)
    <2>1. PICK id \in Ids(gui), f \in Forms :
            /\ Acceptable(Normalize({gui[id]}, f), requireCreds)
            /\ e.servers = With(gui, id, Normalize({gui[id]}, f))
      BY <1>3 DEF Updates, Edit
    <2>2. Normalize({gui[id]}, f) \in Forms
      BY NormalizeIsForm DEF AllIn
    <2>3. requireCreds => Paired(Normalize({gui[id]}, f))
      BY <2>1, <2>2, NormalizeOneMethod, AcceptedIsPaired DEF Forms
    <2>. QED
      BY <1>1, <2>1, <2>2, <2>3
  <1>4. CASE e \in Deletions
    <2>1. PICK p \in Ids(gui) \X (Ids(gui) \cup {Empty}) : e = Edit(Without(gui, p[1]), p[2], {p[1]})
      BY <1>4, Zenon DEF Deletions
    <2>2. e.servers = Without(gui, p[1])
      BY <2>1 DEF Edit
    <2>. QED
      BY <2>2 DEF Without, Restrict, Ids, AllIn
  <1>5. CASE e \in Defaults \cup Settings
    <2>1. e.servers = gui
      BY <1>5 DEF Defaults, Settings, Edit
    <2>. QED
      BY <2>1
  <1>. QED
    BY <1>2, <1>3, <1>4, <1>5 DEF Edits

\* What the service makes of a document it accepts is valid.
LEMMA SavedIsPaired ==
  ASSUME Inv, NEW servers, NEW def, AllIn(servers, Forms),
         Accepts(Document(servers, def)), Save(Document(servers, def))
  PROVE  AllIn(stored', Entry) /\ \A i \in Ids(stored') : Paired(stored'[i])
  <1>1. Document(servers, def).pbs_servers = servers
    BY DEF Document
  <1>2. stored' = Merged(servers) /\ Ids(stored') = Ids(servers)
    BY <1>1 DEF Save, Merged, Ids
  <1>3. SUFFICES ASSUME NEW i \in Ids(servers)
                 PROVE  Merged(servers)[i] \in Entry /\ Paired(Merged(servers)[i])
    BY <1>2 DEF AllIn
  <1>4. Merged(servers)[i] = Normalize(Old(stored, i), servers[i])
    BY <1>3 DEF Merged
  <1>5. Old(stored, i) \in SUBSET Forms /\ \A o, p \in Old(stored, i) : o = p
    BY PairedIsForm DEF Old, Inv, AllIn, CredentialsPaired
  <1>6. servers[i] \in Forms /\ servers[i] \in Entry
    BY <1>3 DEF AllIn, Forms
  <1>7. Merged(servers)[i] \in Forms
    BY <1>4, <1>5, <1>6, NormalizeIsForm
  <1>8. Acceptable(Merged(servers)[i], TRUE)
    BY <1>1, <1>3 DEF Accepts
  <1>9. OneMethod(Merged(servers)[i])
    BY <1>4, <1>6, NormalizeOneMethod
  <1>. QED
    BY <1>7, <1>8, <1>9, AcceptedIsPaired DEF Forms

\* What a GUI reads from the service carries no credentials.
LEMMA HydratedIsForm ==
  ASSUME NEW servers, NEW def, AllIn(servers, Entry), Hydrated(servers, def)
  PROVE  AllIn(gui', Forms)
  <1>1. gui' = Parsed(GetFullConfig(servers, def))
    BY DEF Hydrated
  <1>2. GetFullConfig(servers, def).pbs_servers = Sanitized(servers)
    BY DEF GetFullConfig
  <1>3. \A i \in Ids(servers) : Sanitized(servers)[i] \in Forms
    BY BlankIsForm DEF Sanitized, AllIn
  <1>4. Ids(Sanitized(servers)) = Ids(servers)
    BY DEF Sanitized, Ids
  <1>5. Ids(gui') = Ids(servers)
    BY <1>1, <1>2, <1>4 DEF Parsed, Ids
  <1>6. ASSUME NEW i \in Ids(servers) PROVE gui'[i] \in Forms
    <2>1. gui'[i] = [Sanitized(servers)[i] EXCEPT !.secret = Empty, !.password = Empty]
      BY <1>1, <1>2, <1>4 DEF Parsed
    <2>2. Sanitized(servers)[i] \in Entry
      BY <1>3 DEF Forms
    <2>. QED
      BY <2>1, <2>2, BlankIsForm
  <1>. QED
    BY <1>5, <1>6 DEF AllIn

----------------------------------------------------------------------------
(* The invariant *)

LEMMA Start ==
  ASSUME Init
  PROVE  Inv
  <1>1. AllIn(stored, Entry) /\ \A i \in Ids(stored) : Paired(stored[i])
    BY DEF Init, Lists, Valid, Forms, AllIn, Ids
  <1>2. Ids(<<>>) = {} 
    BY DEF Ids
  <1>3. AllIn(home, Entry) /\ AllIn(home, Forms) /\ \A i \in Ids(home) : Paired(home[i])
    BY <1>2 DEF Init, AllIn
  <1>4. AllIn(Sanitized(stored), Forms)
    BY <1>1, BlankIsForm DEF Sanitized, AllIn, Ids
  <1>5. AllIn(gui, Forms)
    BY <1>2, <1>3, <1>4 DEF Init, AllIn
  <1>6. mode = "standalone" => gui = home
    BY DEF Init
  <1>. QED
    BY <1>1, <1>3, <1>5, <1>6 DEF Inv, CredentialsPaired

LEMMA Step ==
  ASSUME Inv, [Next]_vars
  PROVE  Inv'
  <1>. USE DEF Inv
  <1>1. CASE EditLocal
    <2>1. PICK e \in Edits(TRUE) : gui' = e.servers /\ home' = e.servers
      BY <1>1 DEF EditLocal, Apply
    <2>2. \A i \in Ids(gui) : Paired(gui[i])
      BY <1>1 DEF EditLocal, CredentialsPaired
    <2>3. AllIn(e.servers, Forms) /\ \A i \in Ids(e.servers) : Paired(e.servers[i])
      BY <2>2, EditsAreForms
    <2>4. AllIn(home', Entry)
      BY <2>1, <2>3 DEF AllIn, Forms
    <2>5. UNCHANGED <<stored, mode>>
      BY <1>1 DEF EditLocal, remote
    <2>. QED
      BY <2>1, <2>3, <2>4, <2>5 DEF CredentialsPaired, AllIn
  <1>2. CASE EditAndPush
    <2>1. PICK e \in Edits(FALSE) : /\ Accepts(Document(e.servers, e.def))
                                    /\ Save(Document(e.servers, e.def))
      BY <1>2 DEF EditAndPush
    <2>2. AllIn(e.servers, Forms)
      BY EditsAreForms
    <2>3. AllIn(stored', Entry) /\ \A i \in Ids(stored') : Paired(stored'[i])
      BY <2>1, <2>2, SavedIsPaired
    <2>4. AllIn(gui', Forms)
      BY <1>2, <2>3, HydratedIsForm DEF EditAndPush
    <2>5. UNCHANGED <<home, mode>> /\ mode = "service"
      BY <1>2 DEF EditAndPush, local
    <2>. QED
      BY <2>3, <2>4, <2>5 DEF CredentialsPaired, AllIn
  <1>3. CASE PushRefused
    <2>1. PICK e \in Edits(FALSE) : gui' = e.servers
      BY <1>3 DEF PushRefused, Apply
    <2>2. AllIn(gui', Forms)
      BY <2>1, EditsAreForms
    <2>3. UNCHANGED <<stored, home, mode>> /\ mode = "service"
      BY <1>3 DEF PushRefused, remote, local
    <2>. QED
      BY <2>2, <2>3 DEF CredentialsPaired, AllIn
  <1>4. CASE PushLost
    <2>1. PICK e \in Edits(FALSE) :
            /\ gui' = e.servers
            /\ \/ UNCHANGED remote
               \/ Accepts(Document(e.servers, e.def)) /\ Save(Document(e.servers, e.def))
      BY <1>4 DEF PushLost, Apply
    <2>2. AllIn(e.servers, Forms)
      BY EditsAreForms
    <2>3. AllIn(stored', Entry) /\ \A i \in Ids(stored') : Paired(stored'[i])
      <3>1. CASE UNCHANGED remote
        BY <3>1 DEF remote, CredentialsPaired, AllIn
      <3>2. CASE Accepts(Document(e.servers, e.def)) /\ Save(Document(e.servers, e.def))
        BY <2>2, <3>2, SavedIsPaired
      <3>. QED
        BY <2>1, <3>1, <3>2
    <2>4. UNCHANGED <<home, mode>> /\ mode = "service"
      BY <1>4 DEF PushLost, local
    <2>. QED
      BY <2>1, <2>2, <2>3, <2>4 DEF CredentialsPaired, AllIn
  <1>5. CASE HydrateFromService
    <2>1. UNCHANGED <<stored, home, mode>> /\ mode = "service"
      BY <1>5 DEF HydrateFromService, remote, local
    <2>2. AllIn(gui', Forms)
      BY <1>5, HydratedIsForm DEF HydrateFromService
    <2>. QED
      BY <2>1, <2>2 DEF CredentialsPaired, AllIn
  <1>6. CASE ReloadConfig /\ ~HydrateFromService
    <2>1. gui' = home /\ UNCHANGED <<stored, home, mode>> 
      BY <1>6 DEF ReloadConfig, remote, local
    <2>2. AllIn(home, Forms)
      BY PairedIsForm DEF AllIn, CredentialsPaired
    <2>. QED
      BY <2>1, <2>2 DEF CredentialsPaired, AllIn
  <1>7. CASE SwitchToServiceMode
    BY <1>7 DEF SwitchToServiceMode, remote, local, memory, CredentialsPaired, AllIn
  <1>8. CASE UNCHANGED vars
    BY <1>8 DEF vars, remote, local, memory, CredentialsPaired, AllIn
  <1>. QED
    BY <1>1, <1>2, <1>3, <1>4, <1>5, <1>6, <1>7, <1>8 DEF Next, ReloadConfig, ListPBSServers

\* No credential is ever stored with an identity it was not issued for, whatever
\* is edited, refused, lost and sent again (normalizeServerAuth).
THEOREM Pairs == Spec => []CredentialsPaired
  <1>1. Inv => CredentialsPaired
    BY DEF Inv
  <1>. QED
    BY <1>1, Start, Step, PTL DEF Spec

----------------------------------------------------------------------------
(* What an edit leaves alone *)

\* Once the copy of the GUI came from the service, it tells of every server the user
\* has not touched since what the service has, less the credentials.
Synced(i) == Old(gui, i) = Old(Sanitized(stored), i)
SyncInv == hydrated => mode = "service" /\ \A i \in Servers \ touched : Synced(i)

LEMMA OldIs ==
  ASSUME NEW servers, NEW i
  PROVE  Old(servers, i) = IF i \in Ids(servers) THEN {servers[i]} ELSE {}
  BY DEF Old

LEMMA SanitizedIds ==
  ASSUME NEW servers
  PROVE  /\ Ids(Sanitized(servers)) = Ids(servers)
         /\ \A i \in Ids(servers) :
              Sanitized(servers)[i] = [servers[i] EXCEPT !.secret = Empty, !.password = Empty]
  BY DEF Sanitized, Ids

LEMMA OldSanitized ==
  ASSUME NEW s, NEW t, NEW i, Old(s, i) = Old(t, i)
  PROVE  Old(Sanitized(s), i) = Old(Sanitized(t), i)
  <1>1. i \in Ids(s) <=> i \in Ids(t)
    BY OldIs
  <1>2. CASE i \in Ids(s)
    <2>1. s[i] = t[i]
      BY <1>1, <1>2, OldIs
    <2>2. Sanitized(s)[i] = Sanitized(t)[i]
      <3>1. Sanitized(s)[i] = [s[i] EXCEPT !.secret = Empty, !.password = Empty]
        BY <1>2, SanitizedIds
      <3>2. Sanitized(t)[i] = [t[i] EXCEPT !.secret = Empty, !.password = Empty]
        BY <1>1, <1>2, SanitizedIds
      <3>. QED
        BY <2>1, <3>1, <3>2, Zenon
    <2>3. i \in Ids(Sanitized(s)) /\ i \in Ids(Sanitized(t))
      BY <1>1, <1>2, SanitizedIds
    <2>. QED
      BY <2>2, <2>3 DEF Old
  <1>3. CASE i \notin Ids(s)
    <2>1. i \notin Ids(Sanitized(s)) /\ i \notin Ids(Sanitized(t))
      BY <1>1, <1>3, SanitizedIds
    <2>. QED
      BY <2>1 DEF Old
  <1>. QED
    BY <1>2, <1>3

\* What a GUI makes of the service's document is that document.
LEMMA HydratedIsSanitized ==
  ASSUME NEW servers, NEW def, AllIn(servers, Entry), Hydrated(servers, def)
  PROVE  gui' = Sanitized(servers)
  <1>1. gui' = Parsed(GetFullConfig(servers, def))
    BY DEF Hydrated
  <1>2. gui' = [i \in Ids(servers) |->
                  [Sanitized(servers)[i] EXCEPT !.secret = Empty, !.password = Empty]]
    BY <1>1, SanitizedIds DEF Parsed, GetFullConfig
  <1>3. ASSUME NEW i \in Ids(servers)
        PROVE  [Sanitized(servers)[i] EXCEPT !.secret = Empty, !.password = Empty]
                 = [servers[i] EXCEPT !.secret = Empty, !.password = Empty]
    <2>1. servers[i] \in Entry
      BY DEF AllIn
    <2>. QED
      BY <2>1, SanitizedIds DEF Entry
  <1>. QED
    BY <1>2, <1>3 DEF Sanitized

\* An edit is about the servers it names.
LEMMA EditsTouch ==
  ASSUME NEW requireCreds, NEW e \in Edits(requireCreds), NEW i, i \notin e.ids
  PROVE  Old(e.servers, i) = Old(gui, i)
  <1>1. ASSUME NEW id, NEW entry, id # i
        PROVE  /\ Old(With(gui, id, entry), i) = Old(gui, i)
               /\ Old(Without(gui, id), i) = Old(gui, i)
    BY <1>1, OldIs DEF With, Without, Restrict, Ids
  <1>2. CASE e \in Additions
    <2>1. PICK id \in Servers \ Ids(gui) :
            e \in {Edit(With(gui, id, Normalize({}, f)), IF Ids(gui) = {} THEN id ELSE guiDef, {id}) :
                     f \in {g \in Forms : Acceptable(Normalize({}, g), TRUE)}}
      BY <1>2 DEF Additions
    <2>2. PICK f \in {g \in Forms : Acceptable(Normalize({}, g), TRUE)} :
            e = Edit(With(gui, id, Normalize({}, f)), IF Ids(gui) = {} THEN id ELSE guiDef, {id})
      BY <2>1
    <2>3. e.servers = With(gui, id, Normalize({}, f)) /\ e.ids = {id}
      BY <2>2 DEF Edit
    <2>. QED
      BY <1>1, <2>3
  <1>3. CASE e \in Updates(requireCreds)
    <2>1. PICK id \in Ids(gui), f \in Forms :
            e.servers = With(gui, id, Normalize({gui[id]}, f)) /\ e.ids = {id}
      BY <1>3 DEF Updates, Edit
    <2>. QED
      BY <1>1, <2>1
  <1>4. CASE e \in Deletions
    <2>1. PICK p \in Ids(gui) \X (Ids(gui) \cup {Empty}) : e = Edit(Without(gui, p[1]), p[2], {p[1]})
      BY <1>4, Zenon DEF Deletions
    <2>2. e.servers = Without(gui, p[1]) /\ e.ids = {p[1]}
      BY <2>1 DEF Edit
    <2>. QED
      BY <1>1, <2>2
  <1>5. CASE e \in Defaults \cup Settings
    <2>1. e.servers = gui
      BY <1>5 DEF Defaults, Settings, Edit
    <2>. QED
      BY <2>1
  <1>. QED
    BY <1>2, <1>3, <1>4, <1>5 DEF Edits

\* A stored entry that comes back without its credentials gets them again.
LEMMA NormalizeRestores ==
  ASSUME NEW e \in Entry, Paired(e)
  PROVE  Normalize({e}, [e EXCEPT !.secret = Empty, !.password = Empty]) = e
  <1>1. (CHOOSE o \in {e} : TRUE) = e
    OBVIOUS
  <1>2. DEFINE blank == [e EXCEPT !.secret = Empty, !.password = Empty]
  <1>3. blank.authid = e.authid /\ blank.username = e.username
        /\ blank.secret = Empty /\ blank.password = Empty
    BY DEF Entry
  <1>4. CASE e.authid # Empty
    <2>1. Normalize({e}, blank) = TokenEntry(blank, e.secret)
      BY <1>1, <1>3, <1>4 DEF Normalize
    <2>2. e.username = Empty /\ e.password = Empty
      BY <1>4 DEF Paired, ByToken, ByUser
    <2>. QED
      BY <2>1, <2>2 DEF TokenEntry, Entry
  <1>5. CASE e.authid = Empty
    <2>1. Normalize({e}, blank) = UserEntry(blank, e.password)
      BY <1>1, <1>3, <1>5 DEF Normalize
    <2>2. e.secret = Empty
      BY <1>5 DEF Paired, ByToken, ByUser
    <2>. QED
      BY <1>5, <2>1, <2>2 DEF UserEntry, Entry
  <1>. QED
    BY <1>4, <1>5

\* A document that is accepted keeps the entries it tells as they were sent.
LEMMA SavedKeeps ==
  ASSUME Inv, NEW servers, NEW def, Save(Document(servers, def)), NEW i,
         Old(servers, i) = Old(Sanitized(stored), i)
  PROVE  Old(stored', i) = Old(stored, i)
  <1>1. stored' = Merged(servers) /\ Ids(stored') = Ids(servers)
    BY DEF Save, Document, Merged, Ids
  <1>2. i \in Ids(servers) <=> i \in Ids(stored)
    BY OldIs, SanitizedIds
  <1>3. CASE i \in Ids(stored)
    <2>1. servers[i] = [stored[i] EXCEPT !.secret = Empty, !.password = Empty]
      BY <1>2, <1>3, OldIs, SanitizedIds
    <2>2. stored[i] \in Entry /\ Paired(stored[i])
      BY <1>3 DEF Inv, AllIn, CredentialsPaired
    <2>3. Merged(servers)[i] = Normalize({stored[i]}, servers[i])
      BY <1>2, <1>3, OldIs DEF Merged
    <2>4. Merged(servers)[i] = stored[i]
      BY <2>1, <2>2, <2>3, NormalizeRestores
    <2>. QED
      BY <1>1, <1>2, <1>3, <2>4, OldIs
  <1>4. CASE i \notin Ids(stored)
    BY <1>1, <1>2, <1>4, OldIs
  <1>. QED
    BY <1>3, <1>4

\* Of what an edit does not touch, the document it makes tells what the service has.
LEMMA EditSynced ==
  ASSUME SyncInv, hydrated, NEW requireCreds, NEW e \in Edits(requireCreds), Touched(e),
         NEW i \in Servers \ touched'
  PROVE  Old(e.servers, i) = Old(Sanitized(stored), i)
  <1>1. i \notin e.ids /\ (gui = Sanitized(stored) \/ i \notin touched)
    BY DEF Touched
  <1>2. Old(e.servers, i) = Old(gui, i)
    BY <1>1, EditsTouch
  <1>. QED
    BY <1>1, <1>2 DEF SyncInv, Synced

LEMMA SyncStart ==
  ASSUME Init
  PROVE  SyncInv
  BY DEF Init, SyncInv, Synced

\* One step keeps the copy in step, and the servers nobody touched.
LEMMA SyncStep ==
  ASSUME Inv, SyncInv, [Next]_vars
  PROVE  /\ SyncInv'
         /\ hydrated => \A i \in Servers \ touched' : Old(stored, i) = Old(stored', i)
  <1>1. CASE EditLocal
    BY <1>1 DEF EditLocal, SyncInv
  <1>2. CASE EditAndPush
    <2>1. PICK e \in Edits(FALSE) : /\ Accepts(Document(e.servers, e.def))
                                    /\ Save(Document(e.servers, e.def)) /\ Touched(e)
      BY <1>2 DEF EditAndPush
    <2>2. AllIn(stored', Entry)
      BY <2>1, EditsAreForms, SavedIsPaired DEF Inv
    <2>3. gui' = Sanitized(stored')
      BY <1>2, <2>2, HydratedIsSanitized DEF EditAndPush
    <2>4. ASSUME hydrated, NEW i \in Servers \ touched' PROVE Old(stored, i) = Old(stored', i)
      BY <2>1, <2>4, EditSynced, SavedKeeps
    <2>5. mode' = "service"
      BY <1>2 DEF EditAndPush
    <2>. QED
      BY <2>3, <2>4, <2>5 DEF SyncInv, Synced
  <1>3. CASE PushRefused
    <2>1. PICK e \in Edits(FALSE) : gui' = e.servers /\ Touched(e)
      BY <1>3 DEF PushRefused, Apply
    <2>2. UNCHANGED <<stored, mode, hydrated>>
      BY <1>3 DEF PushRefused, remote
    <2>. QED
      BY <2>1, <2>2, EditSynced DEF SyncInv, Synced
  <1>4. CASE PushLost
    <2>1. PICK e \in Edits(FALSE) :
            /\ gui' = e.servers /\ Touched(e)
            /\ \/ UNCHANGED remote
               \/ Save(Document(e.servers, e.def))
      BY <1>4 DEF PushLost, Apply
    <2>2. UNCHANGED <<mode, hydrated>>
      BY <1>4 DEF PushLost
    <2>3. ASSUME hydrated, NEW i \in Servers \ touched'
          PROVE  Old(stored, i) = Old(stored', i) /\ Synced(i)'
      <3>1. Old(e.servers, i) = Old(Sanitized(stored), i)
        BY <2>1, <2>3, EditSynced
      <3>2. Old(stored, i) = Old(stored', i)
        BY <2>1, <3>1, SavedKeeps DEF remote
      <3>3. Old(Sanitized(stored), i) = Old(Sanitized(stored'), i)
        BY <3>2, OldSanitized
      <3>. QED
        BY <2>1, <3>1, <3>2, <3>3 DEF Synced
    <2>. QED
      BY <2>2, <2>3 DEF SyncInv
  <1>5. CASE HydrateFromService
    <2>1. UNCHANGED <<stored, mode>> /\ mode = "service"
      BY <1>5 DEF HydrateFromService, remote
    <2>2. gui' = Sanitized(stored)
      BY <1>5, HydratedIsSanitized DEF HydrateFromService, Inv
    <2>. QED
      BY <2>1, <2>2 DEF SyncInv, Synced
  <1>6. CASE ReloadConfig /\ ~HydrateFromService
    BY <1>6 DEF ReloadConfig, SyncInv
  <1>7. CASE SwitchToServiceMode
    BY <1>7 DEF SwitchToServiceMode, SyncInv
  <1>8. CASE UNCHANGED vars
    BY <1>8 DEF vars, remote, memory, SyncInv, Synced
  <1>. QED
    BY <1>1, <1>2, <1>3, <1>4, <1>5, <1>6, <1>7, <1>8 DEF Next, ReloadConfig, ListPBSServers

\* A GUI whose copy came from the service changes there only the servers the user
\* edited (SaveFullConfigFromAPI, normalizeServerAuth).
THEOREM OthersAreKept == Spec => OthersKept
  <1>1. Init => Inv /\ SyncInv
    BY Start, SyncStart
  <1>2. Inv /\ SyncInv /\ [Next]_vars =>
          /\ Inv' /\ SyncInv'
          /\ [hydrated => \A i \in Servers \ touched' : Old(stored, i) = Old(stored', i)]_vars
    BY Step, SyncStep
  <1>. QED
    BY <1>1, <1>2, PTL DEF Spec, OthersKept

(***************************************************************************)
(*                       The token of the local API                        *)
(***************************************************************************)
----------------------------------------------------------------------------
(* The inductive invariant *)

\* The tokens so far, the parts of them a file may hold, and none.
Known(token) == token \in Int /\ -generated <= token /\ token <= generated

Rotations == {"idle", "installed", "opened", "failed"}
Services == [up : BOOLEAN, token : Int, prev : Int, grace : BOOLEAN,
             rotation : Rotations, replaced : Int]

Types ==
  /\ generated \in Nat /\ Known(file) /\ spoiled \in BOOLEAN
  /\ service \in Services
  /\ Known(service.token) /\ Known(service.replaced)

\* While no write has failed, the file holds the token of the service, or, inside
\* a rotation, the one it replaced, which is then in its grace.
FileInv ==
  service.up /\ ~spoiled =>
    /\ service.rotation = "idle" => file = service.token
    /\ service.rotation \in {"installed", "failed"} =>
         /\ file = service.replaced
         /\ file # NoToken => file = service.prev /\ service.grace
    /\ service.rotation = "opened" => file = NoToken

\* A service that is down knows no token.
DownInv == ~service.up => service.token = NoToken /\ service.rotation = "idle"

TokenInv == Types /\ FileInv /\ DownInv

----------------------------------------------------------------------------

LEMMA TokenStart ==
  ASSUME TokenInit
  PROVE  TokenInv
  <1>1. service \in Services /\ service.up /\ service.token = 1 /\ service.rotation = "idle"
        /\ service.replaced = 0
    BY DEF TokenInit, Services, Rotations, NoToken
  <1>2. file = 1 /\ generated = 1 /\ spoiled = FALSE
    BY DEF TokenInit
  <1>3. Known(0) /\ Known(1)
    BY <1>2 DEF Known
  <1>4. Types
    BY <1>1, <1>2, <1>3 DEF Types
  <1>. QED
    BY <1>1, <1>2, <1>4 DEF TokenInv, FileInv, DownInv

\* What a rotation and its rollback do to the token in memory.
LEMMA SetTokenFields ==
  ASSUME Types, NEW token \in Int,
         NEW rotation \in Rotations, SetToken(token, rotation)
  PROVE  /\ service' \in Services
         /\ service'.up = service.up /\ service'.token = token
         /\ service'.rotation = rotation /\ service'.replaced = service.token
         /\ service.token \notin {NoToken, token} => service'.prev = service.token /\ service'.grace
  BY DEF Types, Services, Rotations, SetToken, NoToken

LEMMA InstallStep ==
  ASSUME TokenInv, InstallToken
  PROVE  TokenInv'
  <1>1. /\ service.up /\ service.rotation = "idle" /\ SetToken(generated + 1, "installed")
        /\ generated' = generated + 1 /\ UNCHANGED <<file, spoiled>>
    BY DEF InstallToken
  <1>2. generated + 1 \in Int
    BY DEF TokenInv, Types
  <1>3. /\ service'.up /\ service'.token = generated + 1 /\ service'.rotation = "installed"
        /\ service'.replaced = service.token
        /\ service.token \notin {NoToken, generated + 1} =>
             service'.prev = service.token /\ service'.grace
    BY <1>1, <1>2, SetTokenFields DEF TokenInv, Rotations
  <1>4. Types'
    BY <1>1, <1>2, <1>3, SetTokenFields DEF TokenInv, Types, Known, Services, Rotations
  <1>5. service.token # generated + 1
    BY DEF TokenInv, Types, Known
  <1>6. FileInv'
    BY <1>1, <1>3, <1>5 DEF TokenInv, FileInv
  <1>. QED
    BY <1>3, <1>4, <1>6 DEF TokenInv, DownInv

LEMMA RollBackStep ==
  ASSUME TokenInv, RollBackToken
  PROVE  TokenInv'
  <1>1. /\ service.up /\ service.rotation = "failed" /\ SetToken(service.replaced, "idle")
        /\ UNCHANGED <<file, generated, spoiled>>
    BY DEF RollBackToken
  <1>2. service.replaced \in Int
    BY DEF TokenInv, Types, Services
  <1>3. /\ service'.up /\ service'.token = service.replaced /\ service'.rotation = "idle"
        /\ service'.replaced = service.token
    BY <1>1, <1>2, SetTokenFields DEF TokenInv, Rotations
  <1>4. Types'
    BY <1>1, <1>2, <1>3, SetTokenFields DEF TokenInv, Types, Known, Services, Rotations
  <1>. QED
    BY <1>1, <1>3, <1>4 DEF TokenInv, FileInv, DownInv

LEMMA PublishStep ==
  ASSUME TokenInv, OpenTokenFile \/ WriteTokenFile
  PROVE  TokenInv'
  <1>1. /\ service.up /\ service.rotation \in {"installed", "opened"} /\ UNCHANGED generated
        /\ \E rotation \in {"opened", "failed", "idle"} :
             service' = [service EXCEPT !.rotation = rotation]
        /\ file' \in {NoToken, -service.token, service.token, file} /\ spoiled' \in BOOLEAN
    BY DEF TokenInv, Types, OpenTokenFile, WriteTokenFile
  <1>2. /\ service' \in Services /\ service'.token = service.token
        /\ service'.replaced = service.replaced
    BY <1>1 DEF TokenInv, Types, Services, Rotations
  <1>3. Known(file')
    BY <1>1 DEF TokenInv, Types, Known, NoToken, Services
  <1>4. Types'
    BY <1>1, <1>2, <1>3 DEF TokenInv, Types, Known
  <1>5. FileInv'
    BY DEF TokenInv, Types, Services, FileInv, OpenTokenFile, WriteTokenFile
  <1>6. DownInv'
    BY <1>1 DEF TokenInv, Types, Services, DownInv
  <1>. QED
    BY <1>4, <1>5, <1>6 DEF TokenInv

LEMMA EndGraceStep ==
  ASSUME TokenInv, EndGrace
  PROVE  TokenInv'
  <1>1. /\ service.up /\ service.rotation = "idle" /\ service' = [service EXCEPT !.grace = FALSE]
        /\ UNCHANGED <<file, generated, spoiled>>
    BY DEF EndGrace
  <1>2. /\ service' \in Services /\ service'.token = service.token /\ service'.rotation = "idle"
        /\ service'.up /\ service'.replaced = service.replaced
    BY <1>1 DEF TokenInv, Types, Services
  <1>. QED
    BY <1>1, <1>2 DEF TokenInv, Types, Known, FileInv, DownInv

LEMMA CrashStep ==
  ASSUME TokenInv, Crash
  PROVE  TokenInv'
  <1>1. /\ service' = [service EXCEPT !.up = FALSE, !.token = NoToken, !.prev = NoToken,
                         !.grace = FALSE, !.rotation = "idle", !.replaced = NoToken]
        /\ file' \in {file, -service.token} /\ UNCHANGED <<generated, spoiled>>
    BY DEF Crash
  <1>2. service' = [up |-> FALSE, token |-> 0, prev |-> 0, grace |-> FALSE, rotation |-> "idle",
                    replaced |-> 0]
    BY <1>1 DEF TokenInv, Types, Services, NoToken
  <1>3. service' \in Services
    BY <1>2 DEF Services, Rotations
  <1>4. Known(file') /\ Known(0)
    BY <1>1 DEF TokenInv, Types, Services, Known
  <1>. QED
    BY <1>1, <1>2, <1>3, <1>4 DEF TokenInv, Types, Known, FileInv, DownInv, NoToken

\* A service that starts has the token of the file, or, when it could not write a
\* new one, none: the file is empty then.
LEMMA StartServiceStep ==
  ASSUME TokenInv, StartService
  PROVE  TokenInv'
  <1>1. ~service.up /\ service.rotation = "idle" /\ service.token = 0 /\ spoiled' = FALSE
    BY DEF StartService, TokenInv, DownInv, NoToken
  <1>2. PICK token \in Int :
          /\ service' = [service EXCEPT !.up = TRUE, !.token = token]
          /\ token = file' /\ Known(file)'
          /\ generated' \in {generated, generated + 1}
    <2>1. CASE /\ file # NoToken /\ service' = [service EXCEPT !.up = TRUE, !.token = file]
               /\ UNCHANGED <<file, generated, tokenFaults>>
      BY <2>1 DEF TokenInv, Types, Known
    <2>2. CASE /\ generated' = generated + 1 /\ file' = generated + 1
               /\ service' = [service EXCEPT !.up = TRUE, !.token = generated + 1]
      <3>1. generated + 1 \in Int /\ Known(file)'
        BY <2>2 DEF TokenInv, Types, Known
      <3>. QED
        BY <2>2, <3>1
    <2>3. CASE /\ file = NoToken /\ generated' = generated + 1 /\ UNCHANGED file
               /\ service' = [service EXCEPT !.up = TRUE]
      <3>1. service' = [service EXCEPT !.up = TRUE, !.token = 0]
        BY <1>1, <2>3 DEF TokenInv, Types, Services
      <3>2. 0 \in Int /\ Known(file)' /\ file' = 0
        BY <2>3 DEF TokenInv, Types, Known, NoToken
      <3>. QED
        BY <2>3, <3>1, <3>2
    <2>. QED
      BY <2>1, <2>2, <2>3 DEF StartService
  <1>3. /\ service' \in Services /\ service'.token = file' /\ service'.up
        /\ service'.rotation = "idle" /\ service'.replaced = service.replaced
    BY <1>1, <1>2 DEF TokenInv, Types, Services
  <1>4. generated' \in Nat /\ Known(file)' /\ Known(service.replaced)'
    BY <1>2, <1>3 DEF TokenInv, Types, Known
  <1>. QED
    BY <1>1, <1>3, <1>4 DEF TokenInv, Types, Known, FileInv, DownInv

\* Nothing the application does changes the service or the file.
LEMMA ApplicationStep ==
  ASSUME \/ ProbeService \/ FetchAtLaunch \/ ProbeAgain \/ TokenForServiceMode \/ EndCooldown
         \/ \E r \in Requests :
              \/ BeginRequest(r) \/ Send(r) \/ CheckRefreshed(r) \/ EnterHook(r) \/ FetchToken(r)
              \/ StoreToken(r) \/ Resend(r) \/ NextRequest(r)
  PROVE  UNCHANGED <<service, file, generated, spoiled>>
  BY DEF serviceVars, ProbeService, FetchAtLaunch, ProbeAgain, TokenForServiceMode, EndCooldown,
         BeginRequest, Send, CheckRefreshed, EnterHook, FetchToken, StoreToken, Resend, NextRequest

LEMMA TokenStep ==
  ASSUME TokenInv, [TokenNext]_tokenVars
  PROVE  TokenInv'
  <1>1. CASE UNCHANGED <<service, file, generated, spoiled>>
    BY <1>1 DEF TokenInv, Types, Known, FileInv, DownInv
  <1>2. CASE UNCHANGED tokenVars
    BY <1>1, <1>2 DEF tokenVars
  <1>. QED
    BY <1>1, <1>2, InstallStep, RollBackStep, PublishStep, EndGraceStep,
       CrashStep, StartServiceStep, ApplicationStep DEF TokenNext

\* As long as no write of the token file failed, what a client can read in it is
\* accepted by a service that has a token: in a rotation, its rollback, after a
\* crash in the middle of one, and after a restart (Rotate, EnsureToken).
THEOREM FileIsAccepted == TokenSpec => []FileAccepted
  <1>1. ASSUME TokenInv
        PROVE  FileAccepted
    BY <1>1 DEF TokenInv, Types, Services, Rotations, FileInv, DownInv, FileAccepted, Accepted
  <1>. QED
    BY <1>1, TokenStart, TokenStep, PTL DEF TokenSpec

----------------------------------------------------------------------------
(* A rotation is not seen *)

Modes == {"launching", "service", "no_service", "unauthorized", "fetched", "auth_failed"}
Labels == {"idle", "sending", "refreshing", "resending", "waiting", "fetching", "storing",
           "ok", "failed", "rejected"}
Apps == [mode : Modes, canRead : BOOLEAN, env : Int, override : Int, cooling : BOOLEAN,
         holder : Requests \cup {None}]
Replies == [pc : Labels, sent : Int, token : Int]

AppTypes == app \in Apps /\ req \in [Requests -> Replies]

\* A request on its way that nothing has disturbed.
Undisturbed(r) == r \in InFlight /\ r \notin excused

\* What such a request relies on: the file can be used, the token kept for all is
\* still the one it was sent with unless it is accepted, and the token it is about
\* to keep is accepted too.
Quiet(r) ==
  /\ ~Unusable /\ app.mode = "service"
  /\ Accepted(app.override) \/ (~At(r, "resending") /\ ResolveToken = req[r].sent)
  /\ At(r, "storing") => Accepted(req[r].token)

UnseenInv ==
  \A r \in Requests : /\ Undisturbed(r) => Quiet(r)
                      /\ At(r, "rejected") => r \in excused

Quieted == TokenInv /\ AppTypes /\ UnseenInv

LEMMA QuietStart ==
  ASSUME TokenInit
  PROVE  Quieted
  <1>1. TokenInv
    BY TokenStart
  <1>2. AppTypes
    <2>1. req \in [Requests -> Replies]
      BY DEF TokenInit, Replies, Labels, NoToken
    <2>2. app \in [mode : {"launching"}, canRead : BOOLEAN, env : {0, 1}, override : {0},
                   cooling : {FALSE}, holder : {None}]
      BY DEF TokenInit, NoToken
    <2>3. app = [mode |-> app.mode, canRead |-> app.canRead, env |-> app.env,
                 override |-> app.override, cooling |-> app.cooling, holder |-> app.holder]
      BY <2>2
    <2>4. /\ app.mode \in Modes /\ app.canRead \in BOOLEAN /\ app.env \in Int
          /\ app.override \in Int /\ app.holder \in Requests \cup {None}
      BY <2>2 DEF Modes
    <2>5. app.cooling \in BOOLEAN
      BY <2>2, Zenon
    <2>6. app \in Apps
      BY <2>3, <2>4, <2>5 DEF Apps
    <2>. QED
      BY <2>1, <2>6 DEF AppTypes
  <1>3. UnseenInv
    BY DEF TokenInit, UnseenInv, Undisturbed, InFlight, Ended, At
  <1>. QED
    BY <1>1, <1>2, <1>3 DEF Quieted

\* What can be read in a file in order is accepted.
LEMMA UsableAccepted ==
  ASSUME TokenInv, ~Unusable
  PROVE  Accepted(file)
  BY DEF TokenInv, Types, Services, Rotations, FileInv, DownInv, Unusable, Accepted

LEMMA AppTypesStep ==
  ASSUME TokenInv, AppTypes, [TokenNext]_tokenVars
  PROVE  AppTypes'
  <1>1. file \in Int /\ ResolveToken \in Int /\ NoToken \in Int
    BY DEF TokenInv, Types, Known, AppTypes, Apps, ResolveToken, NoToken
  <1>2. CASE UNCHANGED <<app, req>>
    BY <1>2 DEF AppTypes
  <1>3. CASE ProbeService \/ ProbeAgain \/ TokenForServiceMode \/ EndCooldown \/ FetchAtLaunch
    <2>1. app \in Apps /\ app.mode \in Modes /\ app.override \in Int BY DEF AppTypes, Apps
    <2>2. req' = req
      BY <1>3 DEF ProbeService, ProbeAgain, TokenForServiceMode, EndCooldown, FetchAtLaunch
    <2>3. CASE EndCooldown
      <3>1. app' = [app EXCEPT !.cooling = FALSE] BY <2>3 DEF EndCooldown
      <3>2. app' \in Apps BY <2>1, <3>1 DEF Apps
      <3> QED BY <2>2, <3>2 DEF AppTypes
    <2>4. ASSUME NEW now \in Modes, NEW token \in Int,
                 app' = [app EXCEPT !.mode = now, !.override = token]
          PROVE  AppTypes'
      <3>1. app' \in Apps BY <2>1, <2>4 DEF Apps
      <3> QED BY <2>2, <3>1 DEF AppTypes
    <2>5. \A now \in Modes : app' = [app EXCEPT !.mode = now] => AppTypes'
      <3>1. \A now \in Modes :
              [app EXCEPT !.mode = now] = [app EXCEPT !.mode = now, !.override = app.override]
        BY <2>1 DEF Apps
      <3> QED BY <2>1, <2>4, <3>1
    <2>6. CASE ProbeService
      <3>1. \E now \in Modes : app' = [app EXCEPT !.mode = now] BY <2>6 DEF ProbeService, Modes
      <3> QED BY <2>5, <3>1
    <2>7. CASE ProbeAgain
      <3>1. \/ app' = [app EXCEPT !.mode = "service"]
            \/ app' = [app EXCEPT !.mode = "auth_failed", !.override = NoToken]
        BY <2>7 DEF ProbeAgain
      <3> QED BY <1>1, <2>4, <2>5, <3>1 DEF Modes
    <2>8. CASE TokenForServiceMode
      <3>1. app' = [app EXCEPT !.mode = "service"] BY <2>8 DEF TokenForServiceMode
      <3> QED BY <2>5, <3>1 DEF Modes
    <2>9. CASE FetchAtLaunch
      <3>1. \/ \E token \in FetchedTokens :
                 app' = [app EXCEPT !.mode = IF token = NoToken THEN "auth_failed" ELSE "fetched",
                                    !.override = token]
            \/ app' = [app EXCEPT !.mode = "auth_failed"]
        BY <2>9 DEF FetchAtLaunch
      <3>2. FetchedTokens \subseteq Int BY <1>1 DEF FetchedTokens
      <3>3. {"auth_failed", "fetched"} \subseteq Modes BY DEF Modes
      <3> QED BY <2>4, <2>5, <3>1, <3>2, <3>3
    <2> QED BY <1>3, <2>3, <2>6, <2>7, <2>8, <2>9
  <1>4. ASSUME NEW r \in Requests,
               BeginRequest(r) \/ Send(r) \/ CheckRefreshed(r) \/ Resend(r) \/ NextRequest(r)
        PROVE  AppTypes'
    BY <1>1, <1>4 DEF AppTypes, Replies, Labels, Goto, BeginRequest, Send, CheckRefreshed,
       Resend, NextRequest
  <1>5. ASSUME NEW r \in Requests, EnterHook(r) \/ StoreToken(r)
        PROVE  AppTypes'
    BY <1>5 DEF AppTypes, Apps, Replies, Labels, Goto, EnterHook, StoreToken
  <1>6. ASSUME NEW r \in Requests, FetchToken(r)
        PROVE  AppTypes'
    <2>1. PICK token \in FetchedTokens :
            IF token = NoToken
              THEN /\ Goto(r, "rejected")
                   /\ app' = [app EXCEPT !.holder = None, !.cooling = TRUE]
              ELSE /\ req' = [req EXCEPT ![r].pc = "storing", ![r].token = token]
                   /\ app' = [app EXCEPT !.holder = None]
      BY <1>6 DEF FetchToken
    <2>2. token \in Int
      BY <1>1 DEF FetchedTokens
    <2>3. app' \in Apps
      BY <2>1 DEF AppTypes, Apps
    <2>4. req' \in [Requests -> Replies]
      BY <2>1, <2>2 DEF AppTypes, Replies, Labels, Goto
    <2>. QED
      BY <2>3, <2>4 DEF AppTypes
  <1>7. CASE \/ InstallToken \/ OpenTokenFile \/ WriteTokenFile \/ RollBackToken \/ EndGrace
             \/ Crash \/ StartService \/ UNCHANGED tokenVars
    BY <1>2, <1>7 DEF InstallToken, OpenTokenFile, WriteTokenFile, RollBackToken, EndGrace,
       Crash, StartService, appVars, tokenVars
  <1>. QED
    BY <1>3, <1>4, <1>5, <1>6, <1>7 DEF TokenNext

\* A rotation that revokes no token in its grace leaves every accepted token accepted.
LEMMA AcceptedThroughInstall ==
  ASSUME TokenInv, InstallToken, ~service.grace, NEW token \in Int, Accepted(token)
  PROVE  Accepted(token)'
  <1>1. service.up /\ SetToken(generated + 1, "installed")
    BY DEF InstallToken
  <1>2. generated + 1 \in Int /\ service.token # generated + 1 /\ generated + 1 # NoToken
    BY DEF TokenInv, Types, Known, NoToken
  <1>3. /\ service'.up /\ service'.token = generated + 1
        /\ service.token \notin {NoToken, generated + 1} =>
             service'.prev = service.token /\ service'.grace
    BY <1>1, <1>2, SetTokenFields DEF TokenInv, Rotations
  <1>. QED
    BY <1>2, <1>3 DEF Accepted

LEMMA QuietInstall ==
  ASSUME Quieted, InstallToken
  PROVE  UnseenInv'
  <1>1. UNCHANGED <<app, req, file, spoiled>> /\ excused \subseteq excused'
    BY DEF InstallToken
  <1>2. service'.token # NoToken
    <2>1. SetToken(generated + 1, "installed") /\ generated + 1 # NoToken
          /\ generated + 1 \in Int
      BY DEF InstallToken, Quieted, TokenInv, Types, NoToken
    <2>. QED
      BY <2>1, SetTokenFields DEF Quieted, TokenInv, Rotations
  <1>3. SUFFICES ASSUME NEW r \in Requests, Undisturbed(r)'
                 PROVE  Quiet(r)'
    BY <1>1 DEF UnseenInv, Quieted, At
  <1>4. Undisturbed(r) /\ ~service.grace
    BY <1>1, <1>3 DEF Undisturbed, InFlight, InstallToken
  <1>5. Quiet(r)
    BY <1>4 DEF Quieted, UnseenInv
  <1>6. app.override \in Int /\ req[r].token \in Int
    BY DEF Quieted, AppTypes, Apps, Replies
  <1>7. /\ Accepted(app.override) => Accepted(app.override)'
        /\ Accepted(req[r].token) => Accepted(req[r].token)'
    BY <1>1, <1>4, <1>6, AcceptedThroughInstall DEF Quieted, Accepted
  <1>. QED
    BY <1>1, <1>2, <1>5, <1>7 DEF Quiet, Unusable, At, ResolveToken

\* The other steps of the service disturb every request on its way, or end a
\* rotation, in which none is undisturbed.
LEMMA QuietService ==
  ASSUME Quieted,
         OpenTokenFile \/ WriteTokenFile \/ RollBackToken \/ EndGrace \/ Crash \/ StartService
  PROVE  UnseenInv'
  <1>1. UNCHANGED <<app, req>> /\ excused \subseteq excused'
    BY DEF OpenTokenFile, WriteTokenFile, RollBackToken, EndGrace, Crash, StartService,
       appVars, Disturb
  <1>2. SUFFICES ASSUME NEW r \in Requests, Undisturbed(r)'
                 PROVE  FALSE
    BY <1>1 DEF UnseenInv, Quieted, At
  <1>3. InFlight' = InFlight /\ Undisturbed(r)
    BY <1>1, <1>2 DEF Undisturbed, InFlight
  <1>4. CASE OpenTokenFile \/ RollBackToken \/ EndGrace \/ Crash \/ StartService
    BY <1>2, <1>3, <1>4 DEF Undisturbed, OpenTokenFile, RollBackToken, EndGrace, Crash,
       StartService, Disturb
  <1>5. CASE WriteTokenFile
    <2>1. ~Unusable
      BY <1>3 DEF Quieted, UnseenInv, Quiet
    <2>2. service.up /\ service.rotation = "opened"
      BY <1>5 DEF WriteTokenFile
    <2>. QED
      BY <2>1, <2>2 DEF Quieted, TokenInv, FileInv, Unusable
  <1>. QED
    BY <1>4, <1>5

\* A launch is over before the first request.
LEMMA QuietLaunch ==
  ASSUME Quieted, ProbeService \/ FetchAtLaunch \/ ProbeAgain \/ TokenForServiceMode \/ EndCooldown
  PROVE  UnseenInv'
  <1>1. UNCHANGED <<service, file, spoiled, req, excused>>
    BY DEF ProbeService, FetchAtLaunch, ProbeAgain, TokenForServiceMode, EndCooldown,
       serviceVars, Renewed
  <1>2. SUFFICES ASSUME NEW r \in Requests, Undisturbed(r)'
                 PROVE  Quiet(r)'
    BY <1>1 DEF UnseenInv, Quieted, At
  <1>3. Quiet(r)
    BY <1>1, <1>2 DEF Undisturbed, InFlight, Quieted, UnseenInv
  <1>4. EndCooldown
    BY <1>3 DEF Quiet, ProbeService, FetchAtLaunch, ProbeAgain, TokenForServiceMode
  <1>5. /\ app'.mode = app.mode /\ app'.override = app.override /\ app'.env = app.env
        /\ app'.canRead = app.canRead
    BY <1>4 DEF EndCooldown, Quieted, AppTypes, Apps
  <1>. QED
    BY <1>1, <1>3, <1>5 DEF Quiet, Unusable, Accepted, At, ResolveToken

\* A request moves, and the token kept for all stays.
LEMMA QuietRequest ==
  ASSUME Quieted, NEW q \in Requests,
         \/ BeginRequest(q) \/ Send(q) \/ CheckRefreshed(q) \/ EnterHook(q) \/ FetchToken(q)
         \/ Resend(q) \/ NextRequest(q)
  PROVE  UnseenInv'
  <1>1. UNCHANGED <<service, file, spoiled>>
    BY ApplicationStep
  <1>2. /\ app'.mode = app.mode /\ app'.override = app.override /\ app'.env = app.env
        /\ app'.canRead = app.canRead
    BY DEF BeginRequest, Send, CheckRefreshed, EnterHook, FetchToken, Resend, NextRequest,
       Quieted, AppTypes, Apps
  <1>3. /\ Unusable' = Unusable /\ ResolveToken' = ResolveToken
        /\ Accepted(app.override)' = Accepted(app.override)
    BY <1>1, <1>2 DEF Unusable, Accepted, ResolveToken
  <1>4. /\ \A r \in Requests \ {q} : req'[r] = req[r]
        /\ excused \ {q} \subseteq excused'
        /\ ~NextRequest(q) => excused \subseteq excused'
        /\ req' = [req EXCEPT ![q] = req'[q]]
    BY DEF BeginRequest, Send, CheckRefreshed, EnterHook, FetchToken, Resend, NextRequest, Goto,
       Quieted, AppTypes
  <1>5. ASSUME NEW r \in Requests \ {q}
        PROVE  /\ Undisturbed(r)' => Quiet(r)'
               /\ At(r, "rejected")' => (r \in excused)'
    <2>1. At(r, "rejected")' => (r \in excused)'
      BY <1>4, <1>5 DEF Quieted, UnseenInv, At
    <2>2. Undisturbed(r)' => Undisturbed(r)
      BY <1>4, <1>5 DEF Undisturbed, InFlight
    <2>3. req'[r] = req[r] /\ Accepted(req[r].token)' = Accepted(req[r].token)
      BY <1>1, <1>4, <1>5 DEF Accepted
    <2>. QED
      BY <1>2, <1>3, <2>1, <2>2, <2>3 DEF Quieted, UnseenInv, Quiet, At
  <1>6. /\ Undisturbed(q)' => Quiet(q)'
        /\ At(q, "rejected")' => (q \in excused)'
    <2>1. CASE NextRequest(q)
      BY <2>1 DEF NextRequest, Undisturbed, InFlight, Ended, At, Quieted, AppTypes
    <2>2. CASE BeginRequest(q)
      BY <1>3, <2>2 DEF BeginRequest, Undisturbed, At, Quiet, Quieted, AppTypes, Replies
    <2>3. CASE Send(q)
      BY <1>2, <1>3, <2>3 DEF Send, Goto, Undisturbed, InFlight, Ended, At, Quiet, Quieted,
         UnseenInv, AppTypes, Replies
    <2>4. CASE CheckRefreshed(q)
      BY <1>2, <1>3, <2>4 DEF CheckRefreshed, Goto, Undisturbed, InFlight, Ended, At, Quiet,
         Quieted, UnseenInv, AppTypes, Replies
    <2>5. CASE EnterHook(q)
      BY <1>1, <1>2, <1>3, <2>5 DEF EnterHook, Goto, Undisturbed, InFlight, Ended, At, Quiet,
         Quieted, UnseenInv, AppTypes, Replies, ResolveToken, Accepted
    <2>6. CASE FetchToken(q)
      BY <1>1, <1>2, <1>3, <2>6, UsableAccepted DEF FetchToken, FetchedTokens, Goto, Undisturbed,
         InFlight, Ended, At, Quiet, Quieted, UnseenInv, AppTypes, Replies, Accepted
    <2>7. CASE Resend(q)
      BY <2>7 DEF Resend, Goto, Undisturbed, InFlight, Ended, At, Quiet, Quieted,
         UnseenInv, AppTypes, Replies, ResolveToken, Accepted
    <2>. QED
      BY <2>1, <2>2, <2>3, <2>4, <2>5, <2>6, <2>7
  <1>. QED
    BY <1>5, <1>6 DEF UnseenInv

\* The token that is kept for all is accepted, or the other requests are disturbed.
LEMMA QuietStore ==
  ASSUME Quieted, NEW q \in Requests, StoreToken(q)
  PROVE  UnseenInv'
  <1>1. /\ UNCHANGED <<service, file, spoiled>>
        /\ app' = [app EXCEPT !.override = req[q].token]
        /\ req' = [req EXCEPT ![q].pc = "resending"]
        /\ excused' = IF Accepted(req[q].token) THEN excused ELSE excused \cup (InFlight \ {q})
    BY DEF StoreToken, Goto, serviceVars
  <1>2. app'.mode = app.mode /\ app'.override = req[q].token
    BY <1>1 DEF Quieted, AppTypes, Apps
  <1>3. SUFFICES ASSUME NEW r \in Requests, Undisturbed(r)'
                 PROVE  Quiet(r)'
    BY <1>1 DEF UnseenInv, Quieted, At, AppTypes, Replies
  <1>4. Undisturbed(r)
    BY <1>1, <1>3 DEF Undisturbed, InFlight, Ended, Quieted, AppTypes, Replies, StoreToken, At
  <1>5. Quiet(r)
    BY <1>4 DEF Quieted, UnseenInv
  <1>6. Accepted(req[q].token)
    <2>1. CASE r = q
      BY <1>5, <2>1 DEF Quiet, StoreToken
    <2>2. CASE r # q
      BY <1>1, <1>3, <1>4, <2>2 DEF Undisturbed
    <2>. QED
      BY <2>1, <2>2
  <1>7. Accepted(app.override)'
    BY <1>1, <1>2, <1>6 DEF Accepted
  <1>8. At(r, "storing")' => Accepted(req[r].token)'
    BY <1>1, <1>5 DEF Quiet, At, Accepted, Quieted, AppTypes, Replies
  <1>. QED
    BY <1>1, <1>2, <1>5, <1>7, <1>8 DEF Quiet, Unusable

LEMMA QuietStep ==
  ASSUME Quieted, [TokenNext]_tokenVars
  PROVE  Quieted'
  <1>1. SUFFICES UnseenInv'
    BY TokenStep, AppTypesStep DEF Quieted
  <1>2. CASE UNCHANGED tokenVars
    <2>1. /\ Unusable' = Unusable /\ ResolveToken' = ResolveToken /\ InFlight' = InFlight
          /\ UNCHANGED <<service, app, req, excused>>
      BY <1>2 DEF tokenVars, Unusable, ResolveToken, InFlight
    <2>. QED
      BY <2>1 DEF Quieted, UnseenInv, Undisturbed, At, Quiet, Accepted
  <1>3. CASE \E r \in Requests :
               \/ BeginRequest(r) \/ Send(r) \/ CheckRefreshed(r) \/ EnterHook(r) \/ FetchToken(r)
               \/ StoreToken(r) \/ Resend(r) \/ NextRequest(r)
    BY <1>3, QuietRequest, QuietStore
  <1>4. CASE \/ InstallToken \/ OpenTokenFile \/ WriteTokenFile \/ RollBackToken \/ EndGrace
             \/ Crash \/ StartService
             \/ ProbeService \/ FetchAtLaunch \/ ProbeAgain \/ TokenForServiceMode \/ EndCooldown
    BY <1>4, QuietInstall, QuietService, QuietLaunch
  <1>. QED
    BY <1>2, <1>3, <1>4 DEF TokenNext

\* "Callers never see a rotation", for any number of requests, rotations, prompts
\* and failures: a request whose way nothing disturbed is not answered 401
\* (RoundTrip of reauth.go, the hook of token_refresh.go).
THEOREM CallersSeeNoRotation == TokenSpec => []RotationUnseen
  <1>1. ASSUME Quieted
        PROVE  RotationUnseen
    BY <1>1 DEF Quieted, UnseenInv, RotationUnseen
  <1>. QED
    BY <1>1, QuietStart, QuietStep, PTL DEF TokenSpec
==============================================================================
