---------------------------- MODULE ProfileStore ----------------------------
(* The list of profiles (Profiles in providers/database.dart): each operation  *)
(* changes the list at once and sends the write to the database; a write that  *)
(* fails puts the list back to what it was before; a write that succeeds makes *)
(* the stream read the table again, and what it read becomes the list.  On top *)
(* of it, ProfilesAction: adding, editing, downloading and deleting a profile. *)
EXTENDS Naturals, Sequences

CONSTANTS Profiles,
          MaxEdits,            \* bound: changes of a part of a profile
          MaxWrites,           \* bound: writes of a behaviour
          NoProfile            \* null; also the row of a profile that is not there

(* null is neither a profile nor a row, and no profile is called as an excuse. *)
ASSUME StoreAssumption ==
    /\ {MaxEdits, MaxWrites} \subseteq Nat
    /\ NoProfile \notin Profiles \cup [auto : Nat, label : Nat, file : Nat]
    /\ Profiles \cap {"list", "current", "null"} = {}

VARIABLES
    list,        \* Profiles.state
    db,          \* the table
    writes,      \* writes sent so far
    requests,    \* to the database isolate: writes and queries
    replies,     \* from it
    current,     \* currentProfileId
    deleting,    \* deleteProfile has asked for the keys to be deleted
    download,    \* updateProfile: the profile it was called with, or NoProfile
    loop,        \* autoUpdateProfiles: the profiles it still goes through
    menu,        \* the profile a menu was opened for, as it was then
    fresh,       \* ids not used yet
    wanted,      \* history: each row as the operations, in their order, want it
    excused      \* history: profiles, "list", "current" and "null" (see below)

rows == <<list, db>>
isolate == <<writes, requests, replies>>
operations == <<deleting, download, loop, menu, fresh>>
storeVars == <<rows, isolate, current, operations, wanted, excused>>

Empty == [p \in Profiles |-> NoProfile]

StoreInit ==
    /\ list = Empty /\ db = Empty /\ wanted = Empty
    /\ writes = 0 /\ requests = <<>> /\ replies = <<>>
    /\ current = NoProfile
    /\ deleting = {} /\ fresh = Profiles
    /\ download = Empty /\ loop = Empty /\ menu = Empty
    /\ excused = {}

StoreRest == requests = <<>> /\ replies = <<>>
MayWrite == writes < MaxWrites
Known(p) == list[p] = NoProfile <=> wanted[p] = NoProfile
Except(wrong, what) == IF wrong THEN {what} ELSE {}

(* A bug: what is put back after a failure is the list with the change.        *)
withRollback_Late(p, row) ==
    /\ MayWrite /\ writes' = writes + 1
    /\ list' = [list EXCEPT ![p] = row]
    /\ requests' = Append(requests, [op |-> "write", p |-> p, row |-> row,
                                     snapshot |-> list', alone |-> StoreRest])

(* put, updateProfile and del of Profiles: the list changes at once, the write *)
(* is sent with the list as it was.                                            *)
withRollback(p, row) ==
    /\ MayWrite /\ writes' = writes + 1
    /\ list' = [list EXCEPT ![p] = row]
    /\ requests' = Append(requests, [op |-> "write", p |-> p, row |-> row,
                                     snapshot |-> list, alone |-> StoreRest])

(* A profile that was read earlier, kept, is stored as row: what the user wants *)
(* is the change to the profile as it is now.  One that was deleted in between *)
(* comes back.                                                                 *)
put(p, kept, row, change) ==
    /\ withRollback(p, row)
    /\ wanted' = [wanted EXCEPT ![p] = IF @ = NoProfile THEN row ELSE change]
    /\ excused' = excused
         \cup Except(kept # wanted[p], p)
         \cup Except(wanted[p] = NoProfile /\ current = NoProfile, "null")

(* addProfile...: the file is there, putProfile and activateProfile.           *)
AddProfile(p) ==
    /\ p \in fresh
    /\ LET row == [auto |-> 0, label |-> 0, file |-> 0]
       IN withRollback(p, row) /\ wanted' = [wanted EXCEPT ![p] = row]
    /\ fresh' = fresh \ {p} /\ current' = p
    /\ UNCHANGED <<db, replies, deleting, download, loop, menu, excused>>

(* A menu is opened for a profile of the list; the one before it is closed.    *)
OpenMenu(p) ==
    /\ list[p] # NoProfile /\ list[p].label < MaxEdits /\ MayWrite
    /\ menu' = [Empty EXCEPT ![p] = list[p]]
    /\ UNCHANGED <<rows, isolate, current, deleting, download, loop, fresh, wanted, excused>>

(* setProfileAutoUpdate...: the row of the list with a change.                 *)
setProfileAutoUpdate(p) ==
    /\ list[p] # NoProfile /\ list[p].auto < MaxEdits
    /\ LET auto == list[p].auto + 1
       IN put(p, list[p], [list[p] EXCEPT !.auto = auto], [wanted[p] EXCEPT !.auto = auto])
    /\ UNCHANGED <<db, replies, current, operations>>

(* renameProfile: the profile of the menu with a label, whatever has become of *)
(* the row since the menu was opened.                                          *)
renameProfile(p) ==
    /\ menu[p] # NoProfile
    /\ LET label == menu[p].label + 1
       IN put(p, menu[p], [menu[p] EXCEPT !.label = label], [wanted[p] EXCEPT !.label = label])
    /\ menu' = Empty
    /\ UNCHANGED <<db, replies, current, deleting, download, loop, fresh>>

(* A tap makes a profile the current one.                                      *)
ActivateProfile(p) ==
    /\ list[p] # NoProfile
    /\ current' = p
    /\ excused' = excused \cup Except(~Known(p), "current")
    /\ UNCHANGED <<rows, isolate, operations, wanted>>

(* updateProfile stores the profile it is given and downloads.                 *)
updateProfile(p, profile) ==
    /\ profile # NoProfile /\ download[p] = NoProfile /\ profile.file < MaxEdits
    /\ put(p, profile, profile, wanted[p])
    /\ download' = [download EXCEPT ![p] = profile]
    /\ UNCHANGED <<db, replies, current, deleting, menu, fresh>>

RefreshProfile(p) == updateProfile(p, list[p]) /\ UNCHANGED loop

(* It goes through the list it has read, whatever happens to it meanwhile.     *)
AutoUpdateProfiles ==
    /\ loop = Empty /\ list # Empty /\ MayWrite
    /\ loop' = list
    /\ UNCHANGED <<rows, isolate, current, deleting, download, menu, fresh, wanted, excused>>

AutoUpdateNext(p) ==
    /\ loop' = [loop EXCEPT ![p] = NoProfile]
    /\ updateProfile(p, loop[p])

(* Then it stores that profile again with the new file.                        *)
Downloaded(p) ==
    /\ download[p] # NoProfile
    /\ LET file == download[p].file + 1
       IN put(p, download[p], [download[p] EXCEPT !.file = file], [wanted[p] EXCEPT !.file = file])
    /\ download' = [download EXCEPT ![p] = NoProfile]
    /\ UNCHANGED <<db, replies, current, deleting, loop, menu, fresh>>

(* A bug: a download that fails stores the profile it began with again.        *)
DownloadFails_Restores(p) ==
    /\ download[p] # NoProfile
    /\ withRollback(p, download[p])
    /\ download' = [download EXCEPT ![p] = NoProfile]
    /\ UNCHANGED <<db, replies, current, deleting, loop, menu, fresh, wanted, excused>>

DownloadFails(p) ==
    /\ download[p] # NoProfile
    /\ download' = [download EXCEPT ![p] = NoProfile]
    /\ UNCHANGED <<rows, isolate, current, deleting, loop, menu, fresh, wanted, excused>>

DeleteProfile(p) ==
    /\ list[p] # NoProfile /\ p \notin deleting /\ MayWrite
    /\ deleting' = deleting \cup {p}
    /\ UNCHANGED <<rows, isolate, current, download, loop, menu, fresh, wanted, excused>>

(* A bug: the next current profile is chosen before the profile is removed.    *)
KeysDeleted_Early(p) ==
    /\ p \in deleting /\ deleting' = deleting \ {p}
    /\ withRollback(p, NoProfile)
    /\ wanted' = [wanted EXCEPT ![p] = NoProfile]
    /\ IF current = p
       THEN IF list = Empty THEN current' = NoProfile
            ELSE current' \in {q \in Profiles : list[q] # NoProfile}
       ELSE UNCHANGED current
    /\ UNCHANGED <<db, replies, download, loop, menu, fresh, excused>>

(* deleteProfile after its await: del, and another current profile if needed.  *)
KeysDeleted(p) ==
    /\ p \in deleting /\ deleting' = deleting \ {p}
    /\ withRollback(p, NoProfile)
    /\ wanted' = [wanted EXCEPT ![p] = NoProfile]
    /\ IF current = p
       THEN IF list' = Empty THEN current' = NoProfile
            ELSE current' \in {q \in Profiles : list'[q] # NoProfile}
       ELSE UNCHANGED current
    /\ excused' = excused
         \cup Except(current = p /\ \E q \in Profiles \ {p} : ~Known(q), "current")
    /\ UNCHANGED <<db, replies, download, loop, menu, fresh>>

(* The database handles the next request.                                      *)
Handle(kind, table, value) ==
    /\ db' = table
    /\ replies' = Append(replies, [kind |-> kind, value |-> value])
    /\ requests' = Tail(requests)
    /\ UNCHANGED <<list, writes, current, operations, wanted>>

WriteDone ==
    /\ requests # <<>> /\ Head(requests).op = "write"
    /\ LET w == Head(requests)
       IN Handle("done", [db EXCEPT ![w.p] = w.row], Empty)
    /\ UNCHANGED excused

WriteFails ==
    /\ requests # <<>> /\ Head(requests).op = "write"
    /\ LET w == Head(requests)
       IN /\ Handle("failed", db, w.snapshot)
          /\ excused' = excused \cup {w.p, "current"} \cup Except(~w.alone, "list")

QueryDone ==
    /\ requests # <<>> /\ Head(requests).op = "query"
    /\ Handle("rows", db, db)
    /\ UNCHANGED excused

(* Its answer: a stream that must read again, a list put back, a list read.    *)
Reply ==
    /\ replies # <<>>
    /\ replies' = Tail(replies)
    /\ LET r == Head(replies)
       IN IF r.kind = "done"
          THEN requests' = Append(requests, [op |-> "query"]) /\ UNCHANGED list
          ELSE list' = r.value /\ UNCHANGED requests
    /\ UNCHANGED <<db, writes, current, operations, wanted, excused>>

StoreNext ==
    \/ \E p \in Profiles :
         \/ AddProfile(p) \/ OpenMenu(p) \/ ActivateProfile(p)
         \/ setProfileAutoUpdate(p) \/ renameProfile(p)
         \/ RefreshProfile(p) \/ AutoUpdateNext(p)
         \/ Downloaded(p) \/ DownloadFails(p)
         \/ DeleteProfile(p) \/ KeysDeleted(p)
    \/ AutoUpdateProfiles
    \/ WriteDone \/ WriteFails \/ QueryDone \/ Reply

StoreSpec == StoreInit /\ [][StoreNext]_storeVars

-----------------------------------------------------------------------------
(* At rest the list is the table, whatever writes failed and in whatever state *)
(* of the list they began, except when a write failed that was not alone: it   *)
(* puts back more than its own change.                                         *)
ListAgrees == StoreRest /\ "list" \notin excused => list = db

(* At rest the table holds each profile as the operations, in their order,     *)
(* want it.  The exceptions are the profiles                                   *)
(*   - of which one was stored that had been read before its last change: a    *)
(*     rename puts back the profile its menu was opened for, a download the    *)
(*     one it began with, autoUpdateProfiles the one its loop had read, and    *)
(*     any change the row of a list that the stream or a failed write had set  *)
(*     back; the change in between, or the deletion, is lost;                  *)
(*   - that a write failed of.                                                 *)
(* A download that fails, or a change of another profile, is no exception.     *)
EditsKept == StoreRest => \A p \in Profiles \ excused : db[p] = wanted[p]

(* At rest the current profile is one of the list, and is null only when the   *)
(* list is empty.  The exceptions to both are                                  *)
(*   - a write that failed;                                                    *)
(*   - a tap on a profile that is deleted and still shown, and a deletion of   *)
(*     the current profile, while the list shows one that is deleted or does   *)
(*     not show one that is there (the list the next one is chosen from);      *)
(* and to the second one also a profile that came back (see EditsKept) when    *)
(* current was null: no one makes it the current one.                          *)
CurrentExists ==
    StoreRest /\ "current" \notin excused =>
        IF current = NoProfile THEN "null" \in excused \/ list = Empty
                               ELSE list[current] # NoProfile
=============================================================================
