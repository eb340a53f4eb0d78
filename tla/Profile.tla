------------------------------ MODULE Profile ------------------------------
(***************************************************************************)
(* The profile of a wallet: the row in wallet_profiles                     *)
(* (walletProfileStore.ts), the two routes (routes/profile.ts) and the     *)
(* page its owner edits it on, open in several tabs (WalletProfile.tsx).   *)
(* A save sends all three fields, those it does not mean as the tab has    *)
(* them; the page keeps the row it read last as the cache entry of a       *)
(* query, which requests and saves replace as their answers arrive.        *)
(***************************************************************************)
EXTENDS Naturals, Browser

CONSTANTS
  Texts,        \* what a field may say
  Unread,       \* a query without data
  MaxRequests   \* bound: requests for the row, and saves

Fields == {"nickname", "avatar", "bio"}
Typed == {"nickname", "bio"}
Profiles == [Fields -> Texts \cup {None}]
Blank == [f \in Fields |-> None]

\* No data is no row, and nothing is no field.
ASSUME ProfileAssumption == Unread \notin Profiles /\ None \notin Fields

Idle == [phase |-> "idle", row |-> Blank, base |-> Unread]

VARIABLES
  table,     \* the wallet's row; no row is a blank one
  copy,      \* copy[t]: the data of the query ["profile", address]
  request,   \* request[t]: its request: Unread, or what comes back
  asking,    \* asking[t]: whether it is under way
  shown,     \* shown[t]: the states nickname, avatarUrl and bio
  editing,   \* editing[t]: the field that is open, or None
  reader,    \* reader[t]: the avatar that is being read, with its payload
  save,      \* save[t][f]: the save of field f
  requests,  \* requests and saves so far
  overtaken  \* overtaken[t]: the row changed while a save of its own was under way

profileVars == <<table, copy, request, asking, shown, editing, reader, save, requests,
                 overtaken>>

Saves == [phase : {"idle", "sent", "stored", "failed"}, row : Profiles, base : Profiles \cup {Unread}]

ProfileInit ==
  /\ table \in {Blank} \cup {[f \in Fields |-> v] : v \in Texts}
  /\ copy = [t \in Tabs |-> Unread]
  /\ request = [t \in Tabs |-> Unread]
  /\ asking = [t \in Tabs |-> FALSE]
  /\ shown = [t \in Tabs |-> Blank]
  /\ editing = [t \in Tabs |-> None]
  /\ reader = [t \in Tabs |-> Idle]
  /\ save = [t \in Tabs |-> [f \in Fields |-> Idle]]
  /\ requests = 0
  /\ overtaken = [t \in Tabs |-> FALSE]

\* The saved values, as the handlers see them: none before the row is read.
Known(t) == IF copy[t] = Unread THEN Blank ELSE copy[t]

\* The user waits for every save; isPending is about the last one only.
IsPending(t) == \E f \in Fields : save[t][f].phase # "idle"

CountRequest == requests < MaxRequests /\ requests' = requests + 1

-----------------------------------------------------------------------------
(* Reading the row.                                                        *)

\* The query is mounted, or reconnects.
Ask(t) ==
  /\ ~ asking[t]
  /\ asking' = [asking EXCEPT ![t] = TRUE]
  /\ request' = [request EXCEPT ![t] = Unread]
  /\ CountRequest
  /\ UNCHANGED <<table, copy, shown, editing, reader, save, overtaken>>

\* GET: the row; if the table cannot be read, a blank profile.
Answer(t) ==
  /\ asking[t] /\ request[t] = Unread
  /\ \E row \in {table, Blank} : request' = [request EXCEPT ![t] = row]
  /\ UNCHANGED <<table, copy, asking, shown, editing, reader, save, requests, overtaken>>

\* The effect on [address, nickname, avatar, bio]: when one has changed the
\* fields are set afresh, and whatever was being typed is gone.
Take(t, row, saving) ==
  /\ copy' = [copy EXCEPT ![t] = row]
  /\ IF row # Known(t)
       THEN /\ shown' = [shown EXCEPT ![t] = row]
            /\ editing' = [editing EXCEPT ![t] = None]
            /\ overtaken' = [overtaken EXCEPT ![t] = saving \/ reader[t] # Idle]
       ELSE UNCHANGED <<shown, overtaken>>

\* The answer arrives, also after that of a save that was stored later.
Arrive(t) ==
  /\ asking[t] /\ request[t] # Unread
  /\ Take(t, request[t], IsPending(t))
  /\ request[t] = Known(t) => UNCHANGED editing
  /\ asking' = [asking EXCEPT ![t] = FALSE]
  /\ UNCHANGED <<table, request, reader, save, requests>>

\* The request fails, and its one retry: the data stay as they were.
Unanswered(t) ==
  /\ asking[t]
  /\ asking' = [asking EXCEPT ![t] = FALSE]
  /\ UNCHANGED <<table, copy, request, shown, editing, reader, save, requests, overtaken>>

-----------------------------------------------------------------------------
(* Editing.                                                                *)

\* onBlur: what was typed in a field that is left is taken back.
Left(t) == IF editing[t] = None THEN shown[t] ELSE [shown[t] EXCEPT ![editing[t]] = Known(t)[editing[t]]]

\* A field is opened, also before the row was read.
Open(t, f) ==
  /\ ~ IsPending(t) /\ editing[t] # f
  /\ shown' = [shown EXCEPT ![t] = Left(t)]
  /\ editing' = [editing EXCEPT ![t] = f]
  /\ UNCHANGED <<table, copy, request, asking, reader, save, requests, overtaken>>

Type(t, v) ==
  /\ editing[t] # None /\ ~ IsPending(t)
  /\ shown' = [shown EXCEPT ![t][editing[t]] = v]
  /\ UNCHANGED <<table, copy, request, asking, editing, reader, save, requests, overtaken>>

\* cancelNicknameEdit, cancelBioEdit
Cancel(t) ==
  /\ editing[t] # None /\ ~ IsPending(t)
  /\ shown' = [shown EXCEPT ![t] = Left(t)]
  /\ editing' = [editing EXCEPT ![t] = None]
  /\ UNCHANGED <<table, copy, request, asking, reader, save, requests, overtaken>>

\* persistProfile: all three fields go with the request.
Send(t, f, row, base) ==
  /\ save[t][f] = Idle
  /\ save' = [save EXCEPT ![t][f] = [phase |-> "sent", row |-> row, base |-> base]]
  /\ CountRequest

\* saveNickname, saveBio: a field that says what was saved is only closed.
Submit(t) ==
  /\ editing[t] # None /\ ~ IsPending(t)
  /\ IF shown[t][editing[t]] = Known(t)[editing[t]]
       THEN /\ editing' = [editing EXCEPT ![t] = None]
            /\ UNCHANGED <<save, requests>>
       ELSE /\ Send(t, editing[t], shown[t], copy[t])
            /\ UNCHANGED editing
  /\ UNCHANGED <<table, copy, request, asking, shown, reader, overtaken>>

\* onAvatarPick: the file dialog takes the focus, and the payload is made of
\* the fields as they are now.
Pick(t, v) ==
  /\ ~ IsPending(t) /\ reader[t] = Idle
  /\ shown' = [shown EXCEPT ![t] = Left(t)]
  /\ editing' = [editing EXCEPT ![t] = None]
  /\ reader' = [reader EXCEPT ![t] =
       [phase |-> "sent", row |-> [Left(t) EXCEPT !["avatar"] = v], base |-> copy[t]]]
  /\ UNCHANGED <<table, copy, request, asking, save, requests, overtaken>>

\* reader.onload, whatever has happened on the page since.
Loaded(t) ==
  /\ reader[t] # Idle
  /\ shown' = [shown EXCEPT ![t]["avatar"] = reader[t].row["avatar"]]
  /\ Send(t, "avatar", reader[t].row, reader[t].base)
  /\ reader' = [reader EXCEPT ![t] = Idle]
  /\ UNCHANGED <<table, copy, request, asking, editing, overtaken>>

\* resetAvatar
ResetAvatar(t) ==
  /\ ~ IsPending(t) /\ shown[t]["avatar"] # None
  /\ LET row == [Left(t) EXCEPT !["avatar"] = None]
     IN /\ shown' = [shown EXCEPT ![t] = row]
        /\ Send(t, "avatar", row, copy[t])
  /\ editing' = [editing EXCEPT ![t] = None]
  /\ UNCHANGED <<table, copy, request, asking, reader, overtaken>>

-----------------------------------------------------------------------------
(* Saving.                                                                 *)

\* Faulty: the payload is the field alone.
StoreAlone(t, f) ==
  /\ save[t][f].phase = "sent"
  /\ table' = [Blank EXCEPT ![f] = save[t][f].row[f]]
  /\ save' = [save EXCEPT ![t][f].phase = "stored"]
  /\ UNCHANGED <<copy, request, asking, shown, editing, reader, requests, overtaken>>

\* PUT and upsertWalletProfile; the answer may be lost on its way.
Store(t, f) ==
  /\ save[t][f].phase = "sent"
  /\ table' = save[t][f].row
  /\ \E phase \in {"stored", "failed"} : save' = [save EXCEPT ![t][f].phase = phase]
  /\ UNCHANGED <<copy, request, asking, shown, editing, reader, requests, overtaken>>

\* The owner does not sign, the signature is too old, the table is not there.
Refuse(t, f) ==
  /\ save[t][f].phase = "sent"
  /\ save' = [save EXCEPT ![t][f].phase = "failed"]
  /\ UNCHANGED <<table, copy, request, asking, shown, editing, reader, requests, overtaken>>

Closed(t, f) == [editing EXCEPT ![t] = IF f \in Typed THEN None ELSE editing[t]]

\* onSuccess: setQueryData with the answer, and the effect it has.
Succeed(t, f) ==
  /\ save[t][f].phase = "stored"
  /\ Take(t, save[t][f].row, \E g \in Fields \ {f} : save[t][g] # Idle)
  /\ save[t][f].row = Known(t) => editing' = Closed(t, f)
  /\ save' = [save EXCEPT ![t][f] = Idle]
  /\ UNCHANGED <<table, request, asking, reader, requests>>

\* Faulty: the field keeps what could not be saved.
FailKeeping(t, f) ==
  /\ save[t][f].phase = "failed"
  /\ editing' = Closed(t, f)
  /\ save' = [save EXCEPT ![t][f] = Idle]
  /\ UNCHANGED <<table, copy, request, asking, shown, reader, requests, overtaken>>

\* The catch of persistProfile: the field goes back to what was known when
\* the save began.
Fail(t, f) ==
  /\ save[t][f].phase = "failed"
  /\ shown' = [shown EXCEPT ![t][f] =
       IF save[t][f].base = Unread THEN None ELSE save[t][f].base[f]]
  /\ editing' = Closed(t, f)
  /\ save' = [save EXCEPT ![t][f] = Idle]
  /\ UNCHANGED <<table, copy, request, asking, reader, requests, overtaken>>

ProfileNext ==
  \E t \in Tabs :
    \/ Ask(t) \/ Answer(t) \/ Arrive(t) \/ Unanswered(t)
    \/ Cancel(t) \/ Submit(t) \/ Loaded(t) \/ ResetAvatar(t)
    \/ \E f \in Typed : Open(t, f)
    \/ \E v \in Texts : Type(t, v) \/ Pick(t, v)
    \/ \E f \in Fields : Store(t, f) \/ Refuse(t, f) \/ Succeed(t, f) \/ Fail(t, f)

ProfileSpec == ProfileInit /\ [][ProfileNext]_profileVars

-----------------------------------------------------------------------------
ProfileTypeOK ==
  /\ table \in Profiles
  /\ \A t \in Tabs :
       /\ copy[t] \in Profiles \cup {Unread} /\ request[t] \in Profiles \cup {Unread}
       /\ shown[t] \in Profiles /\ editing[t] \in Typed \cup {None}
       /\ reader[t] \in Saves /\ \A f \in Fields : save[t][f] \in Saves

\* A save changes the field it is for and no other, if the tab knew the row
\* as it is when the save is stored, and the row had not changed under an
\* earlier save.  It does change others if the row was not read yet, if the
\* route answered a blank one, or if another tab saved in between.
OthersKept ==
  [][\A t \in Tabs, f \in Fields :
       /\ save[t][f].phase = "sent" /\ save'[t][f] # save[t][f] /\ table' # table
       /\ save[t][f].base = table /\ ~ overtaken[t]
       => \A g \in Fields \ {f} : table'[g] = table[g]]_profileVars

\* Once nothing is open or under way, a tab shows the row it has, whether its
\* saves were stored, refused or lost; unless the row changed under a save.
ShowsItsCopy ==
  \A t \in Tabs :
    editing[t] = None /\ ~ IsPending(t) /\ reader[t] = Idle /\ ~ overtaken[t] =>
      shown[t] = Known(t)

\* What the page of a profile promises of its own state.
ProfileHonest == ProfileTypeOK /\ ShowsItsCopy
=============================================================================
