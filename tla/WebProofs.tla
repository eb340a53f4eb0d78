------------------------------ MODULE WebProofs ------------------------------
(***************************************************************************)
(* The parts of the pages that keep a state of their own, for any number   *)
(* of tabs, wallets, canvases and objects, any texts, any length of a      *)
(* history and any size of a page.                                         *)
(*                                                                         *)
(* Profiles: what a save was made of, the row the tab then knew and the    *)
(* field it is for, is kept apart until the save is over; as long as no    *)
(* row was read over it, the fields that are not being saved are the       *)
(* row's.  Lists: a write of one tab, and the events it sends, keep every  *)
(* tab either right or with an event on its way.  Animation: a loop that   *)
(* runs has its one frame requested, whoever started it.  Gallery: what    *)
(* was read of a wallet is all there is between two cursors, and is shown  *)
(* once.                                                                   *)
(***************************************************************************)
EXTENDS Profile, BrowserLists, Gallery, Animation, ListLemmas

-----------------------------------------------------------------------------
(* Profiles.                                                               *)

\* The row a tab that has `data` works with.
Row(data) == IF data = Unread THEN Blank ELSE data
Data == Profiles \cup {Unread}

\* What a save, or an avatar that is read, was made of.
MadeOf(s, f, data) ==
  Row(s.base) = Row(data) /\ \A g \in Fields \ {f} : s.row[g] = Row(data)[g]

\* One tab: what it knows, shows, has open and has sent, and whether it was overtaken.
TabSound(data, show, open, avatar, sent, over) ==
  /\ data \in Data /\ show \in Profiles /\ open \in Typed \cup {None}
  /\ avatar \in Saves /\ sent \in [Fields -> Saves]
  /\ avatar.phase = "idle" => avatar = Idle
  /\ \A f \in Fields : sent[f].phase = "idle" => sent[f] = Idle
  /\ \A f \in Typed : sent[f] # Idle => open \in {f, None}
  /\ ~ over =>
       /\ \A g \in Fields : open # g /\ sent[g] = Idle => show[g] = Row(data)[g]
       /\ \A f \in Fields : sent[f] # Idle => MadeOf(sent[f], f, data) /\ show[f] = sent[f].row[f]
       /\ avatar # Idle => MadeOf(avatar, "avatar", data)

ProfileInv ==
  /\ table \in Profiles /\ request \in [Tabs -> Data]
  /\ copy \in [Tabs -> Data] /\ shown \in [Tabs -> Profiles] /\ editing \in [Tabs -> Typed \cup {None}]
  /\ reader \in [Tabs -> Saves] /\ save \in [Tabs -> [Fields -> Saves]] /\ overtaken \in [Tabs -> BOOLEAN]
  /\ \A t \in Tabs : TabSound(copy[t], shown[t], editing[t], reader[t], save[t], overtaken[t])

\* A step of tab t, which leaves the other tabs alone.
StepOf(t) ==
  /\ copy' = [copy EXCEPT ![t] = copy'[t]]
  /\ shown' = [shown EXCEPT ![t] = shown'[t]]
  /\ editing' = [editing EXCEPT ![t] = editing'[t]]
  /\ reader' = [reader EXCEPT ![t] = reader'[t]]
  /\ save' = [save EXCEPT ![t] = save'[t]]
  /\ overtaken' = [overtaken EXCEPT ![t] = overtaken'[t]]

\* A wallet without a row has an empty profile; what is not under way is idle.
LEMMA BlankProfile == Blank \in Profiles /\ Idle \in Saves /\ \A d \in Data : Row(d) \in Profiles
BY DEF Blank, Profiles, Idle, Saves, Data, Row

\* A step of one tab leaves the others as they were.
LEMMA OneTab ==
  ASSUME ProfileInv, NEW t \in Tabs, StepOf(t), table' \in Profiles, request' \in [Tabs -> Data],
         overtaken'[t] \in BOOLEAN,
         TabSound(copy'[t], shown'[t], editing'[t], reader'[t], save'[t], overtaken'[t])
  PROVE  ProfileInv'
<1>1. /\ copy' \in [Tabs -> Data] /\ shown' \in [Tabs -> Profiles]
      /\ editing' \in [Tabs -> Typed \cup {None}] /\ reader' \in [Tabs -> Saves]
      /\ save' \in [Tabs -> [Fields -> Saves]] /\ overtaken' \in [Tabs -> BOOLEAN]
  BY DEF ProfileInv, StepOf, TabSound
<1>2. ASSUME NEW u \in Tabs, u # t
      PROVE  TabSound(copy'[u], shown'[u], editing'[u], reader'[u], save'[u], overtaken'[u])
  <2>1. /\ copy'[u] = copy[u] /\ shown'[u] = shown[u] /\ editing'[u] = editing[u]
        /\ reader'[u] = reader[u] /\ save'[u] = save[u] /\ overtaken'[u] = overtaken[u]
    BY <1>2 DEF ProfileInv, StepOf
  <2>2. QED
    BY <2>1 DEF ProfileInv
<1>3. QED
  BY <1>1, <1>2 DEF ProfileInv

\* A step that leaves the tab's own state as it was.
LEMMA NoTab ==
  ASSUME ProfileInv, table' \in Profiles, request' \in [Tabs -> Data],
         UNCHANGED <<copy, shown, editing, reader, save, overtaken>>
  PROVE  ProfileInv'
BY DEF ProfileInv

\* A tab asks for the row.
LEMMA AskSound == ASSUME ProfileInv, NEW t \in Tabs, Ask(t) PROVE ProfileInv'
BY NoTab DEF Ask, ProfileInv, Data

\* The route answers with the row.
LEMMA AnswerSound == ASSUME ProfileInv, NEW t \in Tabs, Answer(t) PROVE ProfileInv'
<1>1. PICK row \in {table, Blank} : request' = [request EXCEPT ![t] = row]
  BY DEF Answer
<1>2. row \in Data
  BY BlankProfile DEF ProfileInv, Data
<1>3. QED
  BY <1>1, <1>2, NoTab DEF Answer, ProfileInv

\* The request for the row fails.
LEMMA UnansweredSound == ASSUME ProfileInv, NEW t \in Tabs, Unanswered(t) PROVE ProfileInv'
BY NoTab DEF Unanswered, ProfileInv

\* Row(copy[t]) under its name in the handlers.
LEMMA KnownRow == ASSUME NEW t PROVE Known(t) = Row(copy[t])
BY DEF Known, Row

\* A field that is left without a save shows the row again.
LEMMA LeftShows ==
  ASSUME ProfileInv, NEW t \in Tabs
  PROVE  /\ Left(t) \in Profiles
         /\ \A g \in Fields : g = editing[t] => Left(t)[g] = Known(t)[g]
         /\ \A g \in Fields : g # editing[t] => Left(t)[g] = shown[t][g]
<1>1. /\ shown[t] \in Profiles /\ editing[t] \in Typed \cup {None} /\ Known(t) \in Profiles
  BY KnownRow, BlankProfile DEF ProfileInv
<1>2. Typed \subseteq Fields
  BY DEF Typed, Fields
<1>3. QED
  BY <1>1, <1>2, ProfileAssumption DEF Left, Profiles

\* Where nothing is pending, nothing is being saved.
LEMMA NotPending ==
  ASSUME ProfileInv, NEW t \in Tabs, ~ IsPending(t)
  PROVE  \A f \in Fields : save[t][f] = Idle
BY DEF IsPending, ProfileInv, TabSound


\* A tab that waits for no save.
LEMMA QuietTab ==
  ASSUME ProfileInv, NEW t \in Tabs, ~ IsPending(t)
  PROVE  /\ copy[t] \in Data /\ shown[t] \in Profiles /\ editing[t] \in Typed \cup {None}
         /\ reader[t] \in Saves /\ save[t] \in [Fields -> Saves] /\ overtaken[t] \in BOOLEAN
         /\ reader[t].phase = "idle" => reader[t] = Idle
         /\ \A f \in Fields : save[t][f] = Idle
         /\ ~ overtaken[t] =>
              /\ \A g \in Fields : editing[t] # g => shown[t][g] = Known(t)[g]
              /\ \A g \in Fields : Left(t)[g] = Known(t)[g]
              /\ reader[t] # Idle => MadeOf(reader[t], "avatar", copy[t])
<1>1. TabSound(copy[t], shown[t], editing[t], reader[t], save[t], overtaken[t]) /\ overtaken[t] \in BOOLEAN
  BY DEF ProfileInv
<1>2. \A f \in Fields : save[t][f] = Idle
  BY NotPending
<1>3. ~ overtaken[t] => \A g \in Fields : editing[t] # g => shown[t][g] = Known(t)[g]
  BY <1>1, <1>2, KnownRow DEF TabSound
<1>4. ~ overtaken[t] => \A g \in Fields : Left(t)[g] = Known(t)[g]
  BY <1>3, LeftShows
<1>5. QED
  BY <1>1, <1>2, <1>3, <1>4 DEF TabSound

\* A state in which a tab waits for no save.
LEMMA Quiet ==
  ASSUME NEW data \in Data, NEW show \in Profiles, NEW open \in Typed \cup {None},
         NEW avatar \in Saves, NEW sent \in [Fields -> Saves], NEW over \in BOOLEAN,
         avatar.phase = "idle" => avatar = Idle,
         \A f \in Fields : sent[f] = Idle,
         ~ over => /\ \A g \in Fields : open # g => show[g] = Row(data)[g]
                   /\ avatar # Idle => MadeOf(avatar, "avatar", data)
  PROVE  TabSound(data, show, open, avatar, sent, over)
<1>1. Typed \subseteq Fields
  BY DEF Typed, Fields
<1>2. QED
  BY <1>1 DEF TabSound

\* A field is opened.
LEMMA OpenSound == ASSUME ProfileInv, NEW t \in Tabs, NEW f \in Typed, Open(t, f) PROVE ProfileInv'
<1>1. /\ shown'[t] = Left(t) /\ editing'[t] = f
      /\ copy'[t] = copy[t] /\ reader'[t] = reader[t] /\ save'[t] = save[t] /\ overtaken'[t] = overtaken[t]
      /\ StepOf(t) /\ ~ IsPending(t) /\ table' = table /\ request' = request
  BY DEF Open, ProfileInv, StepOf
<1>2. TabSound(copy[t], Left(t), f, reader[t], save[t], overtaken[t])
  BY <1>1, QuietTab, Quiet, LeftShows, KnownRow
<1>3. QED
  BY <1>1, <1>2, QuietTab, OneTab DEF ProfileInv

\* A field is typed into.
LEMMA TypeSound == ASSUME ProfileInv, NEW t \in Tabs, NEW v \in Texts, Type(t, v) PROVE ProfileInv'
<1> DEFINE s == [shown[t] EXCEPT ![editing[t]] = v]
<1>1. /\ shown'[t] = s /\ editing'[t] = editing[t] /\ editing[t] # None
      /\ copy'[t] = copy[t] /\ reader'[t] = reader[t] /\ save'[t] = save[t] /\ overtaken'[t] = overtaken[t]
      /\ StepOf(t) /\ ~ IsPending(t) /\ table' = table /\ request' = request
  BY DEF Type, ProfileInv, StepOf
<1>2. s \in Profiles /\ \A g \in Fields : g # editing[t] => s[g] = shown[t][g]
  BY <1>1, QuietTab, SMTT(30) DEF Profiles, Typed, Fields
<1> HIDE DEF s
<1>3. TabSound(copy[t], s, editing[t], reader[t], save[t], overtaken[t])
  BY <1>1, <1>2, QuietTab, Quiet, KnownRow, SMTT(60)
<1>4. QED
  BY <1>1, <1>3, QuietTab, OneTab DEF ProfileInv

\* A field is left by Escape.
LEMMA CancelSound == ASSUME ProfileInv, NEW t \in Tabs, Cancel(t) PROVE ProfileInv'
<1>1. /\ shown'[t] = Left(t) /\ editing'[t] = None
      /\ copy'[t] = copy[t] /\ reader'[t] = reader[t] /\ save'[t] = save[t] /\ overtaken'[t] = overtaken[t]
      /\ StepOf(t) /\ ~ IsPending(t) /\ table' = table /\ request' = request
  BY DEF Cancel, ProfileInv, StepOf
<1>2. TabSound(copy[t], Left(t), None, reader[t], save[t], overtaken[t])
  <2>1. ~ overtaken[t] => /\ \A g \in Fields : Left(t)[g] = Row(copy[t])[g]
                          /\ reader[t] # Idle => MadeOf(reader[t], "avatar", copy[t])
    BY <1>1, QuietTab, KnownRow
  <2>2. Left(t) \in Profiles
    BY LeftShows
  <2>3. PICK open \in Typed \cup {None} : open = None
    OBVIOUS
  <2>4. /\ copy[t] \in Data /\ shown[t] \in Profiles /\ reader[t] \in Saves
        /\ save[t] \in [Fields -> Saves] /\ overtaken[t] \in BOOLEAN
        /\ reader[t].phase = "idle" => reader[t] = Idle
        /\ \A f \in Fields : save[t][f] = Idle
    BY <1>1, QuietTab
  <2>5. TabSound(copy[t], Left(t), open, reader[t], save[t], overtaken[t])
    BY <2>1, <2>2, <2>4, Quiet
  <2>6. QED
    BY <2>3, <2>5
<1>3. QED
  BY <1>1, <1>2, QuietTab, OneTab DEF ProfileInv

\* A picture is read.
LEMMA PickSound == ASSUME ProfileInv, NEW t \in Tabs, NEW v \in Texts, Pick(t, v) PROVE ProfileInv'
<1> DEFINE row == [Left(t) EXCEPT !["avatar"] = v]
           s == [phase |-> "sent", row |-> row, base |-> copy[t]]
<1>1. /\ shown'[t] = Left(t) /\ editing'[t] = None /\ reader'[t] = s
      /\ copy'[t] = copy[t] /\ save'[t] = save[t] /\ overtaken'[t] = overtaken[t]
      /\ StepOf(t) /\ ~ IsPending(t) /\ table' = table /\ request' = request
  BY DEF Pick, ProfileInv, StepOf
<1>2. row \in Profiles /\ \A g \in Fields \ {"avatar"} : row[g] = Left(t)[g]
  BY LeftShows DEF Profiles, Fields
<1> HIDE DEF row
<1>3. s \in Saves /\ s.phase # "idle" /\ s.row = row /\ s.base = copy[t]
  BY <1>1, <1>2, QuietTab DEF Saves, Data
<1> HIDE DEF s
<1>4. ~ overtaken[t] => MadeOf(s, "avatar", copy[t])
  BY <1>1, <1>2, <1>3, QuietTab, KnownRow DEF MadeOf
<1>5. TabSound(copy[t], Left(t), None, s, save[t], overtaken[t])
  <2>1. ~ overtaken[t] => \A g \in Fields : Left(t)[g] = Row(copy[t])[g]
    BY <1>1, QuietTab, KnownRow
  <2>2. Left(t) \in Profiles
    BY LeftShows
  <2>3. PICK open \in Typed \cup {None} : open = None
    OBVIOUS
  <2>4. /\ copy[t] \in Data /\ shown[t] \in Profiles /\ reader[t] \in Saves
        /\ save[t] \in [Fields -> Saves] /\ overtaken[t] \in BOOLEAN
        /\ reader[t].phase = "idle" => reader[t] = Idle
        /\ \A f \in Fields : save[t][f] = Idle
    BY <1>1, QuietTab
  <2>5. TabSound(copy[t], Left(t), open, s, save[t], overtaken[t])
    BY <1>3, <1>4, <2>1, <2>2, <2>4, Quiet
  <2>6. QED
    BY <2>3, <2>5
<1>6. QED
  BY <1>1, <1>5, QuietTab, OneTab DEF ProfileInv

\* A state in which a tab waits for the first of its saves.
LEMMA FirstSave ==
  ASSUME NEW data \in Data, NEW show \in Profiles, NEW open \in Typed \cup {None},
         NEW avatar \in Saves, NEW sent \in [Fields -> Saves], NEW over \in BOOLEAN, NEW f \in Fields,
         avatar.phase = "idle" => avatar = Idle,
         \A g \in Fields \ {f} : sent[g] = Idle,
         sent[f].phase # "idle", sent[f].row = show,
         f \in Typed => open \in {f, None},
         open # None => open = f,
         ~ over => /\ \A g \in Fields \ {f} : show[g] = Row(data)[g]
                   /\ Row(sent[f].base) = Row(data)
                   /\ avatar # Idle => MadeOf(avatar, "avatar", data)
  PROVE  TabSound(data, show, open, avatar, sent, over)
<1>1. Typed \subseteq Fields
  BY DEF Typed, Fields
<1>2. sent[f] # Idle
  BY DEF Idle
<1>3. QED
  BY <1>1, <1>2 DEF TabSound, MadeOf

\* A field is saved.
LEMMA SubmitSound == ASSUME ProfileInv, NEW t \in Tabs, Submit(t) PROVE ProfileInv'
<1>1. /\ shown'[t] = shown[t] /\ reader'[t] = reader[t]
      /\ copy'[t] = copy[t] /\ overtaken'[t] = overtaken[t]
      /\ ~ IsPending(t) /\ editing[t] # None /\ table' = table /\ request' = request
  BY DEF Submit, ProfileInv
<1>2. StepOf(t)
  BY DEF Submit, Send, ProfileInv, StepOf
<1>3. CASE shown[t][editing[t]] = Known(t)[editing[t]]
  <2>1. editing'[t] = None /\ save'[t] = save[t]
    BY <1>3 DEF Submit, ProfileInv
  <2>2. ~ overtaken[t] => \A g \in Fields : shown[t][g] = Known(t)[g]
    BY <1>1, <1>3, QuietTab
  <2>3. TabSound(copy[t], shown[t], None, reader[t], save[t], overtaken[t])
    <3>1. ~ overtaken[t] => \A g \in Fields : shown[t][g] = Row(copy[t])[g]
      BY <2>2, KnownRow
    <3>2. PICK open \in Typed \cup {None} : open = None
      OBVIOUS
    <3>4. /\ copy[t] \in Data /\ shown[t] \in Profiles /\ reader[t] \in Saves
          /\ save[t] \in [Fields -> Saves] /\ overtaken[t] \in BOOLEAN
          /\ reader[t].phase = "idle" => reader[t] = Idle
          /\ \A f \in Fields : save[t][f] = Idle
          /\ ~ overtaken[t] /\ reader[t] # Idle => MadeOf(reader[t], "avatar", copy[t])
      BY <1>1, QuietTab
    <3>3. TabSound(copy[t], shown[t], open, reader[t], save[t], overtaken[t])
      BY <3>1, <3>4, Quiet
    <3>5. QED
      BY <3>2, <3>3
  <2>4. QED
    BY <1>1, <1>2, <2>1, <2>3, QuietTab, OneTab DEF ProfileInv
<1>4. CASE shown[t][editing[t]] # Known(t)[editing[t]]
  <2> DEFINE f == editing[t]
             s == [phase |-> "sent", row |-> shown[t], base |-> copy[t]]
  <2>1. f \in Fields /\ f \in Typed
    BY <1>1, QuietTab DEF Typed, Fields
  <2>2. editing'[t] = f /\ save'[t] = [save[t] EXCEPT ![f] = s]
    BY <1>4, <2>1 DEF Submit, Send, ProfileInv
  <2>3. s \in Saves /\ s.phase # "idle" /\ s.row = shown[t] /\ s.base = copy[t]
    BY <1>1, QuietTab DEF Saves, Data
  <2> HIDE DEF s
  <2>4. /\ save'[t] \in [Fields -> Saves] /\ save'[t][f] = s
        /\ \A g \in Fields \ {f} : save'[t][g] = Idle
    BY <1>1, <2>1, <2>2, <2>3, QuietTab
  <2>5. TabSound(copy[t], shown[t], f, reader[t], save'[t], overtaken[t])
    BY <1>1, <2>1, <2>3, <2>4, QuietTab, FirstSave, KnownRow
  <2>6. QED
    BY <1>1, <1>2, <2>2, <2>5, QuietTab, OneTab DEF ProfileInv
<1>5. QED
  BY <1>3, <1>4

\* The picture is reset.
LEMMA ResetAvatarSound == ASSUME ProfileInv, NEW t \in Tabs, ResetAvatar(t) PROVE ProfileInv'
<1> DEFINE row == [Left(t) EXCEPT !["avatar"] = None]
           s == [phase |-> "sent", row |-> row, base |-> copy[t]]
<1>1. /\ shown'[t] = row /\ reader'[t] = reader[t] /\ editing'[t] = None
      /\ save'[t] = [save[t] EXCEPT !["avatar"] = s]
      /\ copy'[t] = copy[t] /\ overtaken'[t] = overtaken[t]
      /\ ~ IsPending(t) /\ table' = table /\ request' = request
  BY DEF ResetAvatar, Send, ProfileInv, Fields
<1>2. StepOf(t)
  BY DEF ResetAvatar, Send, ProfileInv, StepOf
<1>3. row \in Profiles /\ \A g \in Fields \ {"avatar"} : row[g] = Left(t)[g]
  BY LeftShows DEF Profiles, Fields
<1> HIDE DEF row
<1>4. s \in Saves /\ s.phase # "idle" /\ s.row = row /\ s.base = copy[t]
  BY <1>1, <1>3, QuietTab DEF Saves, Data
<1> HIDE DEF s
<1>5. /\ save'[t] \in [Fields -> Saves] /\ save'[t]["avatar"] = s /\ "avatar" \in Fields \ Typed
      /\ \A g \in Fields \ {"avatar"} : save'[t][g] = Idle
  BY <1>1, <1>4, QuietTab DEF Fields, Typed
<1>6. TabSound(copy[t], row, None, reader[t], save'[t], overtaken[t])
  <2>1. ~ overtaken[t] => /\ \A g \in Fields \ {"avatar"} : row[g] = Row(copy[t])[g]
                          /\ reader[t] # Idle => MadeOf(reader[t], "avatar", copy[t])
    BY <1>1, <1>3, QuietTab, KnownRow
  <2>2. PICK open \in Typed \cup {None} : open = None
    OBVIOUS
  <2>3. Row(save'[t]["avatar"].base) = Row(copy[t]) /\ save'[t]["avatar"].row = row /\ save'[t]["avatar"].phase # "idle"
    BY <1>4, <1>5
  <2>4. /\ copy[t] \in Data /\ reader[t] \in Saves /\ overtaken[t] \in BOOLEAN
        /\ reader[t].phase = "idle" => reader[t] = Idle
    BY <1>1, QuietTab
  <2> DEFINE sent == save'[t]
             f == "avatar"
  <2>5. /\ sent \in [Fields -> Saves] /\ f \in Fields \ Typed /\ row \in Profiles
        /\ \A g \in Fields \ {f} : sent[g] = Idle
        /\ sent[f].phase # "idle" /\ sent[f].row = row
        /\ ~ overtaken[t] => /\ \A g \in Fields \ {f} : row[g] = Row(copy[t])[g]
                             /\ Row(sent[f].base) = Row(copy[t])
                             /\ reader[t] # Idle => MadeOf(reader[t], "avatar", copy[t])
    BY <1>3, <1>5, <2>1, <2>3
  <2> HIDE DEF sent, f
  <2>6. TabSound(copy[t], row, open, reader[t], sent, overtaken[t])
    BY <2>2, <2>4, <2>5, FirstSave, ZenonT(40)
  <2>7. QED
    BY <2>2, <2>6 DEF sent
<1>7. QED
  BY <1>1, <1>2, <1>6, QuietTab, OneTab DEF ProfileInv

\* The picture is a field that is not typed.
LEMMA FieldsOfProfile == Typed \subseteq Fields /\ "avatar" \in Fields /\ "avatar" \notin Typed
BY DEF Typed, Fields

\* The avatar is read: its save is sent beside one that may be under way.
LEMMA LoadedSound == ASSUME ProfileInv, NEW t \in Tabs, Loaded(t) PROVE ProfileInv'
<1> DEFINE s == [phase |-> "sent", row |-> reader[t].row, base |-> reader[t].base]
           show == [shown[t] EXCEPT !["avatar"] = reader[t].row["avatar"]]
           sent == [save[t] EXCEPT !["avatar"] = s]
<1>1. /\ copy'[t] = copy[t] /\ editing'[t] = editing[t] /\ reader'[t] = Idle /\ overtaken'[t] = overtaken[t]
      /\ shown'[t] = show /\ save'[t] = sent /\ save[t]["avatar"] = Idle /\ reader[t] # Idle
      /\ table' = table /\ request' = request
  BY DEF Loaded, Send, ProfileInv
<1>2. StepOf(t)
  BY DEF Loaded, Send, ProfileInv, StepOf
<1>3. /\ TabSound(copy[t], shown[t], editing[t], reader[t], save[t], overtaken[t])
      /\ overtaken[t] \in BOOLEAN /\ shown[t] \in Profiles /\ reader[t] \in Saves
  BY DEF ProfileInv
<1>4. s \in Saves /\ s.phase = "sent" /\ s.row = reader[t].row /\ s.base = reader[t].base /\ s # Idle
  BY <1>3 DEF Saves, Idle
<1>5. /\ show \in Profiles /\ show["avatar"] = s.row["avatar"]
      /\ \A g \in Fields \ {"avatar"} : show[g] = shown[t][g]
  BY <1>3, <1>4 DEF Profiles, Fields, Saves
<1> HIDE DEF s, show
<1>6. /\ sent \in [Fields -> Saves] /\ sent["avatar"] = s
      /\ \A g \in Fields \ {"avatar"} : sent[g] = save[t][g]
  BY <1>3, <1>4, FieldsOfProfile DEF TabSound
<1> HIDE DEF sent
<1>7. TabSound(copy[t], show, editing[t], Idle, sent, overtaken[t])
  <2>1. /\ copy[t] \in Data /\ show \in Profiles /\ editing[t] \in Typed \cup {None}
        /\ Idle \in Saves /\ sent \in [Fields -> Saves]
        /\ \A f \in Fields : sent[f].phase = "idle" => sent[f] = Idle
        /\ \A f \in Typed : sent[f] # Idle => editing[t] \in {f, None}
    BY <1>3, <1>4, <1>5, <1>6, BlankProfile, FieldsOfProfile DEF TabSound
  <2>2. ASSUME ~ overtaken[t]
        PROVE  /\ \A g \in Fields : editing[t] # g /\ sent[g] = Idle => show[g] = Row(copy[t])[g]
               /\ \A f \in Fields : sent[f] # Idle => MadeOf(sent[f], f, copy[t]) /\ show[f] = sent[f].row[f]
    <3>1. MadeOf(s, "avatar", copy[t])
      BY <1>1, <1>3, <1>4, <2>2 DEF TabSound, MadeOf
    <3>2. QED
      BY <1>3, <1>4, <1>5, <1>6, <2>2, <3>1 DEF TabSound
  <2>3. QED
    BY <2>1, <2>2 DEF TabSound
<1>8. QED
  BY <1>1, <1>2, <1>3, <1>7, OneTab DEF ProfileInv

\* A save is answered: nothing on the page has changed.
LEMMA PhaseSound ==
  ASSUME ProfileInv, NEW t \in Tabs, NEW f \in Fields, NEW ph \in {"stored", "failed"},
         save[t][f].phase = "sent", save' = [save EXCEPT ![t][f].phase = ph],
         UNCHANGED <<copy, request, shown, editing, reader, overtaken>>, table' \in Profiles
  PROVE  ProfileInv'
<1> DEFINE s == [save[t][f] EXCEPT !.phase = ph]
           sent == [save[t] EXCEPT ![f] = s]
<1>1. TabSound(copy[t], shown[t], editing[t], reader[t], save[t], overtaken[t]) /\ overtaken[t] \in BOOLEAN
  BY DEF ProfileInv
<1>2. save[t][f] \in Saves /\ save[t][f] # Idle
  BY <1>1 DEF TabSound, Idle
<1>3. /\ s \in Saves /\ s.phase = ph /\ s.row = save[t][f].row /\ s.base = save[t][f].base
  BY <1>2 DEF Saves
<1>4. save'[t] = sent /\ StepOf(t)
  BY DEF ProfileInv, StepOf
<1> HIDE DEF s
<1>5. s # Idle /\ s.phase # "idle"
  BY <1>3 DEF Idle
<1>6. /\ sent \in [Fields -> Saves] /\ sent[f] = s /\ \A g \in Fields \ {f} : sent[g] = save[t][g]
  BY <1>1, <1>3 DEF TabSound
<1> HIDE DEF sent
<1>7. TabSound(copy[t], shown[t], editing[t], reader[t], sent, overtaken[t])
  BY <1>1, <1>2, <1>3, <1>5, <1>6, FieldsOfProfile DEF TabSound, MadeOf
<1>8. QED
  BY <1>1, <1>4, <1>7, OneTab DEF ProfileInv

\* The route refuses a save.
LEMMA RefuseSound == ASSUME ProfileInv, NEW t \in Tabs, NEW f \in Fields, Refuse(t, f) PROVE ProfileInv'
BY PhaseSound DEF Refuse, ProfileInv

\* The route stores a save.
LEMMA StoreSound == ASSUME ProfileInv, NEW t \in Tabs, NEW f \in Fields, Store(t, f) PROVE ProfileInv'
<1>1. PICK ph \in {"stored", "failed"} : save' = [save EXCEPT ![t][f].phase = ph]
  BY DEF Store
<1>2. table' \in Profiles
  BY DEF Store, ProfileInv, Saves
<1>3. QED
  BY <1>1, <1>2, PhaseSound DEF Store

\* A save is over, and its field shows what is known.
LEMMA Settled ==
  ASSUME NEW data, NEW show, NEW open, NEW avatar, NEW sent, NEW over \in BOOLEAN,
         TabSound(data, show, open, avatar, sent, over),
         NEW f \in Fields, sent[f] # Idle,
         NEW data2 \in Data, Row(data2) = Row(data),
         NEW show2 \in Profiles, \A g \in Fields \ {f} : show2[g] = show[g],
         ~ over => show2[f] = Row(data)[f]
  PROVE  TabSound(data2, show2, IF f \in Typed THEN None ELSE open, avatar,
                  [sent EXCEPT ![f] = Idle], over)
<1> DEFINE open2 == IF f \in Typed THEN None ELSE open
           sent2 == [sent EXCEPT ![f] = Idle]
<1>1. open2 \in Typed \cup {None} /\ (f \in Typed => open2 = None) /\ (f \notin Typed => open2 = open)
  BY DEF TabSound
<1>2. f \in Typed => open \in {f, None}
  BY DEF TabSound
<1>3. /\ sent2 \in [Fields -> Saves] /\ sent2[f] = Idle
      /\ \A g \in Fields \ {f} : sent2[g] = sent[g]
  BY BlankProfile DEF TabSound
<1> HIDE DEF open2, sent2
<1>4. \A g \in Typed : sent2[g] # Idle => open2 \in {g, None}
  BY <1>1, <1>3, FieldsOfProfile DEF TabSound
<1>5. ASSUME ~ over
      PROVE  /\ \A g \in Fields : open2 # g /\ sent2[g] = Idle => show2[g] = Row(data2)[g]
             /\ \A g \in Fields : sent2[g] # Idle => MadeOf(sent2[g], g, data2) /\ show2[g] = sent2[g].row[g]
             /\ avatar # Idle => MadeOf(avatar, "avatar", data2)
  <2>1. ASSUME NEW g \in Fields, open2 # g, sent2[g] = Idle PROVE show2[g] = Row(data2)[g]
    <3>1. CASE g = f
      BY <1>5, <3>1
    <3>2. CASE g # f
      <4>1. open # g
        BY <1>1, <1>2, <2>1, <3>2, ProfileAssumption
      <4>2. QED
        BY <1>3, <1>5, <2>1, <3>2, <4>1 DEF TabSound
    <3>3. QED
      BY <3>1, <3>2
  <2>2. QED
    BY <1>3, <1>5, <2>1 DEF TabSound, MadeOf
<1>6. TabSound(data2, show2, open2, avatar, sent2, over)
  BY <1>1, <1>3, <1>4, <1>5 DEF TabSound
<1>7. QED
  BY <1>6 DEF open2, sent2

\* A save fails.
LEMMA FailSound == ASSUME ProfileInv, NEW t \in Tabs, NEW f \in Fields, Fail(t, f) PROVE ProfileInv'
<1> DEFINE v == IF save[t][f].base = Unread THEN None ELSE save[t][f].base[f]
           show == [shown[t] EXCEPT ![f] = v]
           open == IF f \in Typed THEN None ELSE editing[t]
           sent == [save[t] EXCEPT ![f] = Idle]
<1>1. /\ TabSound(copy[t], shown[t], editing[t], reader[t], save[t], overtaken[t])
      /\ overtaken[t] \in BOOLEAN /\ shown[t] \in Profiles /\ copy[t] \in Data
  BY DEF ProfileInv
<1>2. /\ shown'[t] = show /\ save'[t] = sent /\ editing'[t] = open
      /\ copy'[t] = copy[t] /\ reader'[t] = reader[t] /\ overtaken'[t] = overtaken[t]
      /\ table' = table /\ request' = request
  BY DEF Fail, Closed, ProfileInv
<1>3. StepOf(t)
  BY DEF Fail, Closed, ProfileInv, StepOf
<1>4. save[t][f] # Idle /\ save[t][f] \in Saves
  BY <1>1 DEF Fail, Idle, TabSound
<1>5. v = Row(save[t][f].base)[f] /\ v \in Texts \cup {None}
  BY <1>4 DEF Row, Blank, Saves, Profiles, Data
<1> HIDE DEF v
<1>6. show \in Profiles /\ show[f] = v /\ \A g \in Fields \ {f} : show[g] = shown[t][g]
  BY <1>1, <1>5 DEF Profiles
<1>7. ~ overtaken[t] => show[f] = Row(copy[t])[f]
  BY <1>1, <1>4, <1>5, <1>6 DEF TabSound, MadeOf
<1> HIDE DEF show
<1>8. TabSound(copy[t], show, open, reader[t], sent, overtaken[t])
  BY <1>1, <1>4, <1>6, <1>7, Settled
<1>9. QED
  BY <1>1, <1>2, <1>3, <1>8, OneTab DEF ProfileInv

\* A row that differs from the one the tab knew: the fields are set afresh.
LEMMA Overtaken ==
  ASSUME NEW row \in Profiles, NEW avatar \in Saves, NEW sent \in [Fields -> Saves], NEW over \in BOOLEAN,
         avatar.phase = "idle" => avatar = Idle,
         \A f \in Fields : sent[f].phase = "idle" => sent[f] = Idle,
         ~ over => avatar = Idle /\ \A f \in Fields : sent[f] = Idle
  PROVE  TabSound(row, row, None, avatar, sent, over)
BY ProfileAssumption DEF TabSound, Row, Data

\* A row that is not the one the tab knows is shown, and nothing is open any more.
LEMMA TakeAfresh ==
  ASSUME ProfileInv, NEW t \in Tabs, NEW row \in Profiles, NEW saving \in BOOLEAN,
         Take(t, row, saving), row # Known(t)
  PROVE  /\ copy'[t] = row /\ shown'[t] = row /\ editing'[t] = None
         /\ overtaken'[t] \in BOOLEAN
         /\ ~ overtaken'[t] => ~ saving /\ reader[t] = Idle
         /\ copy' = [copy EXCEPT ![t] = copy'[t]] /\ shown' = [shown EXCEPT ![t] = shown'[t]]
         /\ editing' = [editing EXCEPT ![t] = editing'[t]]
         /\ overtaken' = [overtaken EXCEPT ![t] = overtaken'[t]]
<1> DEFINE over == saving \/ reader[t] # Idle
<1>1. copy' = [copy EXCEPT ![t] = row] /\ shown' = [shown EXCEPT ![t] = row] /\ editing' = [editing EXCEPT ![t] = None]
  BY DEF Take
<1>2. overtaken' = [overtaken EXCEPT ![t] = over]
  BY DEF Take
<1>3. over \in BOOLEAN /\ (~ over => ~ saving /\ reader[t] = Idle)
  OBVIOUS
<1> HIDE DEF over
<1>4. overtaken'[t] = over /\ overtaken' = [overtaken EXCEPT ![t] = overtaken'[t]]
  BY <1>2, Zenon DEF ProfileInv
<1>5. QED
  BY <1>1, <1>3, <1>4 DEF ProfileInv

\* The row arrives.
LEMMA ArriveSound == ASSUME ProfileInv, NEW t \in Tabs, Arrive(t) PROVE ProfileInv'
<1> DEFINE row == request[t]
<1>1. /\ TabSound(copy[t], shown[t], editing[t], reader[t], save[t], overtaken[t])
      /\ overtaken[t] \in BOOLEAN /\ copy[t] \in Data /\ row \in Data /\ row # Unread
  BY DEF ProfileInv, Arrive
<1>2. row \in Profiles
  BY <1>1 DEF Data
<1>3. IsPending(t) \in BOOLEAN /\ Take(t, row, IsPending(t))
  BY DEF Arrive, IsPending
<1>4. /\ reader' = reader /\ save' = save /\ table' = table /\ request' = request
      /\ row = Known(t) => editing' = editing
  BY DEF Arrive
<1>5. CASE row # Known(t)
  <2>1. /\ copy'[t] = row /\ shown'[t] = row /\ editing'[t] = None /\ overtaken'[t] \in BOOLEAN
        /\ ~ overtaken'[t] => ~ IsPending(t) /\ reader[t] = Idle
    BY <1>2, <1>3, <1>5, TakeAfresh
  <2>2. StepOf(t)
    BY <1>2, <1>3, <1>4, <1>5, TakeAfresh DEF StepOf, ProfileInv
  <2>3. TabSound(row, row, None, reader[t], save[t], overtaken'[t])
    BY <1>1, <1>2, <2>1, NotPending, Overtaken DEF TabSound
  <2>4. QED
    BY <1>4, <2>1, <2>2, <2>3, OneTab DEF ProfileInv
<1>6. CASE row = Known(t)
  <2>1. /\ copy' = [copy EXCEPT ![t] = row] /\ shown' = shown /\ overtaken' = overtaken /\ editing' = editing
    BY <1>3, <1>4, <1>6 DEF Take
  <2>2. copy'[t] = row /\ StepOf(t)
    BY <1>4, <2>1 DEF ProfileInv, StepOf
  <2>3. Row(row) = Row(copy[t])
    BY <1>1, <1>6, KnownRow DEF Row
  <2>4. TabSound(row, shown[t], editing[t], reader[t], save[t], overtaken[t])
    BY <1>1, <2>3 DEF TabSound, MadeOf
  <2>5. QED
    BY <1>1, <1>4, <2>1, <2>2, <2>4, OneTab DEF ProfileInv
<1>7. QED
  BY <1>5, <1>6

\* A save succeeds.
LEMMA SucceedSound == ASSUME ProfileInv, NEW t \in Tabs, NEW f \in Fields, Succeed(t, f) PROVE ProfileInv'
<1> DEFINE row == save[t][f].row
           saving == \E g \in Fields \ {f} : save[t][g] # Idle
           sent == [save[t] EXCEPT ![f] = Idle]
           open == IF f \in Typed THEN None ELSE editing[t]
<1>1. /\ TabSound(copy[t], shown[t], editing[t], reader[t], save[t], overtaken[t])
      /\ overtaken[t] \in BOOLEAN /\ copy[t] \in Data /\ shown[t] \in Profiles
      /\ save[t][f] \in Saves /\ reader[t] \in Saves
  BY DEF ProfileInv
<1>2. row \in Profiles /\ save[t][f] # Idle
  BY <1>1 DEF Saves, Succeed, Idle
<1>3. saving \in BOOLEAN /\ Take(t, row, saving)
  BY DEF Succeed
<1>4. /\ reader' = reader /\ table' = table /\ request' = request
      /\ save' = [save EXCEPT ![t][f] = Idle]
      /\ row = Known(t) => editing' = [editing EXCEPT ![t] = open]
  BY DEF Succeed, Closed
<1>5. /\ save'[t] = sent /\ save' = [save EXCEPT ![t] = save'[t]] /\ sent \in [Fields -> Saves]
      /\ sent[f] = Idle /\ \A g \in Fields \ {f} : sent[g] = save[t][g]
  BY <1>1, <1>4, BlankProfile DEF ProfileInv, TabSound
<1>6. CASE row # Known(t)
  <2> HIDE DEF saving
  <2>1. /\ copy'[t] = row /\ shown'[t] = row /\ editing'[t] = None /\ overtaken'[t] \in BOOLEAN
        /\ ~ overtaken'[t] => ~ saving /\ reader[t] = Idle
    BY <1>2, <1>3, <1>6, TakeAfresh
  <2>2. StepOf(t)
    BY <1>2, <1>3, <1>4, <1>5, <1>6, TakeAfresh DEF StepOf, ProfileInv
  <2>3. ~ saving => \A g \in Fields : sent[g] = Idle
    BY <1>5 DEF saving
  <2> HIDE DEF sent
  <2>4. TabSound(row, row, None, reader[t], sent, overtaken'[t])
    BY <1>1, <1>2, <1>5, <2>1, <2>3, Overtaken DEF TabSound
  <2>5. QED
    BY <1>4, <1>5, <2>1, <2>2, <2>4, OneTab DEF ProfileInv
<1>7. CASE row = Known(t)
  <2>1. /\ copy' = [copy EXCEPT ![t] = row] /\ shown' = shown /\ overtaken' = overtaken
        /\ editing' = [editing EXCEPT ![t] = open]
    BY <1>3, <1>4, <1>7 DEF Take
  <2>2. copy'[t] = row /\ editing'[t] = open /\ StepOf(t)
    BY <1>4, <1>5, <2>1 DEF ProfileInv, StepOf
  <2>3. Row(row) = Row(copy[t]) /\ row \in Data
    BY <1>1, <1>2, <1>7, KnownRow, ProfileAssumption DEF Row, Data
  <2>4. ~ overtaken[t] => shown[t][f] = Row(copy[t])[f]
    BY <1>1, <1>2, <1>7, KnownRow DEF TabSound
  <2>5. TabSound(row, shown[t], open, reader[t], sent, overtaken[t])
    BY <1>1, <1>2, <2>3, <2>4, Settled
  <2>6. QED
    BY <1>1, <1>4, <1>5, <2>1, <2>2, <2>5, OneTab DEF ProfileInv
<1>8. QED
  BY <1>6, <1>7

\* Every step keeps the invariant.
LEMMA ProfileStep == ProfileInv /\ [ProfileNext]_profileVars => ProfileInv'
<1> SUFFICES ASSUME ProfileInv, [ProfileNext]_profileVars PROVE ProfileInv'
  OBVIOUS
<1>1. CASE UNCHANGED profileVars
  BY <1>1 DEF profileVars, ProfileInv
<1>2. ASSUME NEW t \in Tabs, \/ Ask(t) \/ Answer(t) \/ Arrive(t) \/ Unanswered(t)
                             \/ Cancel(t) \/ Submit(t) \/ Loaded(t) \/ ResetAvatar(t)
      PROVE  ProfileInv'
  BY <1>2, AskSound, AnswerSound, ArriveSound, UnansweredSound, CancelSound, SubmitSound,
     LoadedSound, ResetAvatarSound
<1>3. ASSUME NEW t \in Tabs, NEW f \in Typed, Open(t, f) PROVE ProfileInv'
  BY <1>3, OpenSound
<1>4. ASSUME NEW t \in Tabs, NEW v \in Texts, Type(t, v) \/ Pick(t, v) PROVE ProfileInv'
  BY <1>4, TypeSound, PickSound
<1>5. ASSUME NEW t \in Tabs, NEW f \in Fields,
             Store(t, f) \/ Refuse(t, f) \/ Succeed(t, f) \/ Fail(t, f)
      PROVE  ProfileInv'
  BY <1>5, StoreSound, RefuseSound, SucceedSound, FailSound
<1>6. QED
  BY <1>1, <1>2, <1>3, <1>4, <1>5 DEF ProfileNext

\* The tabs before they read anything.
LEMMA ProfileStart == ProfileInit => ProfileInv
<1> SUFFICES ASSUME ProfileInit PROVE ProfileInv
  OBVIOUS
<1>1. table \in Profiles
  BY BlankProfile DEF ProfileInit, Profiles
<1>2. ASSUME NEW t \in Tabs
      PROVE  TabSound(Unread, Blank, None, Idle, [f \in Fields |-> Idle], FALSE)
  BY BlankProfile, FieldsOfProfile DEF TabSound, Data, Row
<1>3. QED
  BY <1>1, <1>2, BlankProfile DEF ProfileInit, ProfileInv, Data

\* Once nothing is open or under way, a tab shows the row it has, whether its saves were
\* stored, refused or lost (WalletProfile.tsx:90-173), for any tabs and texts.
THEOREM ProfileIsHonest == ProfileSpec => []ProfileHonest
<1>1. ProfileInv => ProfileTypeOK
  BY DEF ProfileInv, ProfileTypeOK, Data
<1>2. ProfileInv => ShowsItsCopy
  <2> SUFFICES ASSUME ProfileInv, NEW t \in Tabs, editing[t] = None, ~ IsPending(t), ~ overtaken[t]
               PROVE  shown[t] = Known(t)
    BY DEF ShowsItsCopy
  <2>1. shown[t] \in Profiles /\ Known(t) \in Profiles
    BY KnownRow, BlankProfile DEF ProfileInv
  <2>2. \A g \in Fields : shown[t][g] = Known(t)[g]
    BY QuietTab, ProfileAssumption
  <2>3. QED
    BY <2>1, <2>2 DEF Profiles
<1>3. QED
  BY <1>1, <1>2, ProfileStart, ProfileStep, PTL DEF ProfileSpec, ProfileHonest

\* A save that is stored changes no other field, if the tab knew the row as it is then
\* and was not overtaken (WalletProfile.tsx:153-182), for any tabs and texts.
THEOREM OthersAreKept == ProfileSpec => OthersKept
<1> DEFINE Kept == \A t \in Tabs, f \in Fields :
             /\ save[t][f].phase = "sent" /\ save'[t][f] # save[t][f] /\ table' # table
             /\ save[t][f].base = table /\ ~ overtaken[t]
             => \A g \in Fields \ {f} : table'[g] = table[g]
<1>1. ProfileInv /\ [ProfileNext]_profileVars => [Kept]_profileVars
  <2> SUFFICES ASSUME ProfileInv, ProfileNext, NEW t \in Tabs, NEW f \in Fields,
                      save[t][f].phase = "sent", save'[t][f] # save[t][f], table' # table,
                      save[t][f].base = table, ~ overtaken[t]
               PROVE  \A g \in Fields \ {f} : table'[g] = table[g]
    OBVIOUS
  <2>1. PICK u \in Tabs, h \in Fields : Store(u, h)
    BY DEF ProfileNext, Ask, Answer, Arrive, Unanswered, Cancel, Submit, Loaded, ResetAvatar, Open, Type,
           Pick, Refuse, Succeed, Fail
  <2>2. u = t /\ h = f
    BY <2>1 DEF Store, ProfileInv
  <2>3. save[t][f] # Idle /\ table \in Profiles
    BY DEF Idle, ProfileInv
  <2>4. MadeOf(save[t][f], f, copy[t])
    BY <2>3 DEF ProfileInv, TabSound
  <2>5. Row(save[t][f].base) = table
    BY <2>3, ProfileAssumption DEF Row
  <2>6. QED
    BY <2>1, <2>2, <2>4, <2>5 DEF MadeOf, Store
<1>2. QED
  BY <1>1, ProfileStart, ProfileStep, PTL DEF ProfileSpec, OthersKept

-----------------------------------------------------------------------------
(* The lists kept in the browser.                                          *)

Entry == [wallet : Wallets, total : Totals, at : Nat]
Values == Seq(Entry) \cup (SUBSET Wallets) \cup [Wallets -> Nat]

ListsTypes ==
  /\ storage \in [Lists -> Values]
  /\ storage["history"] \in Seq(Entry)
  /\ storage["watch"] \in SUBSET Wallets
  /\ storage["badges"] \in [Wallets -> Nat]
  /\ screen \in [Tabs -> [Lists -> Values]]
  /\ late \in [Tabs -> SUBSET Lists]
  /\ page \in [Tabs -> Wallets]
  /\ account \in [Tabs -> Wallets \cup {None}]
  /\ signing \in [Tabs -> Wallets \cup {None}]
  /\ enriching \in [Tabs -> SUBSET Wallets]
  /\ searches \in Nat

\* A history that never shows a wallet twice and has the newest search first.
Ordered(h, last, wallets) ==
  /\ h \in Seq(Entry) /\ Len(h) <= HistoryMax
  /\ \A i, j \in 1..Len(h) : i < j => h[i].at > h[j].at /\ h[i].wallet # h[j].wallet
  /\ \A i \in 1..Len(h) : h[i].at <= last /\ h[i].wallet \in wallets

ListsInv ==
  /\ ListsTypes
  /\ Ordered(storage["history"], searches, searched)
  /\ OneBadge /\ TabsAgree

\* A write of one tab leaves each of the others right or with an event on its way.
LEMMA WriteKeeps ==
  ASSUME ListsTypes, TabsAgree, NEW t \in Tabs, NEW list \in Lists, NEW value \in Values,
         Write(t, list, value)
  PROVE  /\ storage' = [storage EXCEPT ![list] = value] /\ storage' \in [Lists -> Values]
         /\ screen' \in [Tabs -> [Lists -> Values]] /\ late' \in [Tabs -> SUBSET Lists]
         /\ TabsAgree'
<1>1. /\ storage' = [storage EXCEPT ![list] = value]
      /\ screen' = [screen EXCEPT ![t][list] = value]
      /\ late' = [u \in Tabs |-> IF u # t /\ value # storage[list] THEN late[u] \cup {list} ELSE late[u]]
  BY DEF Write
<1>2. storage' \in [Lists -> Values] /\ screen' \in [Tabs -> [Lists -> Values]] /\ late' \in [Tabs -> SUBSET Lists]
  BY <1>1 DEF ListsTypes
<1>3. ASSUME NEW u \in Tabs, NEW l \in Lists, l \notin late'[u] PROVE screen'[u][l] = storage'[l]
  <2>1. l \notin late[u] /\ screen[u][l] = storage[l]
    BY <1>1, <1>3 DEF TabsAgree
  <2>2. CASE l = list
    <3>1. CASE u = t
      BY <1>1, <2>2, <3>1 DEF ListsTypes
    <3>2. CASE u # t
      <4>1. value = storage[list]
        BY <1>1, <1>3, <2>2, <3>2
      <4>2. QED
        BY <1>1, <2>1, <2>2, <3>2, <4>1 DEF ListsTypes
    <3>3. QED
      BY <3>1, <3>2
  <2>3. CASE l # list
    BY <1>1, <2>1, <2>3 DEF ListsTypes
  <2>4. QED
    BY <2>2, <2>3
<1>4. QED
  BY <1>1, <1>2, <1>3 DEF TabsAgree

\* A wallet is watched, or no longer.
LEMMA WatchKeeps ==
  ASSUME ListsTypes, TabsAgree, NEW t \in Tabs, NEW w \in Wallets, NEW owner,
         Watch(t, w, owner) \/ Unwatch(t, w)
  PROVE  /\ storage' \in [Lists -> Values] /\ storage'["watch"] \in SUBSET Wallets
         /\ storage'["history"] = storage["history"] /\ storage'["badges"] = storage["badges"]
         /\ screen' \in [Tabs -> [Lists -> Values]] /\ late' \in [Tabs -> SUBSET Lists]
         /\ TabsAgree'
<1>1. CASE UNCHANGED <<storage, screen, late>>
  BY <1>1 DEF ListsTypes, TabsAgree
<1>2. ASSUME NEW value \in SUBSET Wallets, Write(t, "watch", value)
      PROVE  /\ storage' \in [Lists -> Values] /\ storage'["watch"] \in SUBSET Wallets
             /\ storage'["history"] = storage["history"] /\ storage'["badges"] = storage["badges"]
             /\ screen' \in [Tabs -> [Lists -> Values]] /\ late' \in [Tabs -> SUBSET Lists]
             /\ TabsAgree'
  <2>1. value \in Values /\ "watch" \in Lists
    BY DEF Values, Lists
  <2>2. QED
    BY <1>2, <2>1, WriteKeeps DEF ListsTypes, Lists
<1>3. QED
  <2>1. storage["watch"] \cup {w} \in SUBSET Wallets /\ storage["watch"] \ {w} \in SUBSET Wallets
    BY DEF ListsTypes
  <2>2. \/ UNCHANGED <<storage, screen, late>>
        \/ Write(t, "watch", storage["watch"] \cup {w})
        \/ Write(t, "watch", storage["watch"] \ {w})
    BY DEF Watch, Unwatch
  <2>3. QED
    BY <1>1, <1>2, <2>1, <2>2

\* The positions of a history.
LEMMA HistoryDomain == ASSUME NEW h \in Seq(Entry) PROVE DOMAIN h = 1..Len(h) /\ Len(h) \in Nat
OBVIOUS

\* The searched wallet comes first, the others keep their order.
LEMMA AddedOrdered ==
  ASSUME ListsInv, NEW w \in Wallets
  PROVE  Ordered(Added(w), searches + 1, searched \cup {w})
<1> DEFINE h == storage["history"]
           n == Len(h)
           prior == Prior(w)
           total == IF prior = {} THEN "null" ELSE h[Min(prior)].total
           new == [wallet |-> w, total |-> total, at |-> searches + 1]
           rest == Picked(h, DOMAIN h \ prior)
           entries == <<new>> \o rest
           m == IF Len(entries) < HistoryMax THEN Len(entries) ELSE HistoryMax
<1>1. h \in Seq(Entry) /\ DOMAIN h = 1..n /\ n \in Nat /\ searches \in Nat
  BY HistoryDomain DEF ListsInv, ListsTypes
<1>2. prior = {i \in 1..n : h[i].wallet = w}
  BY <1>1 DEF Prior
<1>3. total \in Totals
  <2>1. CASE prior = {}
    BY <2>1 DEF Totals
  <2>2. CASE prior # {}
    <3> HIDE DEF prior, n, h
    <3>1. prior \in SUBSET Nat
      BY <1>1, <1>2
    <3>2. Min(prior) \in prior
      BY <2>2, <3>1, MinIs
    <3>3. Min(prior) \in 1..n
      BY <1>2, <3>2
    <3>4. h[Min(prior)] \in Entry
      BY <1>1, <3>3 DEF n
    <3>5. QED
      BY <2>2, <3>4 DEF Entry
  <2>3. QED
    BY <2>1, <2>2
<1>4. Added(w) = SubSeq(entries, 1, m)
  BY DEF Added
<1> HIDE DEF total, prior
<1>5. new \in Entry /\ new.wallet = w /\ new.at = searches + 1
  BY <1>1, <1>3 DEF Entry
<1>6. DOMAIN h \ prior \in SUBSET (1..n)
  BY <1>1
<1> HIDE DEF h, n
<1>7. rest \in Seq(Entry) /\ \E e : Onto(e, rest, h, DOMAIN h \ prior)
  BY <1>1, <1>6, PickedIs DEF n
<1>8. PICK e : Onto(e, rest, h, DOMAIN h \ prior)
  BY <1>7
<1> HIDE DEF rest, new
<1> DEFINE k == Len(rest)
<1>9. k \in Nat /\ e \in [1..k -> DOMAIN h \ prior] /\ (\A j \in 1..k : rest[j] = h[e[j]])
      /\ \A i, j \in 1..k : i < j => e[i] < e[j]
  BY <1>7, <1>8 DEF Onto
<1>10. ASSUME NEW j \in 1..k
       PROVE  e[j] \in 1..n /\ rest[j] = h[e[j]] /\ rest[j].wallet # w
              /\ rest[j].wallet \in searched /\ rest[j].at \in Nat /\ rest[j].at <= searches
  <2>1. e[j] \in 1..n /\ e[j] \notin prior /\ rest[j] = h[e[j]]
    BY <1>1, <1>9
  <2>2. h[e[j]] \in Entry
    BY <1>1, <2>1 DEF n
  <2>3. h[e[j]].wallet # w
    BY <1>2, <2>1
  <2>4. h[e[j]].at <= searches /\ h[e[j]].wallet \in searched
    BY <2>1 DEF ListsInv, Ordered, h, n
  <2>5. QED
    BY <2>1, <2>2, <2>3, <2>4 DEF Entry
<1>11. /\ entries \in Seq(Entry) /\ Len(entries) = k + 1 /\ entries[1] = new
       /\ \A j \in 2..(k + 1) : entries[j] = rest[j - 1]
  BY <1>5, <1>7
<1> HIDE DEF entries, k
<1>12. /\ m \in Nat /\ m <= k + 1 /\ m <= HistoryMax
  <2>1. Len(entries) = k + 1
    BY <1>11
  <2>2. k \in Nat
    BY <1>9
  <2>3. QED
    BY <2>1, <2>2, ListsAssumption
<1> HIDE DEF m
<1>13. /\ Added(w) \in Seq(Entry) /\ Len(Added(w)) = m
       /\ \A j \in 1..m : Added(w)[j] = entries[j]
  <2>1. \A j \in 1..m : entries[j] \in Entry
    BY <1>9, <1>11, <1>12
  <2>2. QED
    BY <1>4, <1>9, <1>11, <1>12, <2>1
<1>14. ASSUME NEW i \in 1..m, NEW j \in 1..m, i < j
       PROVE  Added(w)[i].at > Added(w)[j].at /\ Added(w)[i].wallet # Added(w)[j].wallet
  <2>1. j \in 2..(k + 1) /\ j - 1 \in 1..k /\ Added(w)[j] = rest[j - 1]
    <3>1. k \in Nat /\ m \in Nat /\ m <= k + 1
      BY <1>9, <1>12
    <3>2. j \in 2..(k + 1) /\ j - 1 \in 1..k
      BY <3>1, <1>14
    <3>3. Added(w)[j] = entries[j]
      BY <1>13
    <3>4. QED
      BY <1>11, <3>2, <3>3
  <2>2. CASE i = 1
    BY <1>1, <1>5, <1>10, <1>11, <1>13, <2>1, <2>2
  <2>3. CASE i # 1
    <3>1. i - 1 \in 1..k /\ Added(w)[i] = rest[i - 1] /\ i - 1 < j - 1
      <4>1. k \in Nat /\ m \in Nat /\ m <= k + 1
        BY <1>9, <1>12
      <4>2. i \in 2..(k + 1) /\ i - 1 \in 1..k /\ i - 1 < j - 1
        BY <4>1, <1>14, <2>3
      <4>3. Added(w)[i] = entries[i]
        BY <1>13
      <4>4. entries[i] = rest[i - 1]
        BY <1>11, <4>2
      <4>5. QED
        BY <4>2, <4>3, <4>4
    <3>2. e[i - 1] < e[j - 1] /\ e[i - 1] \in 1..n /\ e[j - 1] \in 1..n
      BY <1>9, <1>10, <2>1, <3>1
    <3>3. h[e[i - 1]].at > h[e[j - 1]].at /\ h[e[i - 1]].wallet # h[e[j - 1]].wallet
      BY <3>2 DEF ListsInv, Ordered, h, n
    <3>4. QED
      BY <1>10, <2>1, <3>1, <3>3
  <2>4. QED
    BY <2>2, <2>3
<1>15. ASSUME NEW i \in 1..m
       PROVE  Added(w)[i].at <= searches + 1 /\ Added(w)[i].wallet \in searched \cup {w}
  <2>1. CASE i = 1
    BY <1>1, <1>5, <1>11, <1>13, <2>1
  <2>2. CASE i # 1
    <3>1. i - 1 \in 1..k /\ Added(w)[i] = rest[i - 1]
      <4>1. k \in Nat /\ m \in Nat /\ m <= k + 1
        BY <1>9, <1>12
      <4>2. i \in 2..(k + 1) /\ i - 1 \in 1..k
        BY <4>1, <2>2
      <4>3. Added(w)[i] = entries[i]
        BY <1>13
      <4>4. QED
        BY <1>11, <4>2, <4>3
    <3>2. QED
      BY <1>1, <1>10, <3>1
  <2>3. QED
    BY <2>1, <2>2
<1>16. QED
  BY <1>12, <1>13, <1>14, <1>15 DEF Ordered

\* A total that arrives changes no order and brings no wallet back.
LEMMA UpdatedOrdered ==
  ASSUME ListsInv, NEW w, NEW total \in Totals
  PROVE  Ordered(Updated(w, total), searches, searched)
<1> DEFINE h == storage["history"]
           n == Len(h)
           u == Updated(w, total)
<1>1. h \in Seq(Entry) /\ DOMAIN h = 1..n /\ n \in Nat
  BY HistoryDomain DEF ListsInv, ListsTypes
<1>2. u = [i \in 1..n |-> IF h[i].wallet = w THEN [h[i] EXCEPT !.total = total] ELSE h[i]]
  BY <1>1 DEF Updated
<1>3. ASSUME NEW i \in 1..n PROVE u[i] \in Entry /\ u[i].at = h[i].at /\ u[i].wallet = h[i].wallet
  <2>1. h[i] \in Entry
    BY <1>1
  <2> HIDE DEF h
  <2>2. [h[i] EXCEPT !.total = total] \in Entry
    BY <2>1 DEF Entry
  <2>3. QED
    BY <1>2, <2>1, <2>2 DEF Entry
<1>4. u \in Seq(Entry) /\ Len(u) = n
  <2> HIDE DEF n, h, u
  <2>1. u \in [1..n -> Entry]
    BY <1>2, <1>3
  <2>2. QED
    BY <1>1, <2>1
<1>5. QED
  BY <1>3, <1>4 DEF ListsInv, Ordered

\* The lists of the browser.
LEMMA ListNames == {"history", "watch", "badges"} = Lists
BY DEF Lists

\* A handler that writes the history.
LEMMA HistoryWritten ==
  ASSUME ListsInv, NEW t \in Tabs, NEW h, Write(t, "history", h), Ordered(h, searches', searched'),
         searches' \in Nat, page' \in [Tabs -> Wallets], enriching' \in [Tabs -> SUBSET Wallets],
         account' = account, signing' = signing
  PROVE  ListsInv'
<1>1. h \in Values /\ "history" \in Lists
  BY DEF Ordered, Values, Lists
<1>2. ListsTypes /\ TabsAgree /\ OneBadge
  BY DEF ListsInv
<1>3. /\ storage' = [storage EXCEPT !["history"] = h] /\ storage' \in [Lists -> Values]
      /\ screen' \in [Tabs -> [Lists -> Values]] /\ late' \in [Tabs -> SUBSET Lists]
      /\ TabsAgree'
  BY <1>1, <1>2, WriteKeeps
<1>4. storage'["history"] = h /\ storage'["watch"] = storage["watch"] /\ storage'["badges"] = storage["badges"]
  BY <1>2, <1>3 DEF ListsTypes, Lists
<1>5. ListsTypes'
  BY <1>2, <1>3, <1>4 DEF ListsTypes, Ordered
<1>6. OneBadge'
  BY <1>2, <1>4 DEF OneBadge
<1>7. QED
  BY <1>3, <1>4, <1>5, <1>6 DEF ListsInv

\* A handler that leaves the history and the badges alone.
LEMMA OthersWritten ==
  ASSUME ListsInv, storage' \in [Lists -> Values], storage'["watch"] \in SUBSET Wallets,
         storage'["history"] = storage["history"], storage'["badges"] = storage["badges"],
         screen' \in [Tabs -> [Lists -> Values]], late' \in [Tabs -> SUBSET Lists], TabsAgree',
         page' \in [Tabs -> Wallets], account' \in [Tabs -> Wallets \cup {None}],
         signing' \in [Tabs -> Wallets \cup {None}], enriching' \in [Tabs -> SUBSET Wallets],
         searches' = searches, searched' = searched
  PROVE  ListsInv'
BY DEF ListsInv, ListsTypes, OneBadge

\* A wallet is searched.
LEMMA SearchKeeps == ASSUME ListsInv, NEW t \in Tabs, NEW w \in Wallets, Search(t, w) PROVE ListsInv'
<1>1. Ordered(Added(w), searches', searched') /\ Write(t, "history", Added(w))
  BY AddedOrdered DEF Search
<1>2. /\ searches' \in Nat /\ page' \in [Tabs -> Wallets] /\ enriching' \in [Tabs -> SUBSET Wallets]
      /\ account' = account /\ signing' = signing
  BY DEF Search, ListsInv, ListsTypes
<1>3. QED
  BY <1>1, <1>2, HistoryWritten

\* A searched wallet's total arrives.
LEMMA EnrichedKeeps == ASSUME ListsInv, NEW t \in Tabs, NEW w \in Wallets, Enriched(t, w) PROVE ListsInv'
<1>1. PICK total \in Totals : Write(t, "history", Updated(w, total))
  BY DEF Enriched
<1>2. /\ searches' = searches /\ page' = page /\ account' = account /\ signing' = signing /\ searched' = searched
      /\ enriching' = [enriching EXCEPT ![t] = @ \ {w}]
  BY DEF Enriched, pageVars
<1>3. Ordered(Updated(w, total), searches', searched')
  BY <1>2, UpdatedOrdered
<1>4. searches' \in Nat /\ page' \in [Tabs -> Wallets] /\ enriching' \in [Tabs -> SUBSET Wallets]
  BY <1>2 DEF ListsInv, ListsTypes
<1>5. QED
  BY <1>1, <1>2, <1>3, <1>4, HistoryWritten

\* The history is cleared.
LEMMA ClearKeeps == ASSUME ListsInv, NEW t \in Tabs, ClearHistory(t) PROVE ListsInv'
<1>1. Write(t, "history", <<>>) /\ searches' = searches /\ UNCHANGED <<enriching, pageVars>>
  BY DEF ClearHistory
<1>2. Ordered(<<>>, searches', searched')
  BY ListsAssumption DEF Ordered
<1>3. QED
  BY <1>1, <1>2, HistoryWritten DEF pageVars, ListsInv, ListsTypes

\* An event arrives.
LEMMA DeliverKeeps == ASSUME ListsInv, NEW t \in Tabs, NEW list \in Lists, Deliver(t, list) PROVE ListsInv'
<1>1. /\ screen' = [screen EXCEPT ![t][list] = storage[list]] /\ late' = [late EXCEPT ![t] = @ \ {list}]
      /\ UNCHANGED <<storage, enriching, pageVars, searches, changes, searched>>
  BY DEF Deliver
<1>2. screen' \in [Tabs -> [Lists -> Values]] /\ late' \in [Tabs -> SUBSET Lists]
  BY <1>1 DEF ListsInv, ListsTypes
<1>3. TabsAgree'
  BY <1>1 DEF ListsInv, ListsTypes, TabsAgree
<1>4. QED
  BY <1>1, <1>2, <1>3, OthersWritten DEF pageVars, ListsInv, ListsTypes

\* A tab is loaded again.
LEMMA ReloadKeeps == ASSUME ListsInv, NEW t \in Tabs, Reload(t) PROVE ListsInv'
<1>1. /\ screen' = [screen EXCEPT ![t] = storage] /\ late' = [late EXCEPT ![t] = {}]
      /\ enriching' = [enriching EXCEPT ![t] = {}] /\ signing' = [signing EXCEPT ![t] = None]
      /\ UNCHANGED <<storage, page, account, searches, searched>>
  BY DEF Reload
<1>2. /\ screen' \in [Tabs -> [Lists -> Values]] /\ late' \in [Tabs -> SUBSET Lists]
      /\ enriching' \in [Tabs -> SUBSET Wallets] /\ signing' \in [Tabs -> Wallets \cup {None}]
  BY <1>1 DEF ListsInv, ListsTypes
<1>3. TabsAgree'
  BY <1>1 DEF ListsInv, ListsTypes, TabsAgree
<1>4. QED
  BY <1>1, <1>2, <1>3, OthersWritten DEF ListsInv, ListsTypes

\* The star of the shown wallet.
LEMMA ToggleKeeps == ASSUME ListsInv, NEW t \in Tabs, Toggle(t) PROVE ListsInv'
<1>1. page[t] \in Wallets /\ UNCHANGED <<enriching, page, account, signing, searches, searched>>
  BY DEF Toggle, ListsInv, ListsTypes
<1>2. \/ Unwatch(t, page[t]) \/ Watch(t, page[t], account[t]) \/ UNCHANGED <<storage, screen, late>>
  BY DEF Toggle
<1>3. CASE UNCHANGED <<storage, screen, late>>
  BY <1>1, <1>3 DEF ListsInv, ListsTypes, OneBadge, TabsAgree
<1>4. CASE Unwatch(t, page[t]) \/ Watch(t, page[t], account[t])
  BY <1>1, <1>4, WatchKeeps, OthersWritten DEF ListsInv, ListsTypes
<1>5. QED
  BY <1>2, <1>3, <1>4

\* A row of the watch list.
LEMMA EditListKeeps == ASSUME ListsInv, NEW t \in Tabs, NEW w \in Wallets, EditList(t, w) PROVE ListsInv'
<1>1. (Watch(t, w, None) \/ Unwatch(t, w)) /\ UNCHANGED <<enriching, pageVars, searches, searched>>
  BY DEF EditList
<1>2. QED
  BY <1>1, WatchKeeps, OthersWritten DEF pageVars, ListsInv, ListsTypes

\* A wallet is connected.
LEMMA ConnectKeeps == ASSUME ListsInv, NEW t \in Tabs, NEW w \in Wallets, Connect(t, w) PROVE ListsInv'
<1>1. page[t] \in Wallets /\ UNCHANGED <<enriching, page, signing, searches, searched>>
      /\ account' \in [Tabs -> Wallets \cup {None}]
  BY DEF Connect, ListsInv, ListsTypes
<1>2. \/ Watch(t, page[t], w) \/ UNCHANGED <<storage, screen, late>>
  BY DEF Connect
<1>3. CASE UNCHANGED <<storage, screen, late>>
  BY <1>1, <1>3 DEF ListsInv, ListsTypes, OneBadge, TabsAgree
<1>4. CASE Watch(t, page[t], w)
  BY <1>1, <1>4, WatchKeeps, OthersWritten DEF ListsInv, ListsTypes
<1>5. QED
  BY <1>2, <1>3, <1>4

\* A badge is written once: mintWalletBadge looks before it writes.
LEMMA SignedKeeps == ASSUME ListsInv, NEW t \in Tabs, Signed(t) PROVE ListsInv'
<1> DEFINE w == signing[t]
<1>1. /\ w # None /\ signing' = [signing EXCEPT ![t] = None]
      /\ UNCHANGED <<enriching, page, account, searches, searched>>
  BY DEF Signed
<1>2. w \in Wallets /\ signing' \in [Tabs -> Wallets \cup {None}]
  BY <1>1 DEF ListsInv, ListsTypes
<1>3. CASE storage["badges"][w] > 0
  <2>1. UNCHANGED <<storage, screen, late>>
    BY <1>3 DEF Signed
  <2>2. QED
    BY <1>1, <1>2, <2>1 DEF ListsInv, ListsTypes, OneBadge, TabsAgree
<1>4. CASE ~ (storage["badges"][w] > 0)
  <2> DEFINE b == [storage["badges"] EXCEPT ![w] = @ + 1]
  <2>1. Write(t, "badges", b)
    BY <1>4 DEF Signed
  <2>2. storage["badges"] \in [Wallets -> Nat] /\ storage["badges"][w] = 0
    BY <1>2, <1>4 DEF ListsInv, ListsTypes
  <2>3. b \in [Wallets -> Nat] /\ \A v \in Wallets : b[v] <= 1
    BY <1>2, <2>2 DEF ListsInv, OneBadge
  <2> HIDE DEF b
  <2>4. b \in Values /\ "badges" \in Lists
    BY <2>3 DEF Values, Lists
  <2>5. /\ storage' = [storage EXCEPT !["badges"] = b] /\ storage' \in [Lists -> Values]
        /\ screen' \in [Tabs -> [Lists -> Values]] /\ late' \in [Tabs -> SUBSET Lists]
        /\ TabsAgree'
    BY <2>1, <2>4, WriteKeeps DEF ListsInv
  <2>6. storage'["badges"] = b /\ storage'["watch"] = storage["watch"] /\ storage'["history"] = storage["history"]
    BY <2>5 DEF ListsInv, ListsTypes, Lists
  <2>7. ListsTypes'
    BY <1>1, <1>2, <2>3, <2>5, <2>6 DEF ListsInv, ListsTypes
  <2>8. OneBadge'
    BY <2>3, <2>6 DEF OneBadge
  <2>9. Ordered(storage["history"], searches, searched)'
    BY <1>1, <2>6 DEF ListsInv
  <2>10. QED
    BY <2>5, <2>7, <2>8, <2>9 DEF ListsInv
<1>5. QED
  BY <1>3, <1>4

\* A badge is minted, or not signed.
LEMMA MintKeeps == ASSUME ListsInv, NEW t \in Tabs, Mint(t) \/ Unsigned(t) PROVE ListsInv'
<1>1. UNCHANGED <<storage, screen, late, enriching, page, account, searches, searched>>
  BY DEF Mint, Unsigned
<1>2. signing' \in [Tabs -> Wallets \cup {None}]
  BY DEF Mint, Unsigned, ListsInv, ListsTypes
<1>3. QED
  BY <1>1, <1>2 DEF ListsInv, ListsTypes, OneBadge, TabsAgree

\* The storage as it begins.
LEMMA ListRecord ==
  ASSUME NEW S, NEW h \in S, NEW w \in S, NEW b \in S
  PROVE  [history |-> h, watch |-> w, badges |-> b] \in [Lists -> S]
<1>1. [history |-> h, watch |-> w, badges |-> b]
        = [l \in Lists |-> IF l = "history" THEN h ELSE IF l = "watch" THEN w ELSE b]
  BY DEF Lists
<1>2. QED
  BY <1>1

\* The browser as it begins.
LEMMA ListsStart == ListsInit => ListsInv
<1> SUFFICES ASSUME ListsInit PROVE ListsInv
  OBVIOUS
<1>1. /\ storage = NoLists /\ screen = [t \in Tabs |-> NoLists]
      /\ NoLists \in [Lists -> Values] /\ NoLists["history"] = <<>> /\ NoLists["watch"] = {}
      /\ NoLists["badges"] = [w \in Wallets |-> 0]
  <2> DEFINE none == [w \in Wallets |-> 0]
  <2>1. <<>> \in Values /\ {} \in Values /\ none \in Values
    BY DEF Values
  <2>2. NoLists = [history |-> <<>>, watch |-> {}, badges |-> none]
    BY DEF NoLists
  <2> HIDE DEF none
  <2>3. NoLists \in [Lists -> Values]
    BY <2>1, <2>2, ListRecord
  <2>4. NoLists["history"] = <<>> /\ NoLists["watch"] = {} /\ NoLists["badges"] = none
    BY <2>2
  <2>5. QED
    BY <2>3, <2>4 DEF ListsInit, none
<1>2. Ordered(<<>>, 0, {})
  BY ListsAssumption DEF Ordered
<1>3. QED
  BY <1>1, <1>2 DEF ListsInit, ListsInv, ListsTypes, OneBadge, TabsAgree

\* The history has a wallet once, the newest search first, and none that was cleared; a
\* wallet has a badge at most once; a tab shows what is stored unless an event is on its way
\* (searchHistory.ts, watchlist.ts, badges.ts): for any tabs, wallets and history length.
THEOREM ListsAreHonest == ListsSpec => []ListsHonest
<1>1. ListsInv /\ [ListsNext]_listVars => ListsInv'
  <2> SUFFICES ASSUME ListsInv, [ListsNext]_listVars PROVE ListsInv'
    OBVIOUS
  <2>1. CASE UNCHANGED listVars
    BY <2>1 DEF listVars, ListsInv, ListsTypes, OneBadge, TabsAgree
  <2>2. CASE ListsNext
    BY <2>2, SearchKeeps, EnrichedKeeps, ClearKeeps, DeliverKeeps, ReloadKeeps, ToggleKeeps, EditListKeeps,
       ConnectKeeps, SignedKeeps, MintKeeps DEF ListsNext
  <2>3. QED
    BY <2>1, <2>2
<1>2. ListsInv => ListsHonest
  <2> SUFFICES ASSUME ListsInv PROVE HistoryHonest
    BY DEF ListsInv, ListsHonest
  <2>1. DOMAIN storage["history"] = 1..Len(storage["history"])
    BY HistoryDomain DEF ListsInv, ListsTypes
  <2>2. QED
    BY <2>1 DEF ListsInv, Ordered, HistoryHonest
<1>3. QED
  BY <1>1, <1>2, ListsStart, PTL DEF ListsSpec

-----------------------------------------------------------------------------
(* Animation.                                                              *)


States ==
  [on : BOOLEAN, sized : BOOLEAN, running : BOOLEAN, frames : Nat, timer : BOOLEAN,
   seen : BOOLEAN, visible : BOOLEAN, packets : Nat, told : BOOLEAN, refused : BOOLEAN,
   unasked : BOOLEAN]

Steady(s) == s.frames = IF s.running THEN 1 ELSE 0

\* stop.
LEMMA Stopped ==
  ASSUME NEW s \in States
  PROVE  LET r == StopLoop(s)
         IN /\ r \in States
            /\ r.on = s.on /\ r.sized = s.sized /\ r.visible = s.visible /\ r.told = s.told
            /\ r.refused = s.refused /\ r.unasked = s.unasked
            /\ r.running = FALSE
            /\ Steady(s) => r.frames = 0
<1> DEFINE n == IF s.frames > 0 THEN s.frames - 1 ELSE 0
<1>1. n \in Nat /\ (Steady(s) => n = 0)
  BY DEF States, Steady
<1> HIDE DEF n
<1>2. [s EXCEPT !.running = FALSE, !.frames = n] \in States
  BY <1>1 DEF States
<1>3. StopLoop(s) = [s EXCEPT !.running = FALSE, !.frames = n]
  BY DEF StopLoop, n
<1>4. QED
  BY <1>1, <1>2, <1>3 DEF States

\* start.
LEMMA Started ==
  ASSUME NEW s \in States, NEW slow \in BOOLEAN
  PROVE  LET r == StartLoop(s, slow)
         IN /\ r \in States
            /\ r.on = s.on /\ r.sized = s.sized /\ r.visible = s.visible /\ r.told = s.told
            /\ s.running => r = s
            /\ r.running => s.running \/ ~ slow
            /\ ~ r.running => r.refused \/ slow
            /\ r.running /\ ~ s.running => ~ r.unasked
            /\ Steady(s) => Steady(r)
<1>1. CASE s.running
  BY <1>1 DEF StartLoop, States
<1>2. CASE ~ s.running /\ (slow \/ ~ s.sized)
  <2>1. StartLoop(s, slow) = [s EXCEPT !.refused = ~ slow]
    BY <1>2 DEF StartLoop
  <2>2. [s EXCEPT !.refused = ~ slow] \in States
    BY DEF States
  <2>3. QED
    BY <1>2, <2>1, <2>2 DEF States, Steady
<1>3. CASE ~ s.running /\ ~ slow /\ s.sized
  <2> DEFINE n == s.frames + 1
  <2>1. n \in Nat /\ (Steady(s) => n = 1)
    BY <1>3 DEF States, Steady
  <2>2. StartLoop(s, slow) = [s EXCEPT !.running = TRUE, !.frames = n, !.packets = 0,
                                       !.refused = FALSE, !.unasked = FALSE]
    BY <1>3 DEF StartLoop
  <2> HIDE DEF n
  <2>3. [s EXCEPT !.running = TRUE, !.frames = n, !.packets = 0,
                  !.refused = FALSE, !.unasked = FALSE] \in States
    BY <2>1 DEF States
  <2>4. QED
    BY <1>3, <2>1, <2>2, <2>3 DEF States, Steady
<1>4. QED
  BY <1>1, <1>2, <1>3 DEF States

\* start, by the caller that does not look whether the canvas is visible.
LEMMA StartedUnasked ==
  ASSUME NEW s \in States, NEW slow \in BOOLEAN
  PROVE  LET r == StartUnasked(s, slow)
         IN /\ r \in States
            /\ r.on = s.on /\ r.sized = s.sized /\ r.visible = s.visible /\ r.told = s.told
            /\ s.running => r = s
            /\ r.running => s.running \/ ~ slow
            /\ ~ r.running => r.refused \/ slow
            /\ ~ s.running => r.unasked
            /\ Steady(s) => Steady(r)
<1>1. CASE s.running
  BY <1>1 DEF StartUnasked, States
<1>2. CASE ~ s.running
  <2>1. StartUnasked(s, slow) = [StartLoop(s, slow) EXCEPT !.unasked = TRUE]
    BY <1>2 DEF StartUnasked
  <2> DEFINE r == StartLoop(s, slow)
  <2>2. r \in States /\ r.on = s.on /\ r.sized = s.sized /\ r.visible = s.visible /\ r.told = s.told
    BY Started
  <2>3. (r.running => s.running \/ ~ slow) /\ (~ r.running => r.refused \/ slow) /\ (Steady(s) => Steady(r))
    BY Started
  <2> HIDE DEF r
  <2>4. [r EXCEPT !.unasked = TRUE] \in States
    BY <2>2 DEF States
  <2>5. QED
    BY <1>2, <2>1, <2>2, <2>3, <2>4 DEF States, Steady, r
<1>3. QED
  BY <1>1, <1>2 DEF States


MotionTypes ==
  /\ canvas \in [Canvases -> States]
  /\ box \in [Canvases -> BOOLEAN] /\ inView \in [Canvases -> BOOLEAN]
  /\ hidden \in BOOLEAN /\ reduced \in BOOLEAN

\* What MotionHonest says of one canvas.
Sound(s, away, slow) ==
  /\ Steady(s)
  /\ ~ s.on => s = Unmounted
  /\ s.running /\ ~ s.visible => s.unasked
  /\ s.running => ~ (slow /\ s.told)
  /\ s.visible /\ ~ away /\ ~ slow /\ ~ s.told /\ ~ s.refused => s.running

MotionInv == MotionTypes /\ \A c \in Canvases : Sound(canvas[c], hidden, reduced)

\* A canvas that is not mounted.
LEMMA UnmountedSound ==
  ASSUME NEW away, NEW slow
  PROVE  Unmounted \in States /\ Sound(Unmounted, away, slow)
BY DEF Unmounted, States, Sound, Steady

\* A step of one canvas that leaves it sound keeps the invariant.
LEMMA OneCanvas ==
  ASSUME MotionInv, NEW c \in Canvases, NEW s \in States, On(c, s),
         hidden' = hidden, reduced' = reduced, Sound(s, hidden, reduced),
         box' \in [Canvases -> BOOLEAN], inView' \in [Canvases -> BOOLEAN]
  PROVE  MotionInv'
<1>1. canvas' \in [Canvases -> States] /\ canvas'[c] = s
         /\ \A d \in Canvases \ {c} : canvas'[d] = canvas[d]
  BY DEF MotionInv, MotionTypes, On
<1>2. \A d \in Canvases : Sound(canvas'[d], hidden', reduced')
  BY <1>1 DEF MotionInv
<1>3. QED
  BY <1>1, <1>2 DEF MotionInv, MotionTypes

\* A canvas is mounted.
LEMMA MountSound == ASSUME MotionInv, NEW c \in Canvases, Mount(c) PROVE MotionInv'
<1> DEFINE s == [Unmounted EXCEPT !.on = TRUE, !.sized = box[c], !.timer = TRUE, !.told = reduced]
<1>1. /\ s \in States /\ s.on /\ s.told = reduced /\ ~ s.running /\ ~ s.visible
      /\ s.frames = 0 /\ ~ s.refused
  BY DEF MotionInv, MotionTypes, Unmounted, States
<1>2. On(c, IF reduced THEN Still(s) ELSE StartUnasked(s, reduced))
  BY DEF Mount
<1>3. reduced \in BOOLEAN
  BY DEF MotionInv, MotionTypes
<1> HIDE DEF s
<1>4. CASE reduced
  <2>1. Still(s) = [s EXCEPT !.packets = 1] /\ [s EXCEPT !.packets = 1] \in States
    BY <1>1 DEF Still, States
  <2>2. Sound(Still(s), hidden, reduced)
    BY <1>1, <1>4, <2>1 DEF Sound, Steady, States
  <2>3. QED
    BY <1>2, <1>4, <2>1, <2>2, OneCanvas DEF Mount, MotionInv, MotionTypes
<1>5. CASE ~ reduced
  <2> DEFINE r == StartUnasked(s, reduced)
  <2>1. Steady(s)
    BY <1>1 DEF Steady
  <2>2. r \in States /\ Sound(r, hidden, reduced)
    BY <1>1, <1>3, <1>5, <2>1, StartedUnasked DEF Sound
  <2>3. QED
    BY <1>2, <1>5, <2>2, OneCanvas DEF Mount, MotionInv, MotionTypes
<1>6. QED
  BY <1>3, <1>4, <1>5

\* A canvas is unmounted.
LEMMA UnmountSound == ASSUME MotionInv, NEW c \in Canvases, Unmount(c) PROVE MotionInv'
<1> DEFINE s == StopLoop(canvas[c])
<1>1. canvas[c] \in States /\ Steady(canvas[c])
  BY DEF MotionInv, MotionTypes, Sound
<1>2. s.running = FALSE /\ s.frames = 0
  BY <1>1, Stopped
<1>3. On(c, [Unmounted EXCEPT !.running = s.running, !.frames = s.frames])
  BY DEF Unmount
<1>4. [Unmounted EXCEPT !.running = s.running, !.frames = s.frames] = Unmounted
  <2>1. [Unmounted EXCEPT !.running = FALSE, !.frames = 0] = Unmounted
    <3>1. Unmounted \in States /\ Unmounted.running = FALSE /\ Unmounted.frames = 0
      BY DEF Unmounted, States
    <3>2. QED
      BY <3>1 DEF States
  <2>2. QED
    BY <1>2, <2>1
<1>5. QED
  BY <1>3, <1>4, UnmountedSound, OneCanvas DEF Unmount, MotionInv, MotionTypes

\* A canvas is laid out.
LEMMA LayoutSound == ASSUME MotionInv, NEW c \in Canvases, Layout(c) PROVE MotionInv'
<1> DEFINE s == [canvas[c] EXCEPT !.timer = canvas[c].on]
<1>1. canvas[c] \in States /\ Sound(canvas[c], hidden, reduced)
  BY DEF MotionInv, MotionTypes
<1>2. s \in States /\ On(c, s)
  BY <1>1 DEF States, Layout
<1>3. Sound(s, hidden, reduced)
  <2>1. ~ s.on => s = Unmounted
    BY <1>1 DEF Sound, States, Unmounted
  <2>2. QED
    BY <1>1, <2>1 DEF Sound, States, Steady
<1>4. box' \in [Canvases -> BOOLEAN]
  BY DEF Layout, MotionInv, MotionTypes
<1> HIDE DEF s
<1>5. QED
  BY <1>2, <1>3, <1>4, OneCanvas DEF Layout, MotionInv, MotionTypes

\* A canvas is resized.
LEMMA ResizeSound == ASSUME MotionInv, NEW c \in Canvases, Resize(c) PROVE MotionInv'
<1> DEFINE s == [canvas[c] EXCEPT !.timer = FALSE, !.sized = box[c]]
<1>1. canvas[c] \in States /\ Sound(canvas[c], hidden, reduced) /\ box[c] \in BOOLEAN /\ canvas[c].timer
  BY DEF MotionInv, MotionTypes, Resize
<1>2. canvas[c].on
  BY <1>1 DEF Sound, Unmounted
<1>3. s \in States /\ Sound(s, hidden, reduced)
  BY <1>1, <1>2 DEF Sound, States, Steady
<1>4. On(c, Still(s)) \/ On(c, s)
  BY DEF Resize
<1> HIDE DEF s
<1>5. Still(s) \in States /\ Sound(Still(s), hidden, reduced)
  <2>1. Still(s) = [s EXCEPT !.packets = 1] /\ [s EXCEPT !.packets = 1] \in States
    BY <1>3 DEF Still, States
  <2>2. s.on
    BY <1>2, <1>1 DEF s, States
  <2>3. QED
    BY <1>3, <2>1, <2>2 DEF Sound, Steady, States
<1>6. QED
  BY <1>3, <1>4, <1>5, OneCanvas DEF Resize, MotionInv, MotionTypes

\* A canvas scrolls into or out of view.
LEMMA ObserveSound == ASSUME MotionInv, NEW c \in Canvases, Observe(c) PROVE MotionInv'
<1> DEFINE s == [canvas[c] EXCEPT !.seen = TRUE, !.visible = inView[c]]
<1>1. /\ canvas[c] \in States /\ Sound(canvas[c], hidden, reduced) /\ inView[c] \in BOOLEAN
      /\ canvas[c].on /\ reduced \in BOOLEAN /\ hidden \in BOOLEAN
  BY DEF MotionInv, MotionTypes, Observe
<1>2. /\ s \in States /\ s.on /\ s.visible = inView[c] /\ Steady(s)
      /\ s.running => ~ (reduced /\ s.told)
  BY <1>1 DEF Sound, States, Steady
<1>3. On(c, IF inView[c] THEN StartLoop(s, reduced) ELSE StopLoop(s))
  BY DEF Observe
<1> HIDE DEF s
<1>4. CASE inView[c]
  <2> DEFINE r == StartLoop(s, reduced)
  <2>1. r \in States /\ Sound(r, hidden, reduced)
    BY <1>1, <1>2, <1>4, Started DEF Sound
  <2>2. QED
    BY <1>3, <1>4, <2>1, OneCanvas DEF Observe, MotionInv, MotionTypes
<1>5. CASE ~ inView[c]
  <2> DEFINE r == StopLoop(s)
  <2>1. r \in States /\ r.on = s.on /\ r.visible = s.visible /\ r.running = FALSE /\ r.frames = 0
    BY <1>2, Stopped
  <2>2. Sound(r, hidden, reduced)
    BY <1>2, <1>5, <2>1 DEF Sound, Steady
  <2>3. QED
    BY <1>3, <1>5, <2>1, <2>2, OneCanvas DEF Observe, MotionInv, MotionTypes
<1>6. QED
  BY <1>1, <1>4, <1>5

\* The observer reports.
LEMMA ReportSound == ASSUME MotionInv, NEW c \in Canvases, Report(c) PROVE MotionInv'
<1> DEFINE s == [StopLoop(canvas[c]) EXCEPT !.told = reduced]
           r == StopLoop(canvas[c])
<1>1. /\ canvas[c] \in States /\ Sound(canvas[c], hidden, reduced) /\ canvas[c].on
      /\ reduced \in BOOLEAN /\ hidden \in BOOLEAN
  BY DEF MotionInv, MotionTypes, Report
<1>2. r \in States /\ r.on = canvas[c].on /\ r.running = FALSE /\ r.frames = 0
  BY <1>1, Stopped DEF Sound
<1>3. On(c, IF reduced THEN Still(s) ELSE StartUnasked(s, reduced))
  BY DEF Report
<1>4. /\ s \in States /\ s.on /\ s.told = reduced /\ ~ s.running /\ s.frames = 0 /\ Steady(s)
  <2> HIDE DEF r
  <2>1. [r EXCEPT !.told = reduced] \in States
    BY <1>1, <1>2 DEF States
  <2>2. QED
    BY <1>1, <1>2, <2>1 DEF States, Steady, r
<1> HIDE DEF s
<1>5. CASE reduced
  <2>1. Still(s) = [s EXCEPT !.packets = 1] /\ [s EXCEPT !.packets = 1] \in States
    BY <1>4 DEF Still, States
  <2>2. Sound(Still(s), hidden, reduced)
    BY <1>4, <1>5, <2>1 DEF Sound, Steady, States
  <2>3. QED
    BY <1>3, <1>5, <2>1, <2>2, OneCanvas DEF Report, MotionInv, MotionTypes
<1>6. CASE ~ reduced
  <2>1. StartUnasked(s, reduced) \in States /\ Sound(StartUnasked(s, reduced), hidden, reduced)
    BY <1>1, <1>4, <1>6, StartedUnasked DEF Sound
  <2>2. QED
    BY <1>3, <1>6, <2>1, OneCanvas DEF Report, MotionInv, MotionTypes
<1>7. QED
  BY <1>1, <1>5, <1>6

\* A frame is drawn.
LEMMA FrameSound == ASSUME MotionInv, NEW c \in Canvases, Frame(c) PROVE MotionInv'
<1>1. PICK n \in 0..Pool :
        On(c, [canvas[c] EXCEPT !.frames = IF canvas[c].running THEN @ ELSE @ - 1,
                                !.packets = IF canvas[c].running THEN n ELSE @])
  BY DEF Frame
<1>2. canvas[c] \in States /\ Sound(canvas[c], hidden, reduced) /\ canvas[c].frames > 0
  BY DEF MotionInv, MotionTypes, Frame
<1>3. canvas[c].running /\ canvas[c].on
  BY <1>2 DEF Sound, Steady, States, Unmounted
<1> DEFINE s == [canvas[c] EXCEPT !.frames = canvas[c].frames, !.packets = n]
<1>4. On(c, s)
  BY <1>1, <1>3, Zenon DEF On
<1>5. s \in States /\ Sound(s, hidden, reduced)
  <2>1. n \in Nat
    BY MotionAssumption
  <2>2. canvas[c].frames \in Nat
    BY <1>2 DEF States
  <2>3. s \in States
    BY <1>2, <2>1 DEF States
  <2>4. s.frames = canvas[c].frames
    BY <1>2 DEF States
  <2>5. /\ s.running = canvas[c].running /\ s.on = canvas[c].on /\ s.visible = canvas[c].visible
        /\ s.told = canvas[c].told /\ s.unasked = canvas[c].unasked /\ s.refused = canvas[c].refused
    BY <1>2 DEF States
  <2> HIDE DEF s
  <2>6. QED
    BY <1>2, <1>3, <2>3, <2>4, <2>5 DEF Sound, Steady
<1> HIDE DEF s
<1>6. QED
  BY <1>4, <1>5, OneCanvas DEF Frame, MotionInv, MotionTypes

\* The timer looks at the preference.
LEMMA LookUpSound == ASSUME MotionInv, NEW c \in Canvases, LookUp(c) PROVE MotionInv'
<1> DEFINE full == canvas[c].packets + Burst
           n == IF full < Pool THEN full ELSE Pool
<1>1. canvas[c] \in States /\ Sound(canvas[c], hidden, reduced) /\ canvas[c].on
  BY DEF MotionInv, MotionTypes, LookUp
<1>2. n \in Nat
  BY <1>1, MotionAssumption DEF States
<1>3. On(c, [canvas[c] EXCEPT !.packets = n])
  BY DEF LookUp
<1> HIDE DEF n
<1>4. [canvas[c] EXCEPT !.packets = n] \in States /\ Sound([canvas[c] EXCEPT !.packets = n], hidden, reduced)
  BY <1>1, <1>2 DEF Sound, States, Steady
<1>5. QED
  BY <1>3, <1>4, OneCanvas DEF LookUp, MotionInv, MotionTypes

\* The tab is hidden or shown: every mounted canvas hears of it.
LEMMA SwitchSound == ASSUME MotionInv, SwitchTab PROVE MotionInv'
<1> DEFINE After(s) == IF hidden' THEN StopLoop(s) ELSE IF s.visible THEN StartLoop(s, reduced) ELSE s
<1>1. /\ hidden' = ~ hidden /\ hidden' \in BOOLEAN /\ hidden \in BOOLEAN /\ reduced \in BOOLEAN
      /\ reduced' = reduced /\ box' = box /\ inView' = inView
      /\ canvas' = [c \in Canvases |-> IF canvas[c].on THEN After(canvas[c]) ELSE canvas[c]]
  BY DEF SwitchTab, OnAll, MotionInv, MotionTypes
<1>2. ASSUME NEW c \in Canvases
      PROVE  canvas'[c] \in States /\ Sound(canvas'[c], hidden', reduced')
  <2> DEFINE s == canvas[c]
  <2>1. s \in States /\ Sound(s, hidden, reduced) /\ Steady(s)
    BY DEF MotionInv, MotionTypes, Sound
  <2>2. canvas'[c] = IF s.on THEN After(s) ELSE s
    BY <1>1
  <2> HIDE DEF s
  <2>3. CASE ~ s.on
    BY <2>1, <2>2, <2>3, <1>1, UnmountedSound DEF Sound
  <2>4. CASE s.on /\ hidden'
    <3> DEFINE r == StopLoop(s)
    <3>1. /\ r \in States /\ r.on = s.on /\ r.visible = s.visible /\ r.running = FALSE
          /\ r.frames = 0
      BY <2>1, Stopped
    <3>2. Sound(r, hidden', reduced')
      BY <3>1, <2>4 DEF Sound, Steady
    <3>3. QED
      BY <2>2, <2>4, <3>1, <3>2
  <2>5. CASE s.on /\ ~ hidden' /\ s.visible
    <3>1. StartLoop(s, reduced) \in States /\ Sound(StartLoop(s, reduced), hidden', reduced')
      BY <1>1, <2>1, <2>5, Started DEF Sound
    <3>2. QED
      BY <2>2, <2>5, <3>1
  <2>6. CASE s.on /\ ~ hidden' /\ ~ s.visible
    <3>1. Sound(s, hidden', reduced')
      BY <1>1, <2>1, <2>6 DEF Sound
    <3>2. QED
      BY <2>1, <2>2, <2>6, <3>1
  <2>7. QED
    BY <2>1, <2>3, <2>4, <2>5, <2>6, <1>1 DEF States
<1>3. canvas' \in [Canvases -> States]
  <2>1. canvas' = [c \in Canvases |-> canvas'[c]]
    BY <1>1
  <2>2. QED
    BY <1>2, <2>1
<1>4. QED
  BY <1>1, <1>2, <1>3 DEF MotionInv, MotionTypes

\* The preference changes, or the page is hidden.
LEMMA PreferSound == ASSUME MotionInv, Prefer PROVE MotionInv'
<1>1. /\ reduced' = ~ reduced /\ hidden' = hidden /\ canvas' = canvas /\ box' = box /\ inView' = inView
      /\ \A c \in Canvases : canvas[c].on => canvas[c].told = reduced
  BY DEF Prefer, Mounted
<1>2. ASSUME NEW c \in Canvases PROVE Sound(canvas[c], hidden, reduced')
  <2>1. canvas[c] \in States /\ Sound(canvas[c], hidden, reduced) /\ reduced \in BOOLEAN
    BY DEF MotionInv, MotionTypes
  <2>2. CASE ~ canvas[c].on
    BY <2>1, <2>2, UnmountedSound DEF Sound
  <2>3. CASE canvas[c].on
    BY <1>1, <2>1, <2>3 DEF Sound
  <2>4. QED
    BY <2>1, <2>2, <2>3 DEF States
<1>3. QED
  BY <1>1, <1>2 DEF MotionInv, MotionTypes

\* A canvas has one frame requested while its loop runs and none otherwise, runs where it is
\* seen, and nothing outlives it (FooterMatrix.tsx:151-257), for any number of canvases.
THEOREM MotionIsHonest == MotionSpec => []MotionHonest
<1>1. MotionInit => MotionInv
  BY UnmountedSound DEF MotionInit, MotionInv, MotionTypes
<1>2. MotionInv /\ [MotionNext]_motionVars => MotionInv'
  <2> SUFFICES ASSUME MotionInv, [MotionNext]_motionVars PROVE MotionInv'
    OBVIOUS
  <2>1. ASSUME NEW c \in Canvases, Scroll(c) PROVE MotionInv'
    BY <2>1 DEF Scroll, MotionInv, MotionTypes
  <2>2. CASE UNCHANGED motionVars
    BY <2>2 DEF motionVars, MotionInv, MotionTypes
  <2>3. QED
    BY <2>1, <2>2, MountSound, UnmountSound, LayoutSound, ResizeSound, ObserveSound, ReportSound,
       FrameSound, LookUpSound, SwitchSound, PreferSound DEF MotionNext
<1>3. MotionInv => MotionHonest
  BY DEF MotionInv, MotionTypes, MotionHonest, OneLoop, NothingLeft, RunsSeen, MovesSeen, Mounted,
         Sound, Steady, States
<1>4. QED
  BY <1>1, <1>2, <1>3, PTL DEF MotionSpec

-----------------------------------------------------------------------------
(* Gallery.                                                                *)

\* A first part of a list.
LEMMA FirstIs ==
  ASSUME NEW T, NEW s \in Seq(T), NEW n \in Nat
  PROVE  /\ First(s, n) \in Seq(T)
         /\ Len(First(s, n)) = IF n <= Len(s) THEN n ELSE Len(s)
         /\ \A i \in 1..Len(First(s, n)) : First(s, n)[i] = s[i]
         /\ Len(s) <= n => First(s, n) = s
<1> DEFINE m == Min({n, Len(s)})
<1>1. m = IF n <= Len(s) THEN n ELSE Len(s)
  <2>1. {n, Len(s)} \in SUBSET Nat
    OBVIOUS
  <2>2. m \in {n, Len(s)} /\ m <= n /\ m <= Len(s)
    BY <2>1, MinIs
  <2> HIDE DEF m
  <2>3. QED
    BY <2>2
<1> HIDE DEF m
<1>2. First(s, n) = SubSeq(s, 1, m)
  BY DEF First, m
<1>3. m \in Nat /\ m <= Len(s)
  BY <1>1
<1>4. SubSeq(s, 1, m) \in Seq(T) /\ Len(SubSeq(s, 1, m)) = m
      /\ \A i \in 1..m : SubSeq(s, 1, m)[i] = s[i]
  BY <1>3, SMTT(30)
<1>5. m = Len(s) => SubSeq(s, 1, m) = s
  BY <1>3, <1>4, SMTT(30)
<1>6. QED
  BY <1>1, <1>2, <1>4, <1>5

\* The merge of pages: all that was shown, then what is new, each once.
LEMMA MergeIs ==
  ASSUME NEW T, NEW prev \in Seq(T), NEW next \in Seq(T)
  PROVE  /\ MergeUnique(prev, next) \in Seq(T)
         /\ Range(MergeUnique(prev, next)) = Range(prev) \cup Range(next)
         /\ Len(MergeUnique(prev, next)) <= Len(prev) + Len(next)
         /\ Once(prev) => Once(MergeUnique(prev, next))
<1> DEFINE kept == {i \in DOMAIN next :
                      next[i] \notin Range(prev) /\ \A j \in 1 .. i - 1 : next[j] # next[i]}
           fresh == Picked(next, kept)
           m == Len(prev)
<1>1. DOMAIN next = 1..Len(next) /\ Len(next) \in Nat /\ kept \in SUBSET (1..Len(next))
  OBVIOUS
<1>2. \A i, j \in kept : next[i] = next[j] => i = j
  <2> SUFFICES ASSUME NEW i \in kept, NEW j \in kept, next[i] = next[j], i # j PROVE FALSE
    OBVIOUS
  <2>1. i \in 1..Len(next) /\ j \in 1..Len(next)
    BY <1>1
  <2>2. i \in 1..(j - 1) \/ j \in 1..(i - 1)
    BY <2>1
  <2>3. QED
    BY <2>2
<1>3. /\ fresh \in Seq(T) /\ Range(fresh) = {next[i] : i \in kept} /\ Len(fresh) <= Len(next)
      /\ Once(fresh)
  <2> HIDE DEF kept
  <2>1. /\ Picked(next, kept) \in Seq(T) /\ Range(Picked(next, kept)) = {next[i] : i \in kept}
        /\ Len(Picked(next, kept)) <= Len(next)
        /\ (\A i, j \in kept : next[i] = next[j] => i = j) => Once(Picked(next, kept))
    BY <1>1, FilterRange
  <2>2. QED
    BY <1>2, <2>1
<1>4. \A v \in Range(next) : v \in Range(prev) \/ \E i \in kept : next[i] = v
  <2> SUFFICES ASSUME NEW v \in Range(next), v \notin Range(prev) PROVE \E i \in kept : next[i] = v
    OBVIOUS
  <2> DEFINE at == {i \in 1..Len(next) : next[i] = v}
             i == Min(at)
  <2>1. at \in SUBSET Nat /\ at # {}
    BY <1>1 DEF Range
  <2>2. i \in at /\ \A j \in at : i <= j
    BY <2>1, MinIs
  <2> HIDE DEF i
  <2>3. \A j \in 1..(i - 1) : next[j] # next[i]
    <3> SUFFICES ASSUME NEW j \in 1..(i - 1), next[j] = next[i] PROVE FALSE
      OBVIOUS
    <3>1. i \in 1..Len(next) /\ j \in 1..Len(next) /\ j < i
      BY <1>1, <2>2
    <3>2. QED
      BY <2>2, <3>1
  <2>4. QED
    BY <1>1, <2>2, <2>3
<1>5. MergeUnique(prev, next) = prev \o fresh
  BY DEF MergeUnique
<1>6. Range(fresh) \subseteq Range(next) /\ Range(fresh) \cap Range(prev) = {}
  BY <1>1, <1>3 DEF Range
<1>7. Range(prev) \cup Range(next) = Range(prev) \cup Range(fresh)
  BY <1>3, <1>4, <1>6
<1> HIDE DEF kept, fresh
<1>8. /\ prev \o fresh \in Seq(T) /\ Range(prev \o fresh) = Range(prev) \cup Range(fresh)
      /\ Len(prev \o fresh) = m + Len(fresh)
  <2>1. Len(prev \o fresh) = m + Len(fresh)
    BY <1>3
  <2>2. QED
    BY <1>3, <2>1, RangeOfBoth
<1>9. ASSUME Once(prev) PROVE Once(prev \o fresh)
  <2> DEFINE b == prev \o fresh
             n == Len(fresh)
  <2>1. m \in Nat /\ n \in Nat /\ DOMAIN b = 1..(m + n) /\ DOMAIN prev = 1..m /\ DOMAIN fresh = 1..n
    BY <1>3
  <2>2. /\ \A i \in 1..(m + n) : i <= m => i \in 1..m /\ b[i] = prev[i]
        /\ \A i \in 1..(m + n) : i > m => i - m \in 1..n /\ b[i] = fresh[i - m]
    BY <1>3
  <2> HIDE DEF b, m, n
  <2> SUFFICES ASSUME NEW i \in 1..(m + n), NEW j \in 1..(m + n), b[i] = b[j] PROVE i = j
    BY <2>1 DEF Once, b
  <2>3. CASE i <= m /\ j <= m
    BY <1>9, <2>1, <2>2, <2>3 DEF Once
  <2>4. CASE i > m /\ j > m
    <3>1. i - m = j - m
      BY <1>3, <2>1, <2>2, <2>4 DEF Once
    <3>2. QED
      BY <2>1, <3>1
  <2>5. CASE i <= m /\ j > m
    <3>1. b[i] \in Range(prev) /\ b[j] \in Range(fresh)
      BY <2>1, <2>2, <2>5 DEF Range
    <3>2. QED
      BY <1>6, <3>1
  <2>6. CASE i > m /\ j <= m
    <3>1. b[j] \in Range(prev) /\ b[i] \in Range(fresh)
      BY <2>1, <2>2, <2>6 DEF Range
    <3>2. QED
      BY <1>6, <3>1
  <2>7. QED
    BY <2>1, <2>3, <2>4, <2>5, <2>6
<1>10. m \in Nat /\ Len(fresh) \in Nat
  BY <1>3
<1>11. QED
  BY <1>3, <1>5, <1>7, <1>8, <1>9, <1>10

WorldOK == nfts \in SUBSET Objects /\ place \in [Objects -> Places]

\* The objects of the wallet behind c, and those of them that are listed up to d.
Behind(c) == {o \in Objects : place[o] = "wallet" /\ o > c}
InWallet(c, d) == {o \in nfts \cap Behind(c) : d = 0 \/ o <= d}

\* The NFTs among what a call returns.
LEMMA NftsAre ==
  ASSUME WorldOK, NEW s \in Seq(Objects)
  PROVE  Nfts(s) \in Seq(nfts) /\ Range(Nfts(s)) = Range(s) \cap nfts
<1> DEFINE kept == {i \in DOMAIN s : s[i] \in nfts}
<1>1. DOMAIN s = 1..Len(s) /\ kept \in SUBSET (1..Len(s))
  OBVIOUS
<1>2. Picked(s, kept) \in Seq(Objects) /\ Range(Picked(s, kept)) = {s[i] : i \in kept}
  BY <1>1, FilterRange
<1>3. {s[i] : i \in kept} = Range(s) \cap nfts
  BY <1>1 DEF Range
<1>4. Range(Picked(s, kept)) \subseteq nfts
  BY <1>2, <1>3
<1> HIDE DEF kept
<1>5. Picked(s, kept) \in Seq(nfts)
  BY <1>2, <1>4, RangeType
<1>6. Nfts(s) = Picked(s, kept)
  BY DEF Nfts, kept
<1>7. QED
  BY <1>2, <1>3, <1>5, <1>6

\* The objects a node lists, and the list of them.
LEMMA ListingIs ==
  /\ Objects \subseteq Nat \ {0} /\ Listing \in Seq(Objects) /\ Len(Listing) = Cardinality(Objects)
  /\ \A o \in Objects : Listing[o] = o
<1>1. PICK n \in Nat : Objects = 1..n /\ n = Cardinality(Objects)
  BY ObjectAssumption, FS_CardinalityType
<1>2. Listing = [o \in 1..n |-> o]
  BY <1>1 DEF Listing
<1>3. Listing \in Seq(1..n) /\ Len(Listing) = n
  BY <1>2
<1>4. QED
  BY <1>1, <1>2, <1>3

\* The list behind a cursor has every object of the wallet there, in the
\* node's order.
LEMMA AfterIs ==
  ASSUME WorldOK, NEW c \in Nat
  PROVE  LET s == Picked(Listing, Behind(c))
         IN s \in Seq(Objects) /\ Range(s) = Behind(c) /\ Rising(s)
<1>1. Behind(c) \in SUBSET (1..Len(Listing)) /\ Listing \in Seq(Objects)
  BY ListingIs, ObjectAssumption DEF Behind
<1>2. \A o \in Behind(c) : Listing[o] = o
  BY ListingIs DEF Behind
<1>3. {Listing[o] : o \in Behind(c)} = Behind(c)
  BY <1>2
<1>4. \A i, j \in Behind(c) : i < j => Listing[i] < Listing[j]
  BY <1>2
<1>5. QED
  BY <1>1, <1>3, <1>4, FilterRange

\* The page behind a cursor: everything up to its last object, if there is more.
LEMMA PageIs ==
  ASSUME WorldOK, NEW c \in Nat
  PROVE  LET s == Picked(Listing, Behind(c))
             g == First(s, PageSize)
             more == Len(s) > PageSize
             last == g[Len(g)]
         IN /\ g \in Seq(Objects)
            /\ more => last \in Behind(c)
            /\ Range(g) = {o \in Behind(c) : more => o <= last}
<1> DEFINE s == Picked(Listing, Behind(c))
           g == First(s, PageSize)
           more == Len(s) > PageSize
           n == Len(g)
<1>1. s \in Seq(Objects) /\ Range(s) = Behind(c) /\ Rising(s)
  BY AfterIs
<1> HIDE DEF s
<1>2. PageSize \in Nat \ {0}
  BY GalleryBounds
<1>3. /\ g \in Seq(Objects) /\ n = (IF PageSize <= Len(s) THEN PageSize ELSE Len(s))
      /\ \A i \in 1..n : g[i] = s[i]
      /\ Len(s) <= PageSize => g = s
  BY <1>1, <1>2, FirstIs
<1>4. Len(s) \in Nat /\ DOMAIN s = 1..Len(s) /\ DOMAIN g = 1..n
  BY <1>1, <1>3
<1>5. CASE ~ more
  <2>1. g = s
    BY <1>2, <1>3, <1>4, <1>5
  <2>2. QED
    BY <1>1, <1>3, <1>5, <2>1 DEF s
<1>6. CASE more
  <2> HIDE DEF g, n
  <2>1. n = PageSize /\ n \in 1..Len(s) /\ n < Len(s)
    <3>1. Len(s) \in Nat /\ PageSize < Len(s)
      BY <1>2, <1>4, <1>6
    <3>2. n = PageSize
      BY <1>2, <1>3, <3>1
    <3>3. QED
      BY <1>2, <3>1, <3>2
  <2>2. g[n] = s[n] /\ s[n] \in Behind(c)
    <3>1. g[n] = s[n]
      BY <1>2, <1>3, <2>1
    <3>2. s[n] \in Range(s)
      BY <1>4, <2>1 DEF Range
    <3>3. QED
      BY <1>1, <3>1, <3>2
  <2>3. \A i \in 1..Len(s) : s[i] \in Behind(c) /\ s[i] \in Int
    <3>1. \A i \in 1..Len(s) : s[i] \in Behind(c)
      BY <1>1, <1>4 DEF Range
    <3>2. Behind(c) \subseteq Int
      <4>1. Objects \subseteq Int
        BY ListingIs
      <4>2. QED
        BY <4>1 DEF Behind
    <3>3. QED
      BY <3>1, <3>2
  <2>4. ASSUME NEW i \in 1..n PROVE g[i] \in Behind(c) /\ g[i] <= g[n]
    <3>1. i \in 1..Len(s) /\ (i = n \/ i < n)
      BY <2>1
    <3>2. g[i] = s[i] /\ s[i] <= s[n]
      BY <1>1, <1>3, <2>1, <2>3, <3>1 DEF Rising
    <3>3. QED
      BY <2>2, <2>3, <3>1, <3>2
  <2>5. ASSUME NEW o \in Behind(c), o <= g[n] PROVE \E i \in 1..n : g[i] = o
    <3>1. PICK i \in 1..Len(s) : s[i] = o
      BY <1>1, <1>4 DEF Range
    <3>2. ~ (n < i)
      BY <1>1, <2>1, <2>2, <2>3, <2>5, <3>1 DEF Rising
    <3>3. i \in 1..n
      BY <2>1, <3>1, <3>2
    <3>4. QED
      BY <1>3, <3>1, <3>3
  <2>6. Range(g) = {o \in Behind(c) : o <= g[n]}
    BY <1>4, <2>4, <2>5 DEF Range
  <2>7. QED
    BY <1>3, <1>6, <2>2, <2>6 DEF s, g, n
<1>7. QED
  BY <1>5, <1>6

\* What the loop over the wallet's pages has after p calls.
Partial == [items : Seq(nfts), next : Nat, more : BOOLEAN]

\* If no call failed: everything between the two cursors.
Through(from, p, r) ==
  /\ r.more => /\ r.next >= from
               /\ Range(r.items) = {o \in nfts \cap Behind(from) : o <= r.next}
               /\ p > 0 => r.next # 0
  /\ p > 0 => Range(r.items) = InWallet(from, r.next)
  /\ p = 0 => r.more /\ r.items = <<>>

\* One call more.
Called(r) ==
  LET s == Picked(Listing, Behind(r.next))
      g == First(s, PageSize)
      more == Len(s) > PageSize
  IN [items |-> r.items \o Nfts(g), next |-> IF more THEN g[Len(g)] ELSE 0, more |-> more]

CallStep(p, failing, r) ==
  IF ~ r.more \/ p = failing \/ Len(r.items) >= Limit THEN [r EXCEPT !.more = FALSE] ELSE Called(r)

LEMMA CalledIs ==
  ASSUME WorldOK, NEW r \in Partial
  PROVE  /\ Called(r) \in Partial
         /\ Range(Called(r).items) =
              Range(r.items) \cup {o \in nfts \cap Behind(r.next) : Called(r).more => o <= Called(r).next}
         /\ Called(r).more => Called(r).next > r.next
         /\ ~ Called(r).more => Called(r).next = 0
<1> DEFINE s == Picked(Listing, Behind(r.next))
           g == First(s, PageSize)
           more == Len(s) > PageSize
           last == g[Len(g)]
           next == IF more THEN last ELSE 0
<1>1. r.items \in Seq(nfts) /\ r.next \in Nat
  BY DEF Partial
<1>2. /\ g \in Seq(Objects) /\ (more => last \in Behind(r.next))
      /\ Range(g) = {o \in Behind(r.next) : more => o <= last}
  BY <1>1, PageIs
<1> HIDE DEF g, more, last
<1>3. Nfts(g) \in Seq(nfts) /\ Range(Nfts(g)) = Range(g) \cap nfts
  BY <1>2, NftsAre
<1>4. r.items \o Nfts(g) \in Seq(nfts) /\ Range(r.items \o Nfts(g)) = Range(r.items) \cup (Range(g) \cap nfts)
  BY <1>1, <1>3, RangeOfBoth
<1>5. more => last \in Nat /\ last > r.next
  <2>1. Objects \subseteq Nat
    BY ListingIs
  <2>2. QED
    BY <1>2, <2>1 DEF Behind
<1>6. next \in Nat /\ (more => next = last) /\ (~ more => next = 0)
  BY <1>5
<1>7. more \in BOOLEAN
  BY DEF more
<1> HIDE DEF next
<1>8. Called(r) = [items |-> r.items \o Nfts(g), next |-> next, more |-> more]
  BY DEF Called, g, more, next, last
<1>9. Range(g) \cap nfts = {o \in nfts \cap Behind(r.next) : more => o <= next}
  BY <1>2, <1>6
<1> DEFINE c == Called(r)
<1>10. c.items = r.items \o Nfts(g) /\ c.next = next /\ c.more = more
  BY <1>8
<1>11. c \in Partial
  BY <1>4, <1>6, <1>7, <1>8 DEF Partial
<1> HIDE DEF c
<1>12. Range(c.items) = Range(r.items) \cup {o \in nfts \cap Behind(r.next) : c.more => o <= c.next}
  BY <1>4, <1>9, <1>10
<1>13. (c.more => c.next > r.next) /\ (~ c.more => c.next = 0)
  BY <1>5, <1>6, <1>10
<1>14. QED
  BY <1>11, <1>12, <1>13 DEF c

LEMMA CallStepIs ==
  ASSUME WorldOK, NEW r \in Partial, NEW p \in Nat \ {0}, NEW failing, NEW from \in Nat
  PROVE  /\ CallStep(p, failing, r) \in Partial
         /\ p # failing /\ Through(from, p - 1, r) => Through(from, p, CallStep(p, failing, r))
<1>1. CASE ~ r.more \/ p = failing \/ Len(r.items) >= Limit
  <2>1. CallStep(p, failing, r) = [r EXCEPT !.more = FALSE]
    BY <1>1 DEF CallStep
  <2> DEFINE c == [r EXCEPT !.more = FALSE]
  <2>2. c \in Partial /\ c.items = r.items /\ c.next = r.next /\ c.more = FALSE
    BY DEF Partial
  <2> HIDE DEF c
  <2>3. ASSUME p # failing, Through(from, p - 1, r) PROVE Through(from, p, c)
    <3>1. p - 1 > 0
      <4> SUFFICES ASSUME p = 1 PROVE FALSE
        OBVIOUS
      <4>1. r.more /\ r.items = <<>>
        BY <2>3 DEF Through
      <4>2. Len(r.items) = 0 /\ Limit \in Nat \ {0}
        BY <4>1, GalleryBounds
      <4>3. QED
        BY <1>1, <2>3, <4>1, <4>2
    <3>2. Range(r.items) = InWallet(from, r.next)
      BY <2>3, <3>1 DEF Through
    <3>3. QED
      BY <2>2, <3>2 DEF Through
  <2>4. QED
    BY <2>1, <2>2, <2>3 DEF c
<1>2. CASE ~ (~ r.more \/ p = failing \/ Len(r.items) >= Limit)
  <2> DEFINE c == Called(r)
  <2>1. CallStep(p, failing, r) = c
    BY <1>2 DEF CallStep
  <2>2. /\ c \in Partial
        /\ Range(c.items) = Range(r.items) \cup {o \in nfts \cap Behind(r.next) : c.more => o <= c.next}
        /\ c.more => c.next > r.next
        /\ ~ c.more => c.next = 0
    BY CalledIs
  <2> HIDE DEF c
  <2>3. r.more /\ r.next \in Nat /\ c.next \in Nat /\ c.more \in BOOLEAN
    BY <1>2, <2>2 DEF Partial
  <2>4. ASSUME Through(from, p - 1, r) PROVE Through(from, p, c)
    <3>1. r.next >= from /\ Range(r.items) = {o \in nfts \cap Behind(from) : o <= r.next}
      BY <2>3, <2>4 DEF Through
    <3> DEFINE new == {o \in nfts \cap Behind(r.next) : c.more => o <= c.next}
    <3>2. Range(c.items) = {o \in nfts \cap Behind(from) : c.more => o <= c.next}
      <4>1. \A o \in nfts \cap Behind(from) : o \in Nat
        BY ListingIs DEF Behind
      <4>2. Behind(r.next) = {o \in Behind(from) : o > r.next}
        <5>1. \A o \in Objects : o > r.next => o > from
          <6> SUFFICES ASSUME NEW o \in Objects, o > r.next PROVE o > from
            OBVIOUS
          <6>1. o \in Nat
            BY ListingIs
          <6>2. QED
            BY <2>3, <3>1, <6>1
        <5>2. QED
          BY <5>1 DEF Behind
      <4>3. \A o \in nfts \cap Behind(from) : o <= r.next \/ o > r.next
        BY <2>3, <4>1
      <4>4. \A o \in nfts \cap Behind(from) : o <= r.next => (c.more => o <= c.next)
        BY <2>2, <2>3, <4>1
      <4>5. QED
        BY <2>2, <3>1, <4>2, <4>3, <4>4
    <3>3. c.more => c.next # 0 /\ c.next >= from
      BY <2>2, <2>3, <3>1
    <3>4. Range(c.items) = InWallet(from, c.next)
      BY <2>2, <3>2, <3>3 DEF InWallet
    <3>5. QED
      BY <3>2, <3>3, <3>4 DEF Through
  <2>5. QED
    BY <2>1, <2>2, <2>4
<1>3. QED
  BY <1>1, <1>2

\* What the loop returns: NFTs of the wallet, and all of them between the cursor
\* it was given and the one it gives, unless a call failed.
LEMMA PagesAre ==
  ASSUME WorldOK, NEW from \in Nat, NEW failing \in Nat
  PROVE  /\ Pages(from, failing) \in [items : Seq(nfts), next : Nat]
         /\ failing > MaxPages =>
              Range(Pages(from, failing).items) = InWallet(from, Pages(from, failing).next)
<1> DEFINE n == MaxPages
           T == Partial
           base == [items |-> <<>>, next |-> from, more |-> TRUE]
           step == [p \in 1..n |-> [r \in T |-> CallStep(p, failing, r)]]
           F(h) == [p \in 0..n |-> IF p = 0 THEN base ELSE CallStep(p, failing, h[p - 1])]
           Def(h) == h = F(h)
<1>0. n \in Nat \ {0}
  BY GalleryBounds
<1>1. base \in T /\ Through(from, 0, base)
  <2>1. \A o \in nfts \cap Behind(from) : ~ (o <= from)
    <3> SUFFICES ASSUME NEW o \in Behind(from) PROVE ~ (o <= from)
      OBVIOUS
    <3>1. o \in Nat /\ o > from
      BY ListingIs DEF Behind
    <3>2. QED
      BY <3>1
  <2>2. Range(<<>>) = {}
    BY DEF Range
  <2>3. QED
    BY <2>1, <2>2 DEF Through, Partial
<1>2. step \in [1..n -> [T -> T]]
  <2>1. ASSUME NEW p \in 1..n, NEW r \in T PROVE CallStep(p, failing, r) \in T
    <3>1. p \in Nat \ {0} /\ r \in Partial
      BY <1>0
    <3>2. QED
      BY <3>1, CallStepIs
  <2>2. QED
    BY <2>1
<1>3. \E h : Def(h)
  <2> HIDE DEF T, base, n
  <2>1. PICK g : Recursive(g, n, T, base, step)
    <3> HIDE DEF step
    <3>1. QED
      BY <1>0, <1>1, <1>2, Recursion
  <2>2. g \in [0..n -> T] /\ g[0] = base /\ \A p \in 1..n : g[p] = step[p][g[p - 1]]
    <3> HIDE DEF step
    <3>1. QED
      BY <2>1 DEF Recursive
  <2>3. ASSUME NEW p \in 1..n PROVE g[p] = CallStep(p, failing, g[p - 1])
    <3>1. p - 1 \in 0..n
      BY <1>0
    <3>2. g[p - 1] \in T
      BY <2>2, <3>1
    <3>3. QED
      BY <2>2, <3>2
  <2>4. \A p \in 0..n : g[p] = F(g)[p]
    BY <1>0, <2>2, <2>3
  <2>5. QED
    BY <2>2, <2>4
<1> DEFINE f == CHOOSE h : Def(h)
<1>4. Def(f)
  BY <1>3
<1>5. Pages(from, failing) = [items |-> f[n].items, next |-> f[n].next]
  BY DEF Pages, CallStep, Called, Behind
<1> HIDE DEF f
<1>6. f[0] = base /\ \A p \in 1..n : f[p] = CallStep(p, failing, f[p - 1])
  <2> HIDE DEF n, base
  <2>1. QED
    BY <1>0, <1>4
<1> DEFINE P == {p \in Nat : p \in 0..n => f[p] \in T /\ (failing > n => Through(from, p, f[p]))}
<1>7. 0 \in P
  BY <1>1, <1>6
<1>8. ASSUME NEW p \in Nat, p \in P PROVE p + 1 \in P
  <2> SUFFICES ASSUME p + 1 \in 1..n
               PROVE  f[p + 1] \in T /\ (failing > n => Through(from, p + 1, f[p + 1]))
    OBVIOUS
  <2>1. p \in 0..n /\ (p + 1) - 1 = p
    BY <1>0
  <2>2. f[p] \in T /\ (failing > n => Through(from, p, f[p])) /\ f[p + 1] = CallStep(p + 1, failing, f[p])
    BY <1>6, <1>8, <2>1
  <2>3. p + 1 \in Nat \ {0} /\ (failing > n => p + 1 # failing)
    BY <1>0
  <2> DEFINE r == f[p]
             q == p + 1
  <2> HIDE DEF r, q, T, n
  <2>4. r \in Partial /\ q \in Nat \ {0}
    BY <2>2, <2>3 DEF r, q, T
  <2>5. /\ CallStep(q, failing, r) \in Partial
        /\ q # failing /\ Through(from, q - 1, r) => Through(from, q, CallStep(q, failing, r))
    BY <2>4, CallStepIs
  <2>6. QED
    BY <2>1, <2>2, <2>3, <2>5 DEF r, q, T
<1>9. n \in P
  <2> HIDE DEF P
  <2>1. Nat \subseteq P
    BY <1>7, <1>8, NatInd
  <2>2. QED
    BY <1>0, <2>1
<1>10. f[n] \in Partial /\ (failing > n => Through(from, n, f[n]))
  BY <1>0, <1>9
<1> DEFINE e == f[n]
<1> HIDE DEF e, P
<1>11. /\ e.items \in Seq(nfts) /\ e.next \in Nat
       /\ failing > n => Range(e.items) = InWallet(from, e.next)
  <2>1. n > 0
    BY <1>0
  <2> HIDE DEF n
  <2>2. QED
    BY <1>10, <2>1 DEF e, Partial, Through
<1>12. Pages(from, failing) = [items |-> e.items, next |-> e.next]
  BY <1>5 DEF e
<1>13. QED
  BY <1>11, <1>12

InKiosks == {o \in nfts : place[o] # "wallet"}

\* The items of the kiosks: all of them, if there are no more fields than are
\* looked at and no call failed.
LEMMA KioskItemsAre ==
  ASSUME WorldOK, NEW lost
  PROVE  /\ KioskItems(lost) \in Seq(nfts) /\ Len(KioskFields) \in Nat
         /\ Len(KioskFields) <= MaxFields => Range(KioskItems({})) = InKiosks
<1> DEFINE n == Cardinality(Objects)
           s == [i \in 1 .. 2 * n |-> (i + 1) \div 2]
           kept == {i \in 1 .. 2 * n :
                      LET p == place[(i + 1) \div 2] IN p = "listed" \/ (p = "kiosk" /\ i % 2 = 1)}
<1>1. n \in Nat /\ Objects = 1..n
  BY ObjectAssumption, FS_CardinalityType
<1> HIDE DEF n
<1>2. \A i \in 1 .. 2 * n : (i + 1) \div 2 \in 1..n
  BY <1>1
<1>3. s \in Seq(Objects) /\ Len(s) = 2 * n
  <2>1. s \in [1 .. 2 * n -> Objects] /\ 2 * n \in Nat
    BY <1>1, <1>2
  <2> DEFINE k == 2 * n
  <2> HIDE DEF s, k
  <2>2. s \in [1..k -> Objects] /\ k \in Nat
    BY <2>1 DEF k
  <2>3. s \in Seq(Objects) /\ Len(s) = k
    BY <2>2
  <2>4. QED
    BY <2>3 DEF k
<1>4. /\ KioskFields \in Seq(Objects)
      /\ Range(KioskFields) = {s[i] : i \in kept}
  <2>1. kept \in SUBSET (1..Len(s))
    BY <1>3
  <2>2. KioskFields = Picked(s, kept)
    BY DEF KioskFields, n
  <2> HIDE DEF s, kept
  <2>3. QED
    BY <1>3, <2>1, <2>2, FilterRange
<1>5. Range(KioskFields) = {o \in Objects : place[o] # "wallet"}
  <2>1. ASSUME NEW i \in kept PROVE s[i] \in {o \in Objects : place[o] # "wallet"}
    BY <1>1, <1>2, <2>1
  <2>2. ASSUME NEW o \in Objects, place[o] # "wallet" PROVE \E i \in kept : s[i] = o
    <3> DEFINE i == 2 * o - 1
    <3>1. i \in 1 .. 2 * n /\ (i + 1) \div 2 = o /\ i % 2 = 1
      BY <1>1
    <3>2. place[o] \in {"listed", "kiosk"}
      BY <2>2 DEF WorldOK, Places
    <3>3. i \in kept /\ s[i] = o
      BY <3>1, <3>2
    <3>4. QED
      BY <3>3
  <2>3. QED
    BY <1>4, <2>1, <2>2
<1> DEFINE fields == First(KioskFields, MaxFields)
           found == Nfts(fields)
           open(l) == {i \in DOMAIN found : found[i] \notin l}
<1>6. fields \in Seq(Objects) /\ (Len(KioskFields) <= MaxFields => fields = KioskFields)
  BY <1>4, FirstIs, GalleryBounds
<1> HIDE DEF fields
<1>7. found \in Seq(nfts) /\ Range(found) = Range(fields) \cap nfts
  BY <1>6, NftsAre
<1> HIDE DEF found
<1>8. ASSUME NEW l
      PROVE  Picked(found, open(l)) \in Seq(nfts) /\ Range(Picked(found, open(l))) = {found[i] : i \in open(l)}
  <2>1. open(l) \in SUBSET (1..Len(found))
    BY <1>7
  <2>2. QED
    BY <1>7, <2>1, FilterRange
<1>9. \A l : KioskItems(l) = Picked(found, open(l))
  BY DEF KioskItems, found, fields
<1>10. {found[i] : i \in open({})} = Range(found)
  BY DEF Range
<1>11. Range(KioskItems({})) = Range(fields) \cap nfts
  <2> HIDE DEF open
  <2>1. Range(Picked(found, open({}))) = {found[i] : i \in open({})}
    BY <1>8
  <2>2. KioskItems({}) = Picked(found, open({}))
    BY <1>9
  <2>3. QED
    BY <1>7, <1>10, <2>1, <2>2
<1>12. KioskItems(lost) \in Seq(nfts)
  BY <1>8, <1>9
<1>13. {o \in Objects : place[o] # "wallet"} \cap nfts = InKiosks
  BY DEF InKiosks, WorldOK
<1>14. Len(KioskFields) \in Nat
  BY <1>4
<1>15. QED
  BY <1>5, <1>6, <1>11, <1>12, <1>13, <1>14

GalleryTypes ==
  /\ nfts \in SUBSET Objects /\ place \in [Objects -> Places]
  /\ cursor \in Nat /\ nextCursor \in Nat
  /\ phase \in {"wallet", "kiosks", "shown", "error"}
  /\ read \in [items : Seq(nfts), next : Nat]
  /\ items \in Seq(nfts)
  /\ disturbed \in BOOLEAN /\ cut \in BOOLEAN

Shown(o) == o \in Range(items)

\* If nothing was disturbed or cut: what is listed up to the cursor is shown, and
\* up to the next one, and what was read is what lies between them.
NothingLost ==
  /\ phase # "error"
  /\ phase = "kiosks" => Range(read.items) = InWallet(cursor, read.next)
  /\ \A o \in nfts : o <= cursor => Shown(o) \/ place[o] # "wallet"
  /\ phase = "shown" =>
       /\ \A o \in InKiosks : Shown(o)
       /\ \A o \in nfts : nextCursor = 0 \/ o <= nextCursor => Shown(o)

GalleryInv == GalleryTypes /\ Once(items) /\ (~ disturbed /\ ~ cut => NothingLost)

LEMMA GalleryBegins == GalleryInit => GalleryInv
<1> SUFFICES ASSUME GalleryInit PROVE GalleryInv
  OBVIOUS
<1>1. Once(items) /\ GalleryTypes
  <2>1. <<>> \in Seq(nfts) /\ DOMAIN <<>> = {}
    OBVIOUS
  <2>2. Once(items) /\ items \in Seq(nfts) /\ read \in [items : Seq(nfts), next : Nat]
    BY <2>1 DEF GalleryInit, Once
  <2>3. place \in [Objects -> Places]
    BY DEF GalleryInit, Places
  <2>4. QED
    BY <2>2, <2>3 DEF GalleryInit, GalleryTypes
<1>2. \A o \in nfts : ~ (o <= 0)
  BY ListingIs DEF GalleryInit
<1>3. NothingLost
  BY <1>2 DEF GalleryInit, NothingLost
<1>4. QED
  BY <1>1, <1>3 DEF GalleryInv

LEMMA ReadWalletKeeps == GalleryInv /\ ReadWallet => GalleryInv'
<1> SUFFICES ASSUME GalleryInv, ReadWallet PROVE GalleryInv'
  OBVIOUS
<1>1. PICK failing \in 1 .. MaxPages + 1 :
        /\ read' = Pages(cursor, failing)
        /\ disturbed' = (disturbed \/ Pages(cursor, failing) # Pages(cursor, MaxPages + 1))
  BY DEF ReadWallet
<1>2. WorldOK /\ cursor \in Nat /\ failing \in Nat /\ MaxPages + 1 \in Nat /\ MaxPages + 1 > MaxPages
  BY GalleryBounds DEF GalleryInv, GalleryTypes, WorldOK
<1>3. /\ Pages(cursor, failing) \in [items : Seq(nfts), next : Nat]
      /\ Range(Pages(cursor, MaxPages + 1).items) = InWallet(cursor, Pages(cursor, MaxPages + 1).next)
  BY <1>2, PagesAre
<1>4. phase' = "kiosks" /\ UNCHANGED <<nfts, place, cursor, items, nextCursor, moves, cut>>
  BY DEF ReadWallet
<1>5. disturbed' \in BOOLEAN
  BY <1>1 DEF GalleryInv, GalleryTypes
<1>6. GalleryTypes' /\ Once(items)'
  BY <1>1, <1>3, <1>4, <1>5 DEF GalleryInv, GalleryTypes, Once
<1>7. ASSUME ~ disturbed', ~ cut' PROVE NothingLost'
  <2>1. ~ disturbed /\ ~ cut /\ read' = Pages(cursor, MaxPages + 1)
    BY <1>1, <1>4, <1>7
  <2>2. (Range(read.items) = InWallet(cursor, read.next))'
    BY <1>3, <1>4, <2>1 DEF InWallet, Behind
  <2>3. NothingLost
    BY <2>1 DEF GalleryInv
  <2>4. QED
    BY <1>4, <2>2, <2>3 DEF NothingLost, Shown
<1>8. QED
  BY <1>6, <1>7 DEF GalleryInv

LEMMA RespondKeeps == GalleryInv /\ Respond => GalleryInv'
<1> SUFFICES ASSUME GalleryInv, Respond PROVE GalleryInv'
  OBVIOUS
<1> DEFINE Found(lost) == First(KioskItems(lost), Limit) \o read.items
           Reply(lost) == First(MergeUnique(<<>>, Found(lost)), Limit)
<1>1. PICK lost :
        /\ items' = MergeUnique(items, Reply(lost))
        /\ cut' = (cut \/ Len(KioskFields) > MaxFields \/ Len(KioskItems({}) \o read.items) > Limit)
        /\ disturbed' = (disturbed \/ KioskItems(lost) # KioskItems({}))
  BY DEF Respond
<1>2. /\ nextCursor' = read.next /\ phase' = "shown" /\ phase = "kiosks"
      /\ UNCHANGED <<nfts, place, cursor, read, moves>>
  BY DEF Respond
<1>3. /\ WorldOK /\ cursor \in Nat /\ items \in Seq(nfts) /\ Once(items)
      /\ read \in [items : Seq(nfts), next : Nat] /\ read.items \in Seq(nfts) /\ read.next \in Nat
  BY DEF GalleryInv, GalleryTypes, WorldOK
<1>4. Limit \in Nat /\ MaxFields \in Nat
  BY GalleryBounds
<1> DEFINE kiosk == KioskItems(lost)
           first == First(kiosk, Limit)
           found == first \o read.items
           merged == MergeUnique(<<>>, found)
           answer == First(merged, Limit)
<1>5. kiosk \in Seq(nfts) /\ (Len(KioskFields) <= MaxFields => Range(KioskItems({})) = InKiosks)
  BY <1>3, KioskItemsAre
<1> HIDE DEF kiosk
<1>6. first \in Seq(nfts) /\ (Len(kiosk) <= Limit => first = kiosk)
  BY <1>4, <1>5, FirstIs
<1> HIDE DEF first
<1>7. /\ found \in Seq(nfts) /\ Range(found) = Range(first) \cup Range(read.items)
      /\ Len(found) = Len(first) + Len(read.items)
  BY <1>3, <1>6, RangeOfBoth
<1> HIDE DEF found
<1>8. /\ merged \in Seq(nfts) /\ Range(merged) = Range(<<>>) \cup Range(found)
      /\ Len(merged) <= Len(<<>>) + Len(found)
  <2> DEFINE empty == <<>>
  <2>1. empty \in Seq(nfts)
    OBVIOUS
  <2> HIDE DEF empty
  <2>2. /\ MergeUnique(empty, found) \in Seq(nfts)
        /\ Range(MergeUnique(empty, found)) = Range(empty) \cup Range(found)
        /\ Len(MergeUnique(empty, found)) <= Len(empty) + Len(found)
    BY <1>7, <2>1, MergeIs
  <2>3. QED
    BY <2>2 DEF empty
<1>9. Range(<<>>) = {} /\ Len(<<>>) = 0 /\ Len(merged) \in Nat /\ Len(found) \in Nat
  <2> HIDE DEF merged
  <2>1. QED
    BY <1>7, <1>8 DEF Range
<1> HIDE DEF merged
<1>10. answer \in Seq(nfts) /\ (Len(merged) <= Limit => answer = merged)
  BY <1>4, <1>8, FirstIs
<1> HIDE DEF answer
<1>11. items' = MergeUnique(items, answer)
  BY <1>1 DEF answer, merged, found, first, kiosk
<1>12. items' \in Seq(nfts) /\ Range(items') = Range(items) \cup Range(answer) /\ Once(items')
  BY <1>3, <1>10, <1>11, MergeIs
<1>13. disturbed' \in BOOLEAN /\ cut' \in BOOLEAN
  BY <1>1 DEF GalleryInv, GalleryTypes
<1>14. GalleryTypes'
  BY <1>2, <1>12, <1>13 DEF GalleryInv, GalleryTypes
<1>15. ASSUME ~ disturbed', ~ cut' PROVE NothingLost'
  <2>1. /\ ~ disturbed /\ ~ cut /\ kiosk = KioskItems({})
        /\ ~ (Len(KioskFields) > MaxFields) /\ ~ (Len(KioskItems({}) \o read.items) > Limit)
    BY <1>1, <1>15 DEF kiosk
  <2>2. NothingLost
    BY <2>1 DEF GalleryInv
  <2>3. Len(kiosk) + Len(read.items) <= Limit /\ Len(kiosk) <= Limit
    <3>1. Len(kiosk \o read.items) = Len(kiosk) + Len(read.items) /\ Len(kiosk) \in Nat /\ Len(read.items) \in Nat
      BY <1>3, <1>5
    <3>2. QED
      BY <1>4, <2>1, <3>1
  <2>4. first = kiosk
    BY <1>6, <2>3
  <2>5. answer = merged
    BY <1>4, <1>7, <1>8, <1>9, <1>10, <2>3, <2>4
  <2>6. Len(KioskFields) \in Nat
    BY <1>3, KioskItemsAre
  <2>7. Range(kiosk) = InKiosks
    BY <1>4, <1>5, <2>1, <2>6
  <2>8. Range(items') = Range(items) \cup InKiosks \cup InWallet(cursor, read.next)
    <3>1. Range(read.items) = InWallet(cursor, read.next)
      BY <1>2, <2>2 DEF NothingLost
    <3>2. QED
      BY <1>7, <1>8, <1>9, <1>12, <2>4, <2>5, <2>7, <3>1
  <2>9. ASSUME NEW o \in nfts, o <= cursor PROVE o \in Range(items') \/ place[o] # "wallet"
    BY <2>2, <2>8, <2>9 DEF NothingLost, Shown
  <2>10. ASSUME NEW o \in nfts, read.next = 0 \/ o <= read.next PROVE o \in Range(items')
    <3>1. o \in Nat /\ o \in Objects
      BY <1>3, ListingIs DEF WorldOK
    <3>2. CASE place[o] # "wallet"
      BY <2>8, <3>2 DEF InKiosks
    <3>3. CASE place[o] = "wallet" /\ o <= cursor
      BY <2>2, <2>8, <3>3 DEF NothingLost, Shown
    <3>4. CASE place[o] = "wallet" /\ o > cursor
      BY <2>8, <2>10, <3>1, <3>4 DEF InWallet, Behind
    <3>5. QED
      BY <1>3, <3>1, <3>2, <3>3, <3>4
  <2>11. \A o \in InKiosks : o \in Range(items')
    BY <2>8
  <2>12. nfts' = nfts /\ place' = place /\ cursor' = cursor /\ InKiosks' = InKiosks
    BY <1>2 DEF InKiosks
  <2>13. QED
    BY <1>2, <2>9, <2>10, <2>11, <2>12 DEF NothingLost, Shown
<1>16. Once(items)'
  BY <1>12 DEF Once
<1>17. QED
  BY <1>14, <1>15, <1>16 DEF GalleryInv

\* What the gallery promises holds for any number of objects, whatever the
\* sizes of pages, answers and kiosks.
THEOREM GalleryIsHonest == GallerySpec => []GalleryHonest
<1>1. GalleryInv /\ [GalleryNext]_galleryVars => GalleryInv'
  <2> SUFFICES ASSUME GalleryInv, [GalleryNext]_galleryVars PROVE GalleryInv'
    OBVIOUS
  <2>1. CASE RequestFails
    BY <2>1 DEF RequestFails, GalleryInv, GalleryTypes, Once
  <2>2. CASE Refetch
    <3>1. GalleryTypes' /\ Once(items)'
      BY <2>2 DEF Refetch, GalleryInv, GalleryTypes, Once
    <3>2. ~ disturbed' /\ ~ cut' => NothingLost'
      BY <2>2 DEF Refetch, GalleryInv, NothingLost, Shown
    <3>3. QED
      BY <3>1, <3>2 DEF GalleryInv
  <2>3. CASE LoadMore
    <3>1. GalleryTypes' /\ Once(items)'
      BY <2>3 DEF LoadMore, GalleryInv, GalleryTypes, Once
    <3>2. ~ disturbed' /\ ~ cut' => NothingLost'
      BY <2>3 DEF LoadMore, GalleryInv, NothingLost, Shown
    <3>3. QED
      BY <3>1, <3>2 DEF GalleryInv
  <2>4. CASE Move
    <3>1. place' \in [Objects -> Places]
      BY <2>4 DEF Move, GalleryInv, GalleryTypes
    <3>2. QED
      BY <2>4, <3>1 DEF Move, GalleryInv, GalleryTypes, Once
  <2>5. CASE UNCHANGED galleryVars
    BY <2>5 DEF galleryVars, GalleryInv, GalleryTypes, Once, NothingLost, Shown, InKiosks, InWallet, Behind
  <2>6. QED
    BY <2>1, <2>2, <2>3, <2>4, <2>5, ReadWalletKeeps, RespondKeeps DEF GalleryNext
<1>2. GalleryInv => GalleryHonest
  <2> SUFFICES ASSUME GalleryInv PROVE GalleryHonest
    OBVIOUS
  <2>1. ItemsOnce
    BY DEF GalleryInv, Once, ItemsOnce
  <2>2. ASSUME AllLoaded, ~ disturbed, ~ cut PROVE Range(items) = nfts
    <3>1. nfts \subseteq Range(items)
      BY <2>2 DEF GalleryInv, NothingLost, AllLoaded, Shown
    <3>2. Range(items) \subseteq nfts
      BY RangeType DEF GalleryInv, GalleryTypes
    <3>3. QED
      BY <3>1, <3>2
  <2>3. QED
    BY <2>1, <2>2 DEF GalleryHonest, NothingPassedOver
<1>3. QED
  BY <1>1, <1>2, GalleryBegins, PTL DEF GallerySpec
=============================================================================
