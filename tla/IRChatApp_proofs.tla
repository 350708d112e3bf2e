-------------------------- MODULE IRChatApp_proofs --------------------------
(***************************************************************************)
(* The user interface keeps its two copies of the draft the same, gives    *)
(* the keys to what is open, draws the messages there are and leaves a     *)
(* reader at his place, for any keys, any history and any radio.           *)
(***************************************************************************)
EXTENDS IRChatApp, WellFoundedInduction, FiniteSetTheorems, TLAPS

\* Why a send was refused, or the limit of the draft was reached.
Statuses == {"", "limit", "empty", "not ready", "refused"}

Infos   == [state : UiStates, ready : BOOLEAN, initFailed : BOOLEAN, text : Texts, dropped : Nat]
Models  == [draft : Seq(Chars), status : Statuses, info : Infos, messages : Seq(Nat), nextMessage : Nat]
Vms     == [section : {"Messages", "Info"}, compose : BOOLEAN, dialog : BOOLEAN, help : BOOLEAN,
            lastState : UiStates, lastFailed : BOOLEAN]
Editors == [active : BOOLEAN, hidden : BOOLEAN, focusPending : BOOLEAN, inGroup : BOOLEAN,
            text : Seq(Chars), cursor : Nat, status : Statuses]

ViewFields  == {"attached", "list", "tip", "section", "visible", "fading", "editor", "failure", "help",
                "indicator", "infoPage"}
RadioFields == {"running", "state", "commands", "events"}
Happenings  == [kind : EventKinds, id : Nat]

Views(v) == DOMAIN v = ViewFields /\ v.attached \in BOOLEAN /\ v.editor \in Editors
Radios(r) ==
    /\ DOMAIN r = RadioFields /\ r.running \in BOOLEAN
    /\ r.commands \in Seq({"send", "retry"}) /\ r.events \in Seq(Happenings)
Shape(a) ==
    /\ DOMAIN a = {"model", "vm", "view", "radio"} /\ a = [f \in DOMAIN a |-> a[f]]
    /\ a.model \in Models /\ a.vm \in Vms /\ Views(a.view) /\ Radios(a.radio)

-----------------------------------------------------------------------------
(* What is set, and what the page makes of it.                             *)

\* The page shows v, if there is a page.
LEMMA ShownIs ==
    ASSUME NEW a, Shape(a), NEW v, Views(v), v.attached = a.view.attached,
           NEW m \in Models, NEW w \in Vms,
           NEW b, DOMAIN b = DOMAIN a, b = [f \in DOMAIN b |-> b[f]],
           b.model = m, b.vm = w, b.view = a.view, b.radio = a.radio
    PROVE  LET s == IF a.view.attached THEN [b EXCEPT !.view = v] ELSE b
           IN  /\ Shape(s) /\ s.model = m /\ s.vm = w /\ s.radio = a.radio
               /\ s.view = IF a.view.attached THEN v ELSE a.view
BY DEF Shape

LEMMA DraftPut ==
    ASSUME NEW a, Shape(a), NEW d \in Seq(Chars)
    PROVE  LET b == PutDraft(a, d)
           IN  /\ Shape(b) /\ b.model = [a.model EXCEPT !.draft = d] /\ b.vm = a.vm /\ b.radio = a.radio
               /\ b.view.attached = a.view.attached
               /\ b.view.editor = IF a.view.attached THEN EditorDraft(a.view.editor, d) ELSE a.view.editor
<1> DEFINE v == [a.view EXCEPT !.editor = EditorDraft(@, d)]
           b == [a EXCEPT !.model.draft = d]
<1>1. EditorDraft(a.view.editor, d) \in Editors
  <2>1. a.view.editor \in Editors /\ Len(d) \in Nat
    BY DEF Shape, Views
  <2>2. QED
    BY <2>1 DEF EditorDraft, Editors
<1>2. /\ Views(v) /\ v.attached = a.view.attached /\ v.editor = EditorDraft(a.view.editor, d)
  BY <1>1 DEF Shape, Views, ViewFields
<1>3. /\ DOMAIN b = DOMAIN a /\ b = [f \in DOMAIN b |-> b[f]]
      /\ b.model = [a.model EXCEPT !.draft = d] /\ b.vm = a.vm
      /\ b.view = a.view /\ b.radio = a.radio
  BY DEF Shape
<1>4. [a.model EXCEPT !.draft = d] \in Models /\ a.vm \in Vms
  BY DEF Shape, Models
<1>5. PutDraft(a, d) = IF a.view.attached THEN [b EXCEPT !.view = v] ELSE b
  BY <1>3 DEF PutDraft, Shown
<1> HIDE DEF v, b
<1>6. QED
  BY <1>2, <1>3, <1>4, <1>5, ShownIs

LEMMA StatusPut ==
    ASSUME NEW a, Shape(a), NEW s \in Statuses
    PROVE  LET b == PutStatus(a, s)
           IN  /\ Shape(b) /\ b.model = [a.model EXCEPT !.status = s] /\ b.vm = a.vm /\ b.radio = a.radio
               /\ b.view.attached = a.view.attached
               /\ b.view.editor = IF a.view.attached THEN EditorStatus(a.view.editor, s) ELSE a.view.editor
<1> DEFINE v == [a.view EXCEPT !.editor = EditorStatus(@, s)]
           b == [a EXCEPT !.model.status = s]
<1>1. EditorStatus(a.view.editor, s) \in Editors
  BY DEF Shape, Views, EditorStatus, Editors
<1>2. /\ Views(v) /\ v.attached = a.view.attached /\ v.editor = EditorStatus(a.view.editor, s)
  BY <1>1 DEF Shape, Views, ViewFields
<1>3. /\ DOMAIN b = DOMAIN a /\ b = [f \in DOMAIN b |-> b[f]]
      /\ b.model = [a.model EXCEPT !.status = s] /\ b.vm = a.vm
      /\ b.view = a.view /\ b.radio = a.radio
  BY DEF Shape
<1>4. [a.model EXCEPT !.status = s] \in Models /\ a.vm \in Vms
  BY DEF Shape, Models
<1>5. PutStatus(a, s) = IF a.view.attached THEN [b EXCEPT !.view = v] ELSE b
  BY <1>3 DEF PutStatus, Shown
<1> HIDE DEF v, b
<1>6. QED
  BY <1>2, <1>3, <1>4, <1>5, ShownIs

\* What says nothing to the editor.
SameEditor(a, b) == b.view.attached = a.view.attached /\ b.view.editor = a.view.editor

LEMMA InfoPut ==
    ASSUME NEW a, Shape(a), NEW info \in Infos
    PROVE  LET b == PutInfo(a, info)
           IN  /\ Shape(b) /\ b.model = [a.model EXCEPT !.info = info] /\ b.vm = a.vm /\ b.radio = a.radio
               /\ SameEditor(a, b)
<1> DEFINE v == [a.view EXCEPT !.infoPage = InfoPage(info)]
           b == [a EXCEPT !.model.info = info]
<1>1. Views(v) /\ v.attached = a.view.attached /\ v.editor = a.view.editor
  BY DEF Shape, Views, ViewFields
<1>2. /\ DOMAIN b = DOMAIN a /\ b = [f \in DOMAIN b |-> b[f]]
      /\ b.model = [a.model EXCEPT !.info = info] /\ b.vm = a.vm
      /\ b.view = a.view /\ b.radio = a.radio
  BY DEF Shape
<1>3. [a.model EXCEPT !.info = info] \in Models /\ a.vm \in Vms
  BY DEF Shape, Models
<1>4. PutInfo(a, info) = IF a.view.attached THEN [b EXCEPT !.view = v] ELSE b
  BY <1>2 DEF PutInfo, Shown
<1> HIDE DEF v, b
<1>5. QED
  BY <1>1, <1>2, <1>3, <1>4, ShownIs DEF SameEditor

LEMMA SectionPut ==
    ASSUME NEW a, Shape(a), NEW s \in {"Messages", "Info"}
    PROVE  LET b == PutSection(a, s)
           IN  /\ Shape(b) /\ b.model = a.model /\ b.vm = [a.vm EXCEPT !.section = s] /\ b.radio = a.radio
               /\ SameEditor(a, b)
<1> DEFINE v == SetSection(a.view, s)
           b == [a EXCEPT !.vm.section = s]
<1>1. Views(v) /\ v.attached = a.view.attached /\ v.editor = a.view.editor
  BY DEF Shape, Views, ViewFields, SetSection
<1>2. /\ DOMAIN b = DOMAIN a /\ b = [f \in DOMAIN b |-> b[f]]
      /\ b.vm = [a.vm EXCEPT !.section = s] /\ b.model = a.model
      /\ b.view = a.view /\ b.radio = a.radio
  BY DEF Shape
<1>3. [a.vm EXCEPT !.section = s] \in Vms /\ a.model \in Models
  BY DEF Shape, Vms
<1>4. PutSection(a, s) = IF a.view.attached THEN [b EXCEPT !.view = v] ELSE b
  BY <1>2 DEF PutSection, Shown
<1> HIDE DEF v, b
<1>5. QED
  BY <1>1, <1>2, <1>3, <1>4, ShownIs DEF SameEditor

LEMMA CoveredIs ==
    ASSUME NEW v, Views(v), NEW on
    PROVE  LET c == Covered(v, on) IN Views(c) /\ c.attached = v.attached /\ c.editor = v.editor
BY DEF Views, ViewFields, Covered

LEMMA ComposePut ==
    ASSUME NEW a, Shape(a), NEW on \in BOOLEAN
    PROVE  LET b == PutCompose(a, on)
           IN  /\ Shape(b) /\ b.model = a.model /\ b.vm = [a.vm EXCEPT !.compose = on] /\ b.radio = a.radio
               /\ b.view.attached = a.view.attached
               /\ b.view.editor = IF a.view.attached THEN EditorActive(a.view.editor, on) ELSE a.view.editor
<1> DEFINE c == Covered(a.view, on)
           v == SetComposeActive(a.view, on)
           b == [a EXCEPT !.vm.compose = on]
<1>1. EditorActive(a.view.editor, on) \in Editors
  BY DEF Shape, Views, EditorActive, LeaveGroup, Editors
<1>2. Views(c) /\ c.attached = a.view.attached /\ c.editor = a.view.editor
  BY CoveredIs DEF Shape
<1>3. v = [c EXCEPT !.editor = EditorActive(c.editor, on)]
  BY DEF SetComposeActive
<1> HIDE DEF c, v
<1>4. Views(v) /\ v.attached = a.view.attached /\ v.editor = EditorActive(a.view.editor, on)
  BY <1>1, <1>2, <1>3 DEF Views, ViewFields
<1>5. /\ DOMAIN b = DOMAIN a /\ b = [f \in DOMAIN b |-> b[f]]
      /\ b.vm = [a.vm EXCEPT !.compose = on] /\ b.model = a.model
      /\ b.view = a.view /\ b.radio = a.radio
  BY DEF Shape
<1>6. [a.vm EXCEPT !.compose = on] \in Vms /\ a.model \in Models
  BY DEF Shape, Vms
<1>7. PutCompose(a, on) = IF a.view.attached THEN [b EXCEPT !.view = v] ELSE b
  BY <1>5 DEF PutCompose, Shown, v
<1> HIDE DEF b
<1>8. QED
  BY <1>4, <1>5, <1>6, <1>7, ShownIs

LEMMA DialogPut ==
    ASSUME NEW a, Shape(a), NEW on \in BOOLEAN
    PROVE  LET b == PutDialog(a, on)
           IN  /\ Shape(b) /\ b.model = a.model /\ b.vm = [a.vm EXCEPT !.dialog = on] /\ b.radio = a.radio
               /\ SameEditor(a, b)
<1> DEFINE c == Covered(a.view, on)
           v == SetDialogActive(a.view, on)
           b == [a EXCEPT !.vm.dialog = on]
<1>1. Views(c) /\ c.attached = a.view.attached /\ c.editor = a.view.editor
  BY CoveredIs DEF Shape
<1>2. v = [c EXCEPT !.failure = FailureActive(c.failure, on)]
  BY DEF SetDialogActive
<1> HIDE DEF c, v
<1>3. Views(v) /\ v.attached = a.view.attached /\ v.editor = a.view.editor
  BY <1>1, <1>2 DEF Views, ViewFields
<1>4. /\ DOMAIN b = DOMAIN a /\ b = [f \in DOMAIN b |-> b[f]]
      /\ b.vm = [a.vm EXCEPT !.dialog = on] /\ b.model = a.model
      /\ b.view = a.view /\ b.radio = a.radio
  BY DEF Shape
<1>5. [a.vm EXCEPT !.dialog = on] \in Vms /\ a.model \in Models
  BY DEF Shape, Vms
<1>6. PutDialog(a, on) = IF a.view.attached THEN [b EXCEPT !.view = v] ELSE b
  BY <1>4 DEF PutDialog, Shown, v
<1> HIDE DEF b
<1>7. QED
  BY <1>3, <1>4, <1>5, <1>6, ShownIs DEF SameEditor

LEMMA HelpPut ==
    ASSUME NEW a, Shape(a), NEW on \in BOOLEAN
    PROVE  LET b == PutHelp(a, on)
           IN  /\ Shape(b) /\ b.model = a.model /\ b.vm = [a.vm EXCEPT !.help = on] /\ b.radio = a.radio
               /\ SameEditor(a, b)
<1> DEFINE c == Covered(a.view, on)
           v == SetHelpActive(a.view, on)
           b == [a EXCEPT !.vm.help = on]
<1>1. Views(c) /\ c.attached = a.view.attached /\ c.editor = a.view.editor
  BY CoveredIs DEF Shape
<1>2. v = [c EXCEPT !.help = on]
  BY DEF SetHelpActive
<1> HIDE DEF c, v
<1>3. Views(v) /\ v.attached = a.view.attached /\ v.editor = a.view.editor
  BY <1>1, <1>2 DEF Views, ViewFields
<1>4. /\ DOMAIN b = DOMAIN a /\ b = [f \in DOMAIN b |-> b[f]]
      /\ b.vm = [a.vm EXCEPT !.help = on] /\ b.model = a.model
      /\ b.view = a.view /\ b.radio = a.radio
  BY DEF Shape
<1>5. [a.vm EXCEPT !.help = on] \in Vms /\ a.model \in Models
  BY DEF Shape, Vms
<1>6. PutHelp(a, on) = IF a.view.attached THEN [b EXCEPT !.view = v] ELSE b
  BY <1>4 DEF PutHelp, Shown, v
<1> HIDE DEF b
<1>7. QED
  BY <1>3, <1>4, <1>5, <1>6, ShownIs DEF SameEditor

\* The list is moved or drawn, and the title with it.
LEMMA ListShown ==
    ASSUME NEW a, Shape(a), NEW l
    PROVE  LET b == Shown(a, [a.view EXCEPT !.list = l])
           IN  Shape(b) /\ b.model = a.model /\ b.vm = a.vm /\ b.radio = a.radio /\ SameEditor(a, b)
<1> DEFINE v == [a.view EXCEPT !.list = l]
<1>1. Views(v) /\ v.attached = a.view.attached /\ v.editor = a.view.editor
  BY DEF Shape, Views, ViewFields
<1>2. a.model \in Models /\ a.vm \in Vms /\ a = [f \in DOMAIN a |-> a[f]]
  BY DEF Shape
<1> HIDE DEF v
<1>3. LET b == Shown(a, v)
      IN  Shape(b) /\ b.model = a.model /\ b.vm = a.vm /\ b.radio = a.radio /\ SameEditor(a, b)
  BY <1>1, <1>2, ShownIs DEF SameEditor, Shown
<1>4. QED
  BY <1>3 DEF v

LEMMA ListScrolled ==
    ASSUME NEW a, Shape(a), NEW l, NEW t
    PROVE  LET b == Shown(a, [a.view EXCEPT !.list = l, !.tip = t])
           IN  Shape(b) /\ b.model = a.model /\ b.vm = a.vm /\ b.radio = a.radio /\ SameEditor(a, b)
<1> DEFINE v == [a.view EXCEPT !.list = l, !.tip = t]
<1>1. Views(v) /\ v.attached = a.view.attached /\ v.editor = a.view.editor
  BY DEF Shape, Views, ViewFields
<1>2. a.model \in Models /\ a.vm \in Vms /\ a = [f \in DOMAIN a |-> a[f]]
  BY DEF Shape
<1> HIDE DEF v
<1>3. LET b == Shown(a, v)
      IN  Shape(b) /\ b.model = a.model /\ b.vm = a.vm /\ b.radio = a.radio /\ SameEditor(a, b)
  BY <1>1, <1>2, ShownIs DEF SameEditor, Shown
<1>4. QED
  BY <1>3 DEF v

LEMMA Appended ==
    ASSUME NEW a, Shape(a)
    PROVE  LET b == AppendMessage(a)
           IN  /\ Shape(b) /\ b.vm = a.vm /\ b.radio = a.radio /\ SameEditor(a, b)
               /\ b.model.draft = a.model.draft /\ b.model.status = a.model.status /\ b.model.info = a.model.info
<1> DEFINE kept == IF Len(a.model.messages) >= HistoryLimit THEN Tail(a.model.messages) ELSE a.model.messages
           all  == Append(kept, a.model.nextMessage)
           b    == [a EXCEPT !.model.messages = all, !.model.nextMessage = @ + 1]
           m    == [[a.model EXCEPT !.messages = all] EXCEPT !.nextMessage = a.model.nextMessage + 1]
           v    == [a.view EXCEPT !.list = SetMessages(@, all)]
<1>1. all \in Seq(Nat)
  <2>1. a.model.messages \in Seq(Nat) /\ a.model.nextMessage \in Nat
    BY DEF Shape, Models
  <2>2. Len(a.model.messages) >= HistoryLimit => a.model.messages # <<>>
    BY <2>1, ListAssumption
  <2>3. QED
    BY <2>1, <2>2
<1>2. AppendMessage(a) = IF a.view.attached THEN [b EXCEPT !.view = v] ELSE b
  BY DEF AppendMessage, Shown, Shape
<1> HIDE DEF all
<1>3. m \in Models /\ m.draft = a.model.draft /\ m.status = a.model.status /\ m.info = a.model.info
  <2> DEFINE p == [a.model EXCEPT !.messages = all]
  <2>1. /\ p \in Models /\ p.draft = a.model.draft /\ p.status = a.model.status
        /\ p.info = a.model.info
    BY <1>1 DEF Shape, Models
  <2>2. a.model.nextMessage \in Nat /\ a.model.nextMessage + 1 \in Nat
    BY DEF Shape, Models
  <2> HIDE DEF p
  <2>3. QED
    BY <2>1, <2>2 DEF Models, p
<1>4. /\ DOMAIN b = DOMAIN a /\ b = [f \in DOMAIN b |-> b[f]] /\ b.vm = a.vm
      /\ b.model = m /\ b.view = a.view /\ b.radio = a.radio
  BY DEF Shape, Models
<1>5. Views(v) /\ v.attached = a.view.attached /\ v.editor = a.view.editor /\ a.vm \in Vms
  BY DEF Shape, Views, ViewFields
<1> HIDE DEF v, b, m
<1>6. QED
  BY <1>2, <1>3, <1>4, <1>5, ShownIs DEF SameEditor

-----------------------------------------------------------------------------
(* EditorAgrees, of a record.                                              *)

Agrees(a) ==
    LET e == a.view.editor IN
    /\ e.text = a.model.draft /\ e.status = a.model.status
    /\ e.cursor <= Len(e.text) /\ Len(e.text) <= MaxMessageBytes
    /\ e.active = a.vm.compose
    /\ e.inGroup \/ e.focusPending => e.active
    /\ e.active => e.inGroup # e.focusPending

Fine(a) == Shape(a) /\ a.view.attached /\ Agrees(a)

\* Only the draft and what is said of it change.
OnlyDraft(a, b) ==
    /\ b.vm = a.vm /\ b.radio = a.radio
    /\ b.model = [a.model EXCEPT !.draft = b.model.draft, !.status = b.model.status]

\* Another draft is set, whatever the text area has.
LEMMA DraftThenStatus ==
    ASSUME NEW a, Shape(a), a.view.attached,
           LET e == a.view.editor IN
               /\ e.cursor <= Len(e.text)
               /\ e.active = a.vm.compose
               /\ e.inGroup \/ e.focusPending => e.active
               /\ e.active => e.inGroup # e.focusPending,
           NEW d \in Seq(Chars), Len(d) <= MaxMessageBytes, NEW s \in Statuses
    PROVE  LET b == PutStatus(PutDraft(a, d), s)
           IN  Fine(b) /\ OnlyDraft(a, b) /\ b.model.draft = d
<1> DEFINE p == PutDraft(a, d)
           b == PutStatus(p, s)
<1>1. /\ Shape(p) /\ p.model = [a.model EXCEPT !.draft = d] /\ p.vm = a.vm /\ p.radio = a.radio
      /\ p.view.attached /\ p.view.editor = EditorDraft(a.view.editor, d)
  BY DraftPut
<1> HIDE DEF p
<1>2. /\ Shape(b) /\ b.model = [p.model EXCEPT !.status = s] /\ b.vm = p.vm /\ b.radio = p.radio
      /\ b.view.attached /\ b.view.editor = EditorStatus(p.view.editor, s)
  <2>1. Shape(p)
    BY <1>1
  <2>2. /\ Shape(b) /\ b.model = [p.model EXCEPT !.status = s] /\ b.vm = p.vm /\ b.radio = p.radio
        /\ b.view.attached = p.view.attached
        /\ b.view.editor = IF p.view.attached THEN EditorStatus(p.view.editor, s) ELSE p.view.editor
    BY <2>1, StatusPut
  <2>3. QED
    BY <1>1, <2>2
<1> HIDE DEF b
<1>3. /\ a.model \in Models /\ a.view.editor \in Editors /\ Len(d) \in Nat
  BY DEF Shape, Views
<1>4. b.model.draft = d /\ b.model.status = s /\ OnlyDraft(a, b)
  BY <1>1, <1>2, <1>3 DEF OnlyDraft, Models
<1> DEFINE e == a.view.editor
           f == b.view.editor
<1>5. /\ f.text = d /\ f.status = s /\ f.cursor \in {e.cursor, Len(d)} /\ f.cursor <= Len(d)
      /\ f.active = e.active /\ f.inGroup = e.inGroup /\ f.focusPending = e.focusPending
  BY <1>1, <1>2, <1>3 DEF EditorDraft, EditorStatus, Editors
<1>6. Agrees(b)
  BY <1>1, <1>2, <1>4, <1>5 DEF Agrees
<1>7. QED
  BY <1>2, <1>4, <1>6 DEF Fine, b, p

LEMMA StatusOnly ==
    ASSUME NEW a, Fine(a), NEW s \in Statuses
    PROVE  Fine(PutStatus(a, s)) /\ OnlyDraft(a, PutStatus(a, s))
<1> DEFINE b == PutStatus(a, s)
<1>1. /\ Shape(b) /\ b.model = [a.model EXCEPT !.status = s] /\ b.vm = a.vm /\ b.radio = a.radio
      /\ b.view.attached /\ b.view.editor = EditorStatus(a.view.editor, s)
  BY StatusPut DEF Fine
<1> HIDE DEF b
<1>2. a.model \in Models /\ a.view.editor \in Editors
  BY DEF Fine, Shape, Views
<1>3. b.model.draft = a.model.draft /\ b.model.status = s /\ OnlyDraft(a, b)
  BY <1>1, <1>2 DEF OnlyDraft, Models
<1>4. Agrees(b)
  BY <1>1, <1>2, <1>3 DEF Fine, Agrees, EditorStatus, Editors
<1>5. QED
  BY <1>1, <1>3, <1>4 DEF Fine, b

LEMMA DraftSet ==
    ASSUME NEW a, Fine(a), NEW d \in Seq(Chars), Len(d) <= MaxMessageBytes, NEW s \in Statuses
    PROVE  Fine(PutStatus(PutDraft(a, d), s)) /\ OnlyDraft(a, PutStatus(PutDraft(a, d), s))
BY DraftThenStatus DEF Fine, Agrees

LEMMA DraftType ==
    ASSUME NEW a, Fine(a)
    PROVE  a.model.draft \in Seq(Chars) /\ Len(a.model.draft) \in Nat /\ Len(a.model.draft) <= MaxMessageBytes
           /\ a.model.status \in Statuses
<1>1. a.model.draft \in Seq(Chars) /\ a.model.status \in Statuses
  BY DEF Fine, Shape, Models
<1>2. QED
  BY <1>1 DEF Fine, Agrees

LEMMA Begun ==
    ASSUME NEW a, Fine(a), NEW first \in Chars \union {NoChar}
    PROVE  Fine(BeginCompose(a, first)) /\ OnlyDraft(a, BeginCompose(a, first))
<1> DEFINE d == IF first = NoChar THEN <<>> ELSE <<first>>
<1>1. d \in Seq(Chars) /\ Len(d) <= MaxMessageBytes
  BY ViewModelAssumption
<1> HIDE DEF d
<1>2. QED
  BY <1>1, DraftSet DEF Statuses, BeginCompose, d

LEMMA Cleared ==
    ASSUME NEW a, Fine(a) PROVE Fine(ClearDraft(a)) /\ OnlyDraft(a, ClearDraft(a))
<1>1. <<>> \in Seq(Chars) /\ Len(<<>>) <= MaxMessageBytes
  BY ViewModelAssumption
<1>2. QED
  BY <1>1, DraftSet DEF Statuses, ClearDraft

LEMMA CharAdded ==
    ASSUME NEW a, Fine(a), NEW c \in Chars PROVE Fine(AppendDraft(a, c)) /\ OnlyDraft(a, AppendDraft(a, c))
<1> DEFINE d == Append(a.model.draft, c)
<1>1. CASE Len(a.model.draft) >= MaxMessageBytes
  BY <1>1, StatusOnly DEF Statuses, AppendDraft
<1>2. CASE ~(Len(a.model.draft) >= MaxMessageBytes)
  <2>1. d \in Seq(Chars) /\ Len(d) <= MaxMessageBytes
    BY <1>2, DraftType, ViewModelAssumption
  <2> HIDE DEF d
  <2>2. QED
    BY <1>2, <2>1, DraftSet DEF Statuses, AppendDraft, d
<1>3. QED
  BY <1>1, <1>2

LEMMA CharErased ==
    ASSUME NEW a, Fine(a) PROVE Fine(EraseDraftCharacter(a)) /\ OnlyDraft(a, EraseDraftCharacter(a))
<1> DEFINE d == Front(a.model.draft)
<1>1. CASE a.model.draft = <<>>
  BY <1>1, StatusOnly DEF Statuses, EraseDraftCharacter
<1>2. CASE a.model.draft # <<>>
  <2>1. d \in Seq(Chars) /\ Len(d) <= MaxMessageBytes
    <3>1. a.model.draft \in Seq(Chars) /\ Len(a.model.draft) \in Nat \ {0}
      BY <1>2, DraftType
    <3>2. QED
      BY <3>1, DraftType, ViewModelAssumption DEF Front
  <2> HIDE DEF d
  <2>2. QED
    BY <1>2, <2>1, DraftSet DEF Statuses, EraseDraftCharacter, d
<1>3. QED
  BY <1>1, <1>2

-----------------------------------------------------------------------------
(* The keys of the text area.                                              *)

\* The text area after a key has a text within the limit and a cursor in it.
Edited(a, e) ==
    /\ e \in Editors /\ e.cursor <= Len(e.text) /\ Len(e.text) <= MaxMessageBytes
    /\ e.active = a.view.editor.active /\ e.inGroup = a.view.editor.inGroup
    /\ e.focusPending = a.view.editor.focusPending /\ e.status = a.view.editor.status

LEMMA EditorPut ==
    ASSUME NEW a, Shape(a), NEW e \in Editors
    PROVE  LET b == [a EXCEPT !.view.editor = e]
           IN  /\ Shape(b) /\ b.model = a.model /\ b.vm = a.vm /\ b.radio = a.radio
               /\ b.view.attached = a.view.attached /\ b.view.editor = e
<1> DEFINE v == [a.view EXCEPT !.editor = e]
<1>1. Views(v) /\ v.attached = a.view.attached /\ v.editor = e
  BY DEF Shape, Views, ViewFields
<1> HIDE DEF v
<1>2. [a EXCEPT !.view.editor = e] = [a EXCEPT !.view = v]
  BY DEF v
<1>3. QED
  BY <1>1, <1>2 DEF Shape

LEMMA TypedIn ==
    ASSUME NEW a, Fine(a), NEW e, Edited(a, e)
    PROVE  Fine(Typed(a, e)) /\ OnlyDraft(a, Typed(a, e))
<1> DEFINE b == [a EXCEPT !.view.editor = e]
<1>1. e \in Editors /\ e.text \in Seq(Chars) /\ Len(e.text) \in Nat /\ ~(Len(e.text) > MaxMessageBytes)
  <2>1. e \in Editors /\ Len(e.text) <= MaxMessageBytes
    BY DEF Edited
  <2>2. e.text \in Seq(Chars) /\ Len(e.text) \in Nat
    BY <2>1 DEF Editors
  <2>3. QED
    BY <2>1, <2>2, ViewModelAssumption
<1>2. /\ Shape(b) /\ b.model = a.model /\ b.vm = a.vm /\ b.radio = a.radio
      /\ b.view.attached /\ b.view.editor = e
  BY <1>1, EditorPut DEF Fine
<1>3. Typed(a, e) = PutStatus(PutDraft(b, e.text), "")
  BY <1>1 DEF Typed, SetDraft
<1> HIDE DEF b
<1>4. /\ e.cursor <= Len(e.text) /\ e.active = b.vm.compose /\ (e.inGroup \/ e.focusPending => e.active)
      /\ (e.active => e.inGroup # e.focusPending)
  BY <1>2 DEF Edited, Fine, Agrees
<1>5. Fine(Typed(a, e)) /\ OnlyDraft(b, Typed(a, e))
  <2>1. Shape(b) /\ b.view.attached
    BY <1>2
  <2>2. /\ b.view.editor.cursor <= Len(b.view.editor.text)
        /\ b.view.editor.active = b.vm.compose
        /\ b.view.editor.inGroup \/ b.view.editor.focusPending => b.view.editor.active
        /\ b.view.editor.active => b.view.editor.inGroup # b.view.editor.focusPending
    BY <1>2, <1>4
  <2>3. e.text \in Seq(Chars) /\ Len(e.text) <= MaxMessageBytes /\ "" \in Statuses
    BY DEF Edited, Editors, Statuses
  <2>4. Fine(PutStatus(PutDraft(b, e.text), "")) /\ OnlyDraft(b, PutStatus(PutDraft(b, e.text), ""))
    BY <2>1, <2>2, <2>3, DraftThenStatus
  <2>5. QED
    BY <1>3, <2>4
<1>6. QED
  BY <1>2, <1>5 DEF OnlyDraft

\* What is put in, and taken out.
LEMMA InsertedText ==
    ASSUME NEW S, NEW s \in Seq(S), NEW k \in 0 .. Len(s), NEW c \in S
    PROVE  LET t == SubSeq(s, 1, k) \o <<c>> \o SubSeq(s, k + 1, Len(s))
           IN  t \in Seq(S) /\ Len(t) = Len(s) + 1
<1>1. Len(s) \in Nat
  OBVIOUS
<1>2. SubSeq(s, 1, k) \in Seq(S) /\ Len(SubSeq(s, 1, k)) = k
  OBVIOUS
<1>3. SubSeq(s, k + 1, Len(s)) \in Seq(S) /\ Len(SubSeq(s, k + 1, Len(s))) = Len(s) - k
  OBVIOUS
<1> DEFINE x == SubSeq(s, 1, k)
           y == SubSeq(s, k + 1, Len(s))
<1> HIDE DEF x, y
<1>4. x \o <<c>> \in Seq(S) /\ Len(x \o <<c>>) = k + 1
  BY <1>2 DEF x
<1>5. /\ (x \o <<c>>) \o y \in Seq(S)
      /\ Len((x \o <<c>>) \o y) = Len(x \o <<c>>) + Len(y)
  <2> DEFINE z == x \o <<c>>
  <2>1. z \in Seq(S) /\ y \in Seq(S)
    BY <1>3, <1>4 DEF y
  <2> HIDE DEF z
  <2>2. z \o y \in Seq(S) /\ Len(z \o y) = Len(z) + Len(y)
    BY <2>1
  <2>3. QED
    BY <2>2 DEF z
<1>6. Len(y) = Len(s) - k
  BY <1>3 DEF y
<1>7. Len(x \o <<c>> \o y) = Len(s) + 1
  BY <1>1, <1>4, <1>5, <1>6
<1>8. QED
  BY <1>5, <1>7 DEF x, y

LEMMA RemovedText ==
    ASSUME NEW S, NEW s \in Seq(S), NEW k \in 1 .. Len(s)
    PROVE  LET t == RemoveAt(s, k) IN t \in Seq(S) /\ Len(t) = Len(s) - 1
<1>1. Len(s) \in Nat
  OBVIOUS
<1>2. SubSeq(s, 1, k - 1) \in Seq(S) /\ Len(SubSeq(s, 1, k - 1)) = k - 1
  OBVIOUS
<1>3. SubSeq(s, k + 1, Len(s)) \in Seq(S) /\ Len(SubSeq(s, k + 1, Len(s))) = Len(s) - k
  OBVIOUS
<1> DEFINE x == SubSeq(s, 1, k - 1)
           y == SubSeq(s, k + 1, Len(s))
<1> HIDE DEF x, y
<1>4. x \o y \in Seq(S) /\ Len(x \o y) = Len(x) + Len(y)
  BY <1>2, <1>3 DEF x, y
<1>5. Len(x) = k - 1 /\ Len(y) = Len(s) - k
  BY <1>2, <1>3 DEF x, y
<1>6. RemoveAt(s, k) = x \o y
  BY DEF RemoveAt, x, y
<1>7. Len(x \o y) = Len(s) - 1
  BY <1>1, <1>4, <1>5
<1>8. QED
  BY <1>4, <1>6, <1>7

LEMMA KeyIntoText ==
    ASSUME NEW a, Fine(a), NEW key PROVE Fine(TextInput(a, key)) /\ OnlyDraft(a, TextInput(a, key))
<1> DEFINE e == a.view.editor
<1>1. e \in Editors /\ e.text \in Seq(Chars) /\ e.cursor \in Nat /\ Len(e.text) \in Nat
  BY DEF Fine, Shape, Views, Editors
<1>2. e.cursor <= Len(e.text) /\ Len(e.text) <= MaxMessageBytes /\ MaxMessageBytes \in Nat
  BY ViewModelAssumption DEF Fine, Agrees
<1> HIDE DEF e
<1>3. ASSUME NEW k \in 1 .. Len(e.text)
      PROVE  Fine(Typed(a, DeletedAt(e, k))) /\ OnlyDraft(a, Typed(a, DeletedAt(e, k)))
  <2> DEFINE t == RemoveAt(e.text, k)
  <2>1. t \in Seq(Chars) /\ Len(t) = Len(e.text) - 1
    BY <1>1, RemovedText
  <2> HIDE DEF t
  <2>2. Edited(a, [e EXCEPT !.text = t, !.cursor = k - 1])
    <3>1. k - 1 \in Nat /\ k - 1 <= Len(t) /\ Len(t) <= MaxMessageBytes
      BY <1>1, <1>2, <2>1
    <3>2. QED
      BY <1>1, <2>1, <3>1 DEF Edited, Editors, e
  <2>3. QED
    BY <2>2, TypedIn DEF DeletedAt, t
<1>4. ASSUME key \in Chars, Len(e.text) < MaxMessageBytes
      PROVE  Fine(Typed(a, Inserted(e, key))) /\ OnlyDraft(a, Typed(a, Inserted(e, key)))
  <2> DEFINE t == SubSeq(e.text, 1, e.cursor) \o <<key>> \o SubSeq(e.text, e.cursor + 1, Len(e.text))
  <2>1. t \in Seq(Chars) /\ Len(t) = Len(e.text) + 1
    BY <1>1, <1>2, <1>4, InsertedText
  <2>2. Inserted(e, key) = [[e EXCEPT !.text = t] EXCEPT !.cursor = e.cursor + 1]
    BY <1>1 DEF Inserted, Editors
  <2> HIDE DEF t
  <2>3. Edited(a, [[e EXCEPT !.text = t] EXCEPT !.cursor = e.cursor + 1])
    <3>1. e.cursor + 1 \in Nat /\ e.cursor + 1 <= Len(t) /\ Len(t) <= MaxMessageBytes
      BY <1>1, <1>2, <1>4, <2>1
    <3>2. QED
      BY <1>1, <2>1, <3>1 DEF Edited, Editors, e
  <2>4. QED
    BY <2>2, <2>3, TypedIn
<1>5. ASSUME NEW k \in Nat, k <= Len(e.text)
      PROVE  Fine(MoveCursor(a, k)) /\ OnlyDraft(a, MoveCursor(a, k))
  <2> DEFINE f == [e EXCEPT !.cursor = k]
             b == [a EXCEPT !.view.editor = f]
  <2>1. /\ f \in Editors /\ f.text = e.text /\ f.cursor = k /\ f.active = e.active /\ f.status = e.status
        /\ f.inGroup = e.inGroup /\ f.focusPending = e.focusPending
    BY <1>1 DEF Editors
  <2>2. MoveCursor(a, k) = b
    BY DEF MoveCursor, e, Fine, Shape, Views, ViewFields
  <2> HIDE DEF f
  <2>3. /\ Shape(b) /\ b.model = a.model /\ b.vm = a.vm /\ b.radio = a.radio
        /\ b.view.attached /\ b.view.editor = f
    BY <2>1, EditorPut DEF Fine
  <2> HIDE DEF b
  <2>4. Agrees(b)
    BY <1>5, <2>1, <2>3 DEF Fine, Agrees, e
  <2>5. OnlyDraft(a, b)
    BY <2>3 DEF OnlyDraft, Fine, Shape, Models
  <2>6. QED
    BY <2>2, <2>3, <2>4, <2>5 DEF Fine
<1>6. OnlyDraft(a, a)
  BY DEF OnlyDraft, Fine, Shape, Models
<1>7. e.cursor > 0 => e.cursor \in 1 .. Len(e.text) /\ e.cursor - 1 \in Nat /\ e.cursor - 1 <= Len(e.text)
  BY <1>1, <1>2
<1>8. e.cursor < Len(e.text) =>
          /\ e.cursor + 1 \in 1 .. Len(e.text) /\ e.cursor + 1 \in Nat /\ e.cursor + 1 <= Len(e.text)
  BY <1>1, <1>2
<1>9. 0 \in Nat /\ 0 <= Len(e.text) /\ Len(e.text) <= Len(e.text)
  BY <1>1
<1>10. QED
  BY <1>1, <1>3, <1>4, <1>5, <1>6, <1>7, <1>8, <1>9 DEF TextInput, e

-----------------------------------------------------------------------------
(* What leaves the editor as it is keeps the two drafts the same.          *)

LEMMA SameEditorKeeps ==
    ASSUME NEW a, Fine(a), NEW b, Shape(b), SameEditor(a, b),
           b.model.draft = a.model.draft, b.model.status = a.model.status, b.vm.compose = a.vm.compose
    PROVE  Fine(b)
BY DEF Fine, Agrees, SameEditor

LEMMA FineInfo ==
    ASSUME NEW a, Fine(a), NEW info \in Infos
    PROVE  /\ Fine(PutInfo(a, info)) /\ PutInfo(a, info).vm = a.vm /\ PutInfo(a, info).radio = a.radio
           /\ PutInfo(a, info).model.info = info
<1> DEFINE b == PutInfo(a, info)
<1>1. Shape(a) /\ a.model \in Models
  BY DEF Fine, Shape
<1>2. /\ Shape(b) /\ b.model = [a.model EXCEPT !.info = info] /\ b.vm = a.vm /\ b.radio = a.radio
      /\ SameEditor(a, b)
  BY <1>1, InfoPut
<1> HIDE DEF b
<1>3. b.model.draft = a.model.draft /\ b.model.status = a.model.status /\ b.model.info = info
  BY <1>1, <1>2 DEF Models
<1>4. Fine(b)
  BY <1>2, <1>3, SameEditorKeeps
<1>5. QED
  BY <1>2, <1>3, <1>4 DEF b

LEMMA FineSection ==
    ASSUME NEW a, Fine(a), NEW s \in {"Messages", "Info"}
    PROVE  /\ Fine(PutSection(a, s)) /\ PutSection(a, s).model = a.model /\ PutSection(a, s).radio = a.radio
           /\ PutSection(a, s).vm = [a.vm EXCEPT !.section = s]
<1> DEFINE b == PutSection(a, s)
<1>1. Shape(a) /\ a.vm \in Vms
  BY DEF Fine, Shape
<1>2. /\ Shape(b) /\ b.model = a.model /\ b.vm = [a.vm EXCEPT !.section = s] /\ b.radio = a.radio
      /\ SameEditor(a, b)
  BY <1>1, SectionPut
<1> HIDE DEF b
<1>3. b.vm.compose = a.vm.compose
  BY <1>1, <1>2 DEF Vms
<1>4. Fine(b)
  BY <1>2, <1>3, SameEditorKeeps
<1>5. QED
  BY <1>2, <1>4 DEF b

LEMMA FineDialog ==
    ASSUME NEW a, Fine(a), NEW on \in BOOLEAN
    PROVE  /\ Fine(PutDialog(a, on)) /\ PutDialog(a, on).model = a.model /\ PutDialog(a, on).radio = a.radio
           /\ PutDialog(a, on).vm = [a.vm EXCEPT !.dialog = on]
<1> DEFINE b == PutDialog(a, on)
<1>1. Shape(a) /\ a.vm \in Vms
  BY DEF Fine, Shape
<1>2. /\ Shape(b) /\ b.model = a.model /\ b.vm = [a.vm EXCEPT !.dialog = on] /\ b.radio = a.radio
      /\ SameEditor(a, b)
  BY <1>1, DialogPut
<1> HIDE DEF b
<1>3. b.vm.compose = a.vm.compose
  BY <1>1, <1>2 DEF Vms
<1>4. Fine(b)
  BY <1>2, <1>3, SameEditorKeeps
<1>5. QED
  BY <1>2, <1>4 DEF b

LEMMA FineHelp ==
    ASSUME NEW a, Fine(a), NEW on \in BOOLEAN
    PROVE  /\ Fine(PutHelp(a, on)) /\ PutHelp(a, on).model = a.model /\ PutHelp(a, on).radio = a.radio
           /\ PutHelp(a, on).vm = [a.vm EXCEPT !.help = on]
<1> DEFINE b == PutHelp(a, on)
<1>1. Shape(a) /\ a.vm \in Vms
  BY DEF Fine, Shape
<1>2. /\ Shape(b) /\ b.model = a.model /\ b.vm = [a.vm EXCEPT !.help = on] /\ b.radio = a.radio
      /\ SameEditor(a, b)
  BY <1>1, HelpPut
<1> HIDE DEF b
<1>3. b.vm.compose = a.vm.compose
  BY <1>1, <1>2 DEF Vms
<1>4. Fine(b)
  BY <1>2, <1>3, SameEditorKeeps
<1>5. QED
  BY <1>2, <1>4 DEF b

\* The dialog opens with nothing in the keyboard's group, and closing it empties
\* the group.
LEMMA FineCompose ==
    ASSUME NEW a, Fine(a), NEW on \in BOOLEAN
    PROVE  /\ Fine(PutCompose(a, on)) /\ PutCompose(a, on).model = a.model /\ PutCompose(a, on).radio = a.radio
           /\ PutCompose(a, on).vm = [a.vm EXCEPT !.compose = on]
<1> DEFINE b == PutCompose(a, on)
           e == a.view.editor
           f == b.view.editor
<1>1. Shape(a) /\ a.vm \in Vms /\ e \in Editors /\ a.view.attached
  BY DEF Fine, Shape, Views
<1>2. /\ Shape(b) /\ b.model = a.model /\ b.vm = [a.vm EXCEPT !.compose = on] /\ b.radio = a.radio
      /\ b.view.attached = a.view.attached
      /\ b.view.editor = IF a.view.attached THEN EditorActive(a.view.editor, on) ELSE a.view.editor
  <2>1. Shape(a)
    BY <1>1
  <2>2. QED
    BY <2>1, ComposePut
<1> HIDE DEF b
<1>3. f = EditorActive(e, on) /\ b.view.attached
  BY <1>1, <1>2
<1> HIDE DEF f
<1>4. b.vm.compose = on
  BY <1>1, <1>2 DEF Vms
<1>5. /\ e.text = a.model.draft /\ e.status = a.model.status
      /\ e.cursor <= Len(e.text) /\ Len(e.text) <= MaxMessageBytes
      /\ e.active = a.vm.compose /\ (e.inGroup \/ e.focusPending => e.active)
      /\ e.active => e.inGroup # e.focusPending
  BY DEF Fine, Agrees
<1> HIDE DEF e
<1>6. /\ f.text = e.text /\ f.status = e.status /\ f.cursor = e.cursor /\ f.active = on
      /\ (f.inGroup \/ f.focusPending => f.active)
      /\ f.active => f.inGroup # f.focusPending
  BY <1>1, <1>3, <1>5 DEF EditorActive, LeaveGroup, Editors
<1>7. Agrees(b)
  BY <1>2, <1>4, <1>5, <1>6 DEF Agrees, f
<1>8. QED
  BY <1>2, <1>3, <1>7 DEF Fine, b

LEMMA FineList ==
    ASSUME NEW a, Fine(a), NEW l
    PROVE  /\ Fine(Shown(a, [a.view EXCEPT !.list = l]))
           /\ Shown(a, [a.view EXCEPT !.list = l]).model = a.model
           /\ Shown(a, [a.view EXCEPT !.list = l]).vm = a.vm
           /\ Shown(a, [a.view EXCEPT !.list = l]).radio = a.radio
<1> DEFINE c == Shown(a, [a.view EXCEPT !.list = l])
<1>1. Shape(a)
  BY DEF Fine
<1>2. Shape(c) /\ c.model = a.model /\ c.vm = a.vm /\ c.radio = a.radio /\ SameEditor(a, c)
  BY <1>1, ListShown
<1> HIDE DEF c
<1>3. Fine(c)
  BY <1>2, SameEditorKeeps
<1>4. QED
  BY <1>2, <1>3 DEF c

ShownScrolled(a, l, t) == Shown(a, [a.view EXCEPT !.list = l, !.tip = t])

LEMMA FineScrolled ==
    ASSUME NEW a, Fine(a), NEW l, NEW t
    PROVE  LET b == ShownScrolled(a, l, t)
           IN  Fine(b) /\ b.model = a.model /\ b.vm = a.vm /\ b.radio = a.radio
<1> DEFINE b == Shown(a, [a.view EXCEPT !.list = l, !.tip = t])
<1>1. Shape(a)
  BY DEF Fine
<1>2. Shape(b) /\ b.model = a.model /\ b.vm = a.vm /\ b.radio = a.radio /\ SameEditor(a, b)
  BY <1>1, ListScrolled
<1>3. b = ShownScrolled(a, l, t)
  BY DEF ShownScrolled
<1> HIDE DEF b
<1>4. Fine(b)
  BY <1>2, SameEditorKeeps
<1>5. QED
  BY <1>2, <1>3, <1>4

LEMMA FineAppended ==
    ASSUME NEW a, Fine(a)
    PROVE  /\ Fine(AppendMessage(a)) /\ AppendMessage(a).vm = a.vm /\ AppendMessage(a).radio = a.radio
           /\ AppendMessage(a).model.info = a.model.info
<1> DEFINE b == AppendMessage(a)
<1>1. Shape(a)
  BY DEF Fine
<1>2. /\ Shape(b) /\ b.vm = a.vm /\ b.radio = a.radio /\ SameEditor(a, b)
      /\ b.model.draft = a.model.draft /\ b.model.status = a.model.status /\ b.model.info = a.model.info
  BY <1>1, Appended
<1> HIDE DEF b
<1>3. Fine(b)
  BY <1>2, SameEditorKeeps
<1>4. QED
  BY <1>2, <1>3 DEF b

\* The radio and what the view model remembers of it are no concern of the editor.
LEMMA FineRadio ==
    ASSUME NEW a, Fine(a), NEW r, Radios(r)
    PROVE  LET b == [a EXCEPT !.radio = r]
           IN  Fine(b) /\ b.model = a.model /\ b.vm = a.vm /\ b.radio = r /\ b.view = a.view
BY DEF Fine, Shape, Agrees

LEMMA FineMemory ==
    ASSUME NEW a, Fine(a), NEW w \in Vms, w.compose = a.vm.compose
    PROVE  LET b == [a EXCEPT !.vm = w]
           IN  Fine(b) /\ b.model = a.model /\ b.vm = w /\ b.radio = a.radio /\ b.view = a.view
BY DEF Fine, Shape, Agrees

-----------------------------------------------------------------------------
(* What a key makes of the whole.                                          *)

\* The dialog of a failure shares the screen with no editor, and is on the radio's
\* page.
Exclusive(a) == ~(a.vm.dialog /\ a.vm.compose) /\ (a.vm.dialog => a.vm.section = "Info")

\* Nothing new is known of the radio, or a retry was asked for.
Untold(a, b) ==
    /\ b.model.info = a.model.info /\ b.radio.events = a.radio.events
    /\ b.vm.lastFailed = a.vm.lastFailed
Retried(a, b) ==
    /\ ~Failed(b.model.info) /\ ~b.model.info.ready /\ ~b.vm.lastFailed
    /\ b.radio.events \in {a.radio.events, <<>>}

\* At most one of the three closes.
OneCloses(v, w) ==
    \/ (v.compose => w.compose) /\ (v.dialog => w.dialog)
    \/ (v.compose => w.compose) /\ (v.help => w.help)
    \/ (v.dialog => w.dialog) /\ (v.help => w.help)

NoneSent(a, b) == b.radio.commands \in {a.radio.commands, Append(a.radio.commands, "retry"), <<>>}

Outcome(a, b) ==
    /\ Fine(b) /\ Exclusive(b) /\ (Untold(a, b) \/ Retried(a, b))
    /\ OneCloses(a.vm, b.vm) /\ (a.vm.dialog => NoneSent(a, b))

LEMMA FieldsOf ==
    ASSUME NEW a, Fine(a)
    PROVE  /\ a.model \in Models /\ a.vm \in Vms /\ a.model.info \in Infos /\ Radios(a.radio)
           /\ a.vm.compose \in BOOLEAN /\ a.vm.dialog \in BOOLEAN /\ a.vm.help \in BOOLEAN
           /\ a.vm.lastFailed \in BOOLEAN /\ a.vm.section \in {"Messages", "Info"}
<1>1. a.model \in Models /\ a.vm \in Vms /\ Radios(a.radio)
  BY DEF Fine, Shape
<1>2. QED
  BY <1>1 DEF Models, Vms

\* The view model only.
LEMMA OutcomeOfVm ==
    ASSUME NEW a, Fine(a), NEW b, Fine(b), b.model.info = a.model.info, b.radio = a.radio,
           Exclusive(b), OneCloses(a.vm, b.vm), b.vm.lastFailed = a.vm.lastFailed
    PROVE  Outcome(a, b)
BY DEF Outcome, Untold, NoneSent

LEMMA OutcomeOfDraft ==
    ASSUME NEW a, Fine(a), Exclusive(a), NEW b, Fine(b), OnlyDraft(a, b)
    PROVE  Outcome(a, b) /\ b.model.info = a.model.info
<1>1. b.model.info = a.model.info /\ b.radio = a.radio /\ b.vm = a.vm
  BY FieldsOf DEF OnlyDraft, Models
<1>2. Exclusive(b) /\ OneCloses(a.vm, b.vm)
  BY <1>1 DEF Exclusive, OneCloses
<1>3. QED
  BY <1>1, <1>2, OutcomeOfVm

LEMMA OutcomeOfNothing == ASSUME NEW a, Fine(a), Exclusive(a) PROVE Outcome(a, a)
BY OutcomeOfVm DEF OneCloses

LEMMA HelpOutcome ==
    ASSUME NEW a, Fine(a), Exclusive(a), NEW on \in BOOLEAN PROVE Outcome(a, PutHelp(a, on))
<1> DEFINE b == PutHelp(a, on)
<1>1. Fine(b) /\ b.model = a.model /\ b.radio = a.radio /\ b.vm = [a.vm EXCEPT !.help = on]
  BY FineHelp
<1> HIDE DEF b
<1>2. /\ b.vm.dialog = a.vm.dialog /\ b.vm.compose = a.vm.compose /\ b.vm.section = a.vm.section
      /\ b.vm.lastFailed = a.vm.lastFailed
  BY <1>1, FieldsOf DEF Vms
<1>3. Outcome(a, b)
  BY <1>1, <1>2, OutcomeOfVm DEF Exclusive, OneCloses
<1>4. QED
  BY <1>3 DEF b

LEMMA ComposeOutcome ==
    ASSUME NEW a, Fine(a), Exclusive(a), NEW on \in BOOLEAN, on => ~a.vm.dialog
    PROVE  Outcome(a, PutCompose(a, on))
<1> DEFINE b == PutCompose(a, on)
<1>1. Fine(b) /\ b.model = a.model /\ b.radio = a.radio /\ b.vm = [a.vm EXCEPT !.compose = on]
  BY FineCompose
<1> HIDE DEF b
<1>2. /\ b.vm.dialog = a.vm.dialog /\ b.vm.compose = on /\ b.vm.section = a.vm.section
      /\ b.vm.lastFailed = a.vm.lastFailed /\ b.vm.help = a.vm.help
  BY <1>1, FieldsOf DEF Vms
<1>3. Outcome(a, b)
  BY <1>1, <1>2, OutcomeOfVm DEF Exclusive, OneCloses
<1>4. QED
  BY <1>3 DEF b

LEMMA SectionOutcome ==
    ASSUME NEW a, Fine(a), Exclusive(a), NEW s \in {"Messages", "Info"}, s = "Info" \/ ~a.vm.dialog
    PROVE  Outcome(a, PutSection(a, s))
<1> DEFINE b == PutSection(a, s)
<1>1. Fine(b) /\ b.model = a.model /\ b.radio = a.radio /\ b.vm = [a.vm EXCEPT !.section = s]
  BY FineSection
<1> HIDE DEF b
<1>2. /\ b.vm.dialog = a.vm.dialog /\ b.vm.compose = a.vm.compose /\ b.vm.section = s
      /\ b.vm.lastFailed = a.vm.lastFailed /\ b.vm.help = a.vm.help
  BY <1>1, FieldsOf DEF Vms
<1>3. Outcome(a, b)
  BY <1>1, <1>2, OutcomeOfVm DEF Exclusive, OneCloses
<1>4. QED
  BY <1>3 DEF b

LEMMA ScrollOutcome ==
    ASSUME NEW a, Fine(a), Exclusive(a), NEW amount PROVE Outcome(a, Scroll(a, amount))
<1> DEFINE l == ScrollBy(a.view.list, amount)
           t == DismissTitle(a.view.tip)
           b == ShownScrolled(a, l, t)
<1>1. Scroll(a, amount) = b
  BY DEF ShownScrolled, Scroll, ScrollMessages, Fine, Shape, Views, ViewFields
<1> HIDE DEF l, t
<1>2. Fine(b) /\ b.model = a.model /\ b.vm = a.vm /\ b.radio = a.radio
  BY FineScrolled
<1> HIDE DEF b
<1>3. Outcome(a, b)
  <2>1. Exclusive(b) /\ OneCloses(a.vm, b.vm)
    BY <1>2 DEF Exclusive, OneCloses
  <2>2. b.model.info = a.model.info /\ b.vm.lastFailed = a.vm.lastFailed
    BY <1>2
  <2>3. QED
    BY <1>2, <2>1, <2>2, OutcomeOfVm
<1>4. QED
  BY <1>1, <1>3

LEMMA CancelOutcome ==
    ASSUME NEW a, Fine(a), Exclusive(a)
    PROVE  Outcome(a, CancelCompose(a)) /\ CancelCompose(a).vm = [a.vm EXCEPT !.compose = FALSE]
           /\ CancelCompose(a).model.info = a.model.info /\ CancelCompose(a).radio = a.radio
<1> DEFINE d == ClearDraft(a)
           b == PutCompose(d, FALSE)
<1>1. Fine(d) /\ OnlyDraft(a, d)
  BY Cleared
<1>2. d.model.info = a.model.info /\ d.radio = a.radio /\ d.vm = a.vm
  BY <1>1, FieldsOf DEF OnlyDraft, Models
<1> HIDE DEF d
<1>3. Fine(b) /\ b.model = d.model /\ b.radio = d.radio /\ b.vm = [d.vm EXCEPT !.compose = FALSE]
  BY <1>1, FineCompose
<1> HIDE DEF b
<1>4. /\ b.vm.dialog = a.vm.dialog /\ b.vm.compose = FALSE /\ b.vm.section = a.vm.section
      /\ b.vm.lastFailed = a.vm.lastFailed /\ b.vm.help = a.vm.help
  BY <1>2, <1>3, FieldsOf DEF Vms
<1>5. Outcome(a, b)
  BY <1>2, <1>3, <1>4, OutcomeOfVm DEF Exclusive, OneCloses
<1>6. QED
  BY <1>2, <1>3, <1>5 DEF b, d, CancelCompose

LEMMA OpenOutcome ==
    ASSUME NEW a, Fine(a), Exclusive(a), ~a.vm.dialog, NEW first \in Chars \union {NoChar}
    PROVE  Outcome(a, OpenCompose(a, first))
<1> DEFINE d == BeginCompose(a, first)
           b == PutCompose(d, TRUE)
<1>1. Fine(d) /\ OnlyDraft(a, d)
  BY Begun
<1>2. d.model.info = a.model.info /\ d.radio = a.radio /\ d.vm = a.vm
  BY <1>1, FieldsOf DEF OnlyDraft, Models
<1> HIDE DEF d
<1>3. Fine(b) /\ b.model = d.model /\ b.radio = d.radio /\ b.vm = [d.vm EXCEPT !.compose = TRUE]
  BY <1>1, FineCompose
<1> HIDE DEF b
<1>4. /\ b.vm.dialog = a.vm.dialog /\ b.vm.compose = TRUE /\ b.vm.section = a.vm.section
      /\ b.vm.lastFailed = a.vm.lastFailed /\ b.vm.help = a.vm.help
  BY <1>2, <1>3, FieldsOf DEF Vms
<1>5. Outcome(a, b)
  BY <1>2, <1>3, <1>4, OutcomeOfVm DEF Exclusive, OneCloses
<1>6. QED
  BY <1>5 DEF b, d, OpenCompose

LEMMA PostedIs ==
    ASSUME NEW a, Fine(a), NEW command \in {"send", "retry"}
    PROVE  /\ Fine(Post(a, command)) /\ Post(a, command).model = a.model /\ Post(a, command).vm = a.vm
           /\ Post(a, command).radio.events = a.radio.events
           /\ Post(a, command).radio.commands = Append(a.radio.commands, command)
<1> DEFINE r == [a.radio EXCEPT !.commands = Append(a.radio.commands, command)]
           b == [a EXCEPT !.radio = r]
<1>1. Radios(a.radio)
  BY FieldsOf
<1>2. Append(a.radio.commands, command) \in Seq({"send", "retry"})
  BY <1>1 DEF Radios
<1>3. /\ Radios(r) /\ r.events = a.radio.events
      /\ r.commands = Append(a.radio.commands, command)
  BY <1>1, <1>2 DEF Radios, RadioFields
<1>4. Post(a, command) = b
  BY DEF Post
<1> HIDE DEF r
<1>5. Fine(b) /\ b.model = a.model /\ b.vm = a.vm /\ b.radio = r
  BY <1>3, FineRadio
<1>6. QED
  BY <1>3, <1>4, <1>5

LEMMA Drafted ==
    ASSUME NEW a, Fine(a)
    PROVE  /\ Fine(SendDraft(a)) /\ SendDraft(a).vm = a.vm /\ SendDraft(a).model.info = a.model.info
           /\ SendDraft(a).radio.events = a.radio.events
           /\ Refusal(a) # "" => OnlyDraft(a, SendDraft(a))
<1>1. Refusal(a) \in Statuses
  BY DEF Refusal, Statuses
<1>2. CASE Refusal(a) # ""
  <2> DEFINE b == PutStatus(a, Refusal(a))
  <2>1. Fine(b) /\ OnlyDraft(a, b)
    BY <1>1, StatusOnly
  <2>2. SendDraft(a) = b
    BY <1>2 DEF SendDraft
  <2> HIDE DEF b
  <2>3. QED
    BY <2>1, <2>2, FieldsOf DEF OnlyDraft, Models
<1>3. CASE Refusal(a) = ""
  <2> DEFINE p == Post(a, "send")
             b == ClearDraft(p)
  <2>1. Fine(p) /\ p.model = a.model /\ p.vm = a.vm /\ p.radio.events = a.radio.events
    BY PostedIs
  <2> HIDE DEF p
  <2>3. Fine(b) /\ OnlyDraft(p, b)
    BY <2>1, Cleared
  <2>4. SendDraft(a) = b
    BY <1>3 DEF SendDraft, p
  <2> HIDE DEF b
  <2>5. b.vm = p.vm /\ b.radio = p.radio /\ b.model.info = p.model.info
    BY <2>1, <2>3, FieldsOf DEF OnlyDraft, Models
  <2>6. QED
    BY <1>3, <2>1, <2>3, <2>4, <2>5
<1>4. QED
  BY <1>2, <1>3

LEMMA SendOutcome ==
    ASSUME NEW a, Fine(a), Exclusive(a), a.vm.compose PROVE Outcome(a, SendCompose(a))
<1> DEFINE d == SendDraft(a)
           s == PutSection(d, "Messages")
           l == ScrollToBottom(s.view.list)
           t == Shown(s, [s.view EXCEPT !.list = l])
           b == PutCompose(t, FALSE)
<1>1. /\ Fine(d) /\ d.vm = a.vm /\ d.model.info = a.model.info /\ d.radio.events = a.radio.events
      /\ Refusal(a) # "" => OnlyDraft(a, d)
  BY Drafted
<1> HIDE DEF d
<1>2. CASE Refusal(a) # ""
  <2>1. SendCompose(a) = d
    BY <1>2 DEF SendCompose, d
  <2>2. QED
    BY <1>1, <1>2, <2>1, OutcomeOfDraft
<1>3. CASE Refusal(a) = ""
  <2>1. Fine(s) /\ s.model = d.model /\ s.radio = d.radio /\ s.vm = [d.vm EXCEPT !.section = "Messages"]
    BY <1>1, FineSection
  <2> HIDE DEF s
  <2>2. SendCompose(a) = b
    BY <1>3, <2>1 DEF SendCompose, ScrollMessagesToBottom, s, d
  <2> HIDE DEF l
  <2>3. Fine(t) /\ t.model = s.model /\ t.vm = s.vm /\ t.radio = s.radio
    BY <2>1, FineList
  <2> HIDE DEF t
  <2>4. Fine(b) /\ b.model = t.model /\ b.radio = t.radio /\ b.vm = [t.vm EXCEPT !.compose = FALSE]
    BY <2>3, FineCompose
  <2> HIDE DEF b
  <2>5. /\ b.vm.dialog = a.vm.dialog /\ b.vm.compose = FALSE /\ b.vm.help = a.vm.help
        /\ b.vm.lastFailed = a.vm.lastFailed
    <3>1. b.vm = [[a.vm EXCEPT !.section = "Messages"] EXCEPT !.compose = FALSE] /\ a.vm \in Vms
      BY <1>1, <2>1, <2>3, <2>4, FieldsOf
    <3>2. QED
      BY <3>1 DEF Vms
  <2>6. ~a.vm.dialog
    BY DEF Exclusive
  <2>7. Outcome(a, b)
    BY <1>1, <2>1, <2>3, <2>4, <2>5, <2>6 DEF Outcome, Untold, Exclusive, OneCloses
  <2>8. QED
    BY <2>2, <2>7
<1>4. QED
  BY <1>2, <1>3

-----------------------------------------------------------------------------
(* A retry.                                                                *)

LEMMA RetryInfos ==
    ASSUME NEW info \in Infos
    PROVE  /\ RetryShown(info) \in Infos /\ ~Failed(RetryShown(info)) /\ ~RetryShown(info).ready
           /\ RetryFailed(RetryShown(info)) \in Infos /\ ~Failed(RetryFailed(RetryShown(info)))
           /\ ~RetryFailed(RetryShown(info)).ready
<1> DEFINE shown == RetryShown(info)
<1>1. /\ shown \in Infos /\ shown.state = "Initializing" /\ ~shown.ready /\ ~shown.initFailed
  BY DEF RetryShown, Infos, UiStates, Texts
<1>2. ~Failed(shown)
  BY <1>1 DEF Failed
<1> HIDE DEF shown
<1>3. /\ RetryFailed(shown) \in Infos /\ ~RetryFailed(shown).ready /\ ~RetryFailed(shown).initFailed
  BY <1>1 DEF RetryFailed, Infos, UiStates, Texts
<1>4. QED
  BY <1>1, <1>2, <1>3 DEF Failed, shown

\* What a retry makes of the model, whether it reaches the worker or not.
RetriedModel(a, b) ==
    /\ Fine(b) /\ b.vm = a.vm /\ ~Failed(b.model.info) /\ ~b.model.info.ready
    /\ b.radio.events \in {a.radio.events, <<>>} /\ NoneSent(a, b)

LEMMA ModelRetried == ASSUME NEW a, Fine(a), NEW starts PROVE RetriedModel(a, ModelRetryRadio(a, starts))
<1> DEFINE i == RetryShown(a.model.info)
           p == PutInfo(a, i)
<1>1. i \in Infos /\ ~Failed(i) /\ ~i.ready
  BY FieldsOf, RetryInfos
<1>2. RetryFailed(i) \in Infos /\ ~Failed(RetryFailed(i)) /\ ~RetryFailed(i).ready
  BY FieldsOf, RetryInfos
<1>3. i = RetryShown(a.model.info)
  OBVIOUS
<1> HIDE DEF i
<1>4. Fine(p) /\ p.vm = a.vm /\ p.radio = a.radio /\ p.model.info = i
  BY <1>1, FineInfo
<1>5. ModelRetryRadio(a, starts) =
          IF ~RetryReaches(a, starts) THEN PutInfo(PutStatus(p, "refused"), RetryFailed(p.model.info))
          ELSE IF a.radio.running THEN Post(p, "retry") ELSE [p EXCEPT !.radio = FreshRadio]
  BY <1>3 DEF ModelRetryRadio
<1> HIDE DEF p
<1>6. CASE ~RetryReaches(a, starts)
  <2> DEFINE q == PutStatus(p, "refused")
             b == PutInfo(q, RetryFailed(i))
  <2>1. Fine(q) /\ OnlyDraft(p, q)
    BY <1>4, StatusOnly DEF Statuses
  <2> HIDE DEF q
  <2>2. Fine(b) /\ b.vm = q.vm /\ b.radio = q.radio /\ b.model.info = RetryFailed(i)
    BY <1>2, <2>1, FineInfo
  <2>3. ModelRetryRadio(a, starts) = b
    BY <1>4, <1>5, <1>6 DEF q
  <2> HIDE DEF b
  <2>4. QED
    BY <1>2, <1>4, <2>1, <2>2, <2>3 DEF RetriedModel, NoneSent, OnlyDraft
<1>7. CASE RetryReaches(a, starts) /\ a.radio.running
  <2> DEFINE b == Post(p, "retry")
  <2>1. /\ Fine(b) /\ b.model = p.model /\ b.vm = p.vm /\ b.radio.events = p.radio.events
        /\ b.radio.commands = Append(p.radio.commands, "retry")
    BY <1>4, PostedIs
  <2>3. ModelRetryRadio(a, starts) = b
    BY <1>5, <1>7
  <2> HIDE DEF b
  <2>4. QED
    BY <1>1, <1>4, <2>1, <2>3 DEF RetriedModel, NoneSent
<1>8. CASE RetryReaches(a, starts) /\ ~a.radio.running
  <2> DEFINE b == [p EXCEPT !.radio = FreshRadio]
  <2>1. Radios(FreshRadio) /\ FreshRadio.events = <<>> /\ FreshRadio.commands = <<>>
    BY DEF FreshRadio, Radios, RadioFields
  <2>2. Fine(b) /\ b.model = p.model /\ b.vm = p.vm /\ b.radio = FreshRadio
    BY <1>4, <2>1, FineRadio
  <2>3. ModelRetryRadio(a, starts) = b
    BY <1>5, <1>8
  <2> HIDE DEF b
  <2>4. QED
    BY <1>1, <1>4, <2>1, <2>2, <2>3 DEF RetriedModel, NoneSent
<1>9. QED
  BY <1>6, <1>7, <1>8

LEMMA RetryOutcome ==
    ASSUME NEW a, Fine(a), Exclusive(a), ~a.vm.compose, a.vm.section = "Info", NEW starts \in BOOLEAN
    PROVE  Outcome(a, RetryRadio(a, starts))
<1> DEFINE w == [a.vm EXCEPT !.lastFailed = FALSE]
           f == [a EXCEPT !.vm = w]
           m == ModelRetryRadio(f, starts)
           on == ~RetryReaches(a, starts)
           b == PutDialog(m, on)
<1>1. /\ w \in Vms /\ w.compose = a.vm.compose /\ w.dialog = a.vm.dialog /\ w.help = a.vm.help
      /\ w.section = a.vm.section /\ w.lastFailed = FALSE
  BY FieldsOf DEF Vms
<1>2. ForgetFailure(a) = f
  BY DEF ForgetFailure
<1> HIDE DEF w
<1>3. Fine(f) /\ f.model = a.model /\ f.vm = w /\ f.radio = a.radio
  BY <1>1, FineMemory
<1> HIDE DEF f
<1>4. RetriedModel(f, m)
  BY <1>3, ModelRetried
<1> HIDE DEF m
<1>5. on \in BOOLEAN
  BY FieldsOf DEF RetryReaches, Accepts, Radios
<1> HIDE DEF on
<1>6. Fine(b) /\ b.model = m.model /\ b.radio = m.radio /\ b.vm = [m.vm EXCEPT !.dialog = on]
  BY <1>4, <1>5, FineDialog DEF RetriedModel
<1> HIDE DEF b
<1>7. m.vm = w
  BY <1>3, <1>4 DEF RetriedModel
<1>8. /\ b.vm.compose = a.vm.compose /\ b.vm.help = a.vm.help /\ b.vm.section = a.vm.section
      /\ b.vm.lastFailed = FALSE
  BY <1>1, <1>6, <1>7 DEF Vms
<1>9. Outcome(a, b)
  BY <1>3, <1>4, <1>6, <1>8 DEF Outcome, Retried, RetriedModel, NoneSent, Exclusive, OneCloses
<1>10. RetryRadio(a, starts) = b
  BY <1>2 DEF RetryRadio, b, m, on
<1>11. QED
  BY <1>9, <1>10

-----------------------------------------------------------------------------
(* Keys.                                                                   *)

LEMMA DismissOutcome ==
    ASSUME NEW a, Fine(a), Exclusive(a) PROVE Outcome(a, PutDialog(a, FALSE))
<1> DEFINE b == PutDialog(a, FALSE)
<1>1. Fine(b) /\ b.model = a.model /\ b.radio = a.radio /\ b.vm = [a.vm EXCEPT !.dialog = FALSE]
  BY FineDialog
<1> HIDE DEF b
<1>2. /\ b.vm.dialog = FALSE /\ b.vm.compose = a.vm.compose /\ b.vm.section = a.vm.section
      /\ b.vm.lastFailed = a.vm.lastFailed /\ b.vm.help = a.vm.help
  BY <1>1, FieldsOf DEF Vms
<1>3. Outcome(a, b)
  BY <1>1, <1>2, OutcomeOfVm DEF Exclusive, OneCloses
<1>4. QED
  BY <1>3 DEF b

LEMMA DialogKeyOutcome ==
    ASSUME NEW a, Fine(a), Exclusive(a), a.vm.dialog, NEW key, NEW starts \in BOOLEAN
    PROVE  Outcome(a, DialogKey(a, key, starts))
<1>1. Outcome(a, PutDialog(a, FALSE))
  BY DismissOutcome
<1>2. Outcome(a, RetryRadio(a, starts))
  BY RetryOutcome DEF Exclusive
<1>3. Outcome(a, a)
  BY OutcomeOfNothing
<1>4. QED
  BY <1>1, <1>2, <1>3 DEF DialogKey

LEMMA ComposeKeyOutcome ==
    ASSUME NEW a, Fine(a), Exclusive(a), a.vm.compose, NEW key
    PROVE  Outcome(a, ComposeKey(a, key))
<1>1. Outcome(a, CancelCompose(a))
  BY CancelOutcome
<1>2. Outcome(a, EraseDraftCharacter(a))
  <2>1. Fine(EraseDraftCharacter(a)) /\ OnlyDraft(a, EraseDraftCharacter(a))
    BY CharErased
  <2>2. QED
    BY <2>1, OutcomeOfDraft
<1>3. Outcome(a, SendCompose(a))
  BY SendOutcome
<1>4. ASSUME key \in Chars PROVE Outcome(a, AppendDraft(a, key))
  <2>1. Fine(AppendDraft(a, key)) /\ OnlyDraft(a, AppendDraft(a, key))
    BY <1>4, CharAdded
  <2>2. QED
    BY <2>1, OutcomeOfDraft
<1>5. Outcome(a, a)
  BY OutcomeOfNothing
<1>6. QED
  BY <1>1, <1>2, <1>3, <1>4, <1>5 DEF ComposeKey

LEMMA PageKeyOutcome ==
    ASSUME NEW a, Fine(a), Exclusive(a), ~a.vm.compose, ~a.vm.dialog, NEW key, NEW starts \in BOOLEAN
    PROVE  Outcome(a, PageKey(a, key, starts))
<1>1. ASSUME a.vm.section # "Messages" PROVE Outcome(a, RetryRadio(a, starts))
  <2>1. a.vm.section = "Info"
    BY <1>1, FieldsOf
  <2>2. QED
    BY <2>1, RetryOutcome
<1>2. Outcome(a, PutSection(a, "Messages")) /\ Outcome(a, PutSection(a, "Info"))
  BY SectionOutcome
<1>3. Outcome(a, Scroll(a, ScrollStep)) /\ Outcome(a, Scroll(a, -ScrollStep))
  BY ScrollOutcome
<1>4. Outcome(a, OpenCompose(a, NoChar))
  BY OpenOutcome
<1>5. ASSUME key \in Chars PROVE Outcome(a, OpenCompose(a, key))
  BY <1>5, OpenOutcome
<1>6. Outcome(a, a)
  BY OutcomeOfNothing
<1>7. QED
  BY <1>1, <1>2, <1>3, <1>4, <1>5, <1>6 DEF PageKey

\* The view model's answer to a key, whatever is open.
LEMMA VmKeyOutcome ==
    ASSUME NEW a, Fine(a), Exclusive(a), NEW key, NEW starts \in BOOLEAN
    PROVE  Outcome(a, VmOnKey(a, key, starts))
<1>1. Outcome(a, PutHelp(a, ~a.vm.help)) /\ Outcome(a, PutHelp(a, FALSE))
  BY HelpOutcome, FieldsOf
<1>2. ASSUME Overlay(a.vm) = "dialog" PROVE Outcome(a, DialogKey(a, key, starts))
  <2>1. a.vm.dialog
    BY <1>2 DEF Overlay
  <2>2. QED
    BY <2>1, DialogKeyOutcome
<1>3. ASSUME Overlay(a.vm) = "compose" PROVE Outcome(a, ComposeKey(a, key))
  <2>1. a.vm.compose
    BY <1>3 DEF Overlay
  <2>2. QED
    BY <2>1, ComposeKeyOutcome
<1>4. ASSUME Overlay(a.vm) = "page" PROVE Outcome(a, PageKey(a, key, starts))
  <2>1. ~a.vm.dialog /\ ~a.vm.compose
    BY <1>4 DEF Overlay
  <2>2. QED
    BY <2>1, PageKeyOutcome
<1>5. Outcome(a, a)
  BY OutcomeOfNothing
<1>6. Overlay(a.vm) \in {"help", "dialog", "compose", "page"}
  BY DEF Overlay
<1>7. QED
  BY <1>1, <1>2, <1>3, <1>4, <1>5, <1>6 DEF VmOnKey

LEMMA KeyOutcome ==
    ASSUME NEW a, Fine(a), Exclusive(a), NEW key, NEW starts \in BOOLEAN
    PROVE  Outcome(a, OnLvglKeyState(a, key, starts))
<1>1. Outcome(a, TextInput(a, key))
  <2>1. Fine(TextInput(a, key)) /\ OnlyDraft(a, TextInput(a, key))
    BY KeyIntoText
  <2>2. QED
    BY <2>1, OutcomeOfDraft
<1>2. Outcome(a, VmOnKey(a, Routed(a, key), starts))
  BY VmKeyOutcome
<1>3. Outcome(a, a)
  BY OutcomeOfNothing
<1>4. QED
  BY <1>1, <1>2, <1>3 DEF OnLvglKeyState

\* Under the help a key changes the help or the draft in the text area behind it.
UnderHelp(a, b) ==
    /\ b.vm = [a.vm EXCEPT !.help = b.vm.help] /\ b.radio = a.radio
    /\ b.model = [a.model EXCEPT !.draft = b.model.draft, !.status = b.model.status]

LEMMA HelpHolds ==
    ASSUME NEW a, Fine(a), a.vm.help, NEW key, NEW starts
    PROVE  UnderHelp(a, OnLvglKeyState(a, key, starts))
<1>1. UnderHelp(a, a)
  BY FieldsOf DEF UnderHelp, Models, Vms
<1>2. ASSUME NEW on \in BOOLEAN PROVE UnderHelp(a, PutHelp(a, on))
  <2> DEFINE b == PutHelp(a, on)
  <2>1. b.model = a.model /\ b.radio = a.radio /\ b.vm = [a.vm EXCEPT !.help = on]
    BY FineHelp
  <2> HIDE DEF b
  <2>2. UnderHelp(a, b)
    BY <2>1, FieldsOf DEF UnderHelp, Models, Vms
  <2>3. QED
    BY <2>2 DEF b
<1>3. UnderHelp(a, TextInput(a, key))
  <2> DEFINE b == TextInput(a, key)
  <2>1. Fine(b) /\ OnlyDraft(a, b)
    BY KeyIntoText
  <2> HIDE DEF b
  <2>2. UnderHelp(a, b)
    BY <2>1, FieldsOf DEF UnderHelp, OnlyDraft, Vms
  <2>3. QED
    BY <2>2 DEF b
<1>4. Overlay(a.vm) = "help"
  <2>1. a.vm.help = TRUE
    BY FieldsOf
  <2>2. QED
    BY <2>1 DEF Overlay
<1>5. UnderHelp(a, VmOnKey(a, Routed(a, key), starts))
  BY <1>1, <1>2, <1>4, FieldsOf DEF VmOnKey
<1>6. QED
  BY <1>1, <1>3, <1>5 DEF OnLvglKeyState

-----------------------------------------------------------------------------
(* The events of a tick, one after the other.                              *)

LEMMA InfoAfter ==
    ASSUME NEW info \in Infos, NEW e \in Happenings
    PROVE  /\ UiAfter(info, e) \in Infos
           /\ e.kind = "Initializing" => ~UiAfter(info, e).ready
           /\ (Failed(info) => ~info.ready) /\ (e.kind = "InitializeError" => ~info.ready)
                  => (Failed(UiAfter(info, e)) => ~UiAfter(info, e).ready)
<1> DEFINE k == e.kind
           u == UiAfter(info, e)
<1>1. k \in EventKinds
  BY DEF Happenings
<1>2. /\ info.state \in UiStates /\ info.ready \in BOOLEAN /\ info.initFailed \in BOOLEAN
      /\ info.text \in Texts /\ info.dropped \in Nat
  BY DEF Infos
<1>3. CASE k \in StateKinds
  <2> DEFINE t == TextAfterState(info, k)
             s == UiState(k)
             y == k \in {"Idle", "Receiving", "Sending"}
             f == info.initFailed /\ k \in {"Error", "Stopping", "Stopped"}
  <2>1. u = [info EXCEPT !.state = s, !.ready = y,
                         !.initFailed = @ /\ k \in {"Error", "Stopping", "Stopped"}, !.text = t]
    BY <1>3 DEF UiAfter, StateKinds
  <2>2. s \in UiStates /\ t \in Texts /\ y \in BOOLEAN /\ f \in BOOLEAN /\ ~(y /\ f)
    BY <1>2, <1>3 DEF UiState, UiStates, StateKinds, TextAfterState, Texts
  <2>3. u = [info EXCEPT !.state = s, !.ready = y, !.initFailed = f, !.text = t]
    BY <2>1
  <2>4. y => k # "Initializing"
    OBVIOUS
  <2> HIDE DEF s, t, y, f, u
  <2>5. u \in Infos /\ u.ready = y /\ u.initFailed = f
    BY <1>2, <2>2, <2>3 DEF Infos
  <2>6. Failed(u) => ~u.ready
    BY <2>2, <2>5 DEF Failed
  <2>7. QED
    BY <2>4, <2>5, <2>6 DEF u
<1>4. CASE k \notin StateKinds
  <2>1. k # "Initializing"
    BY <1>4 DEF StateKinds
  <2>2. CASE k = "Initialized"
    <3>1. u = [[[info EXCEPT !.ready = TRUE] EXCEPT !.initFailed = FALSE] EXCEPT !.text = "plain"]
      BY <2>2 DEF UiAfter, StateKinds, Infos
    <3>2. u \in Infos /\ u.initFailed = FALSE
      BY <1>2, <3>1 DEF Infos, Texts
    <3>3. QED
      BY <2>1, <3>2 DEF Failed
  <2>3. CASE k = "InitializeError"
    <3>1. u = [[info EXCEPT !.initFailed = TRUE] EXCEPT !.text = "error"]
      BY <2>3 DEF UiAfter, StateKinds, Infos
    <3>2. u \in Infos /\ u.ready = info.ready
      BY <1>2, <3>1 DEF Infos, Texts
    <3>3. QED
      BY <2>1, <2>3, <3>2 DEF Failed
  <2>4. CASE k = "OtherError"
    <3>1. u = [[info EXCEPT !.initFailed = FALSE] EXCEPT !.text = "error"]
      BY <2>4 DEF UiAfter, StateKinds, Infos
    <3>2. u \in Infos /\ u.initFailed = FALSE
      BY <1>2, <3>1 DEF Infos, Texts
    <3>3. QED
      BY <2>1, <3>2 DEF Failed
  <2>5. CASE k = "TxStarted"
    <3>1. u = [[[info EXCEPT !.state = "Sending"] EXCEPT !.ready = TRUE] EXCEPT !.text = "plain"]
      BY <2>5 DEF UiAfter, StateKinds, Infos
    <3>2. u \in Infos /\ u.state = "Sending"
      BY <1>2, <3>1 DEF Infos, Texts, UiStates
    <3>3. QED
      BY <2>1, <3>2 DEF Failed
  <2>6. CASE k \notin {"Initialized", "InitializeError", "OtherError", "TxStarted"}
    <3>1. u \in {[info EXCEPT !.text = "sendFailed"], [info EXCEPT !.text = "plain"]}
      BY <1>4, <2>6 DEF UiAfter
    <3>2. u \in Infos /\ u.state = info.state /\ u.initFailed = info.initFailed /\ u.ready = info.ready
      BY <1>2, <3>1 DEF Infos, Texts
    <3>3. QED
      BY <2>1, <3>2 DEF Failed
  <2>7. QED
    BY <2>2, <2>3, <2>4, <2>5, <2>6
<1>5. QED
  BY <1>3, <1>4

LEMMA EventTaken ==
    ASSUME NEW a, Fine(a), NEW e \in Happenings
    PROVE  /\ Fine(TakeEvent(a, e)) /\ TakeEvent(a, e).vm = a.vm /\ TakeEvent(a, e).radio = a.radio
           /\ TakeEvent(a, e).model.info = UiAfter(a.model.info, e)
<1> DEFINE i == UiAfter(a.model.info, e)
           b == PutInfo(a, i)
<1>1. i \in Infos
  BY FieldsOf, InfoAfter
<1>2. i = UiAfter(a.model.info, e)
  OBVIOUS
<1> HIDE DEF i
<1>3. Fine(b) /\ b.vm = a.vm /\ b.radio = a.radio /\ b.model.info = i
  BY <1>1, FineInfo
<1>4. TakeEvent(a, e) = b \/ TakeEvent(a, e) = AppendMessage(b)
  BY <1>2 DEF TakeEvent
<1> HIDE DEF b
<1>5. /\ Fine(AppendMessage(b)) /\ AppendMessage(b).vm = b.vm /\ AppendMessage(b).radio = b.radio
      /\ AppendMessage(b).model.info = b.model.info
  BY <1>3, FineAppended
<1>6. QED
  BY <1>2, <1>3, <1>4, <1>5

\* What is told of a failed initialization comes when the radio is not shown
\* as ready.
Cautious(info, q) ==
    \A k \in DOMAIN q : q[k].kind = "InitializeError" =>
        IF k = 1 THEN ~info.ready ELSE q[k - 1].kind = "Initializing"

LEMMA SmallestOf ==
    ASSUME NEW T, T \subseteq Nat, T # {}
    PROVE  \E m \in T : \A n \in T : m <= n
<1>1. \E m \in T : \A n \in T : <<n, m>> \notin OpToRel(<, Nat)
  BY WFMin, NatLessThanWellFounded
<1>2. ASSUME NEW n \in Nat, NEW m \in Nat, ~(<<n, m>> \in OpToRel(<, Nat)) PROVE m <= n
  <2>1. <<n, m>> \in Nat \X Nat
    OBVIOUS
  <2>2. ~(<<n, m>>[1] < <<n, m>>[2])
    BY <1>2, <2>1 DEF OpToRel
  <2>3. QED
    BY <2>2
<1>3. QED
  BY <1>1, <1>2

LEMMA CountingUp ==
    ASSUME NEW S, NEW m \in Nat, 0 \in S, \A n \in 0 .. m - 1 : n \in S => n + 1 \in S
    PROVE  \A n \in 0 .. m : n \in S
<1> DEFINE T == (0 .. m) \ S
<1> SUFFICES ASSUME T # {} PROVE FALSE
  OBVIOUS
<1>1. PICK least \in T : \A n \in T : least <= n
  <2>1. T \subseteq Nat
    OBVIOUS
  <2> HIDE DEF T
  <2>2. QED
    BY <2>1, SmallestOf
<1>2. least - 1 \in 0 .. m - 1 /\ least - 1 \in S
  BY <1>1
<1>3. QED
  BY <1>1, <1>2

\* The fold of a tick, over the sets of the first m events of q.
FoldsOver(g, start, q, m) ==
    g = [s \in SUBSET (1 .. m) |-> IF s = {} THEN start ELSE TakeEvent(g[s \ {Max(s)}], q[Max(s)])]

LEMMA MaxIs == ASSUME NEW m \in Nat, NEW s \in SUBSET (1 .. m), m \in s PROVE Max(s) = m
<1>1. \E x \in s : \A y \in s : x >= y
  <2>1. \A y \in s : m >= y
    OBVIOUS
  <2>2. QED
    BY <2>1
<1>2. Max(s) \in s /\ \A y \in s : Max(s) >= y
  BY <1>1 DEF Max
<1> DEFINE x == Max(s)
<1> HIDE DEF x
<1>3. x \in 1 .. m /\ x >= m
  BY <1>2 DEF x
<1>4. x = m
  BY <1>3
<1>5. QED
  BY <1>4 DEF x

LEMMA FoldExists == ASSUME NEW start, NEW q, NEW m \in Nat PROVE \E g : FoldsOver(g, start, q, m)
<1> DEFINE S == {k \in Nat : \E g : FoldsOver(g, start, q, k)}
<1>1. 0 \in S
  <2>1. FoldsOver([s \in SUBSET (1 .. 0) |-> start], start, q, 0)
    <3>1. SUBSET (1 .. 0) = {{}}
      OBVIOUS
    <3>2. QED
      BY <3>1 DEF FoldsOver
  <2>2. QED
    BY <2>1
<1>2. ASSUME NEW k \in 0 .. m - 1, k \in S PROVE k + 1 \in S
  <2>1. PICK g : FoldsOver(g, start, q, k)
    BY <1>2
  <2> DEFINE h == [s \in SUBSET (1 .. k + 1) |-> IF k + 1 \in s THEN TakeEvent(g[s \ {k + 1}], q[k + 1])
                                                ELSE g[s]]
  <2>2. \A s \in SUBSET (1 .. k + 1) :
            h[s] = IF s = {} THEN start ELSE TakeEvent(h[s \ {Max(s)}], q[Max(s)])
    <3> TAKE s \in SUBSET (1 .. k + 1)
    <3>1. CASE k + 1 \in s
      <4>1. Max(s) = k + 1
        BY <3>1, MaxIs
      <4>2. s \ {k + 1} \in SUBSET (1 .. k + 1) /\ k + 1 \notin s \ {k + 1}
        OBVIOUS
      <4>3. h[s \ {k + 1}] = g[s \ {k + 1}]
        BY <4>2
      <4>4. h[s] = TakeEvent(g[s \ {k + 1}], q[k + 1]) /\ s # {}
        BY <3>1
      <4> HIDE DEF h
      <4>5. QED
        BY <4>1, <4>3, <4>4
    <3>2. CASE k + 1 \notin s
      <4>1. s \in SUBSET (1 .. k) /\ s \ {Max(s)} \in SUBSET (1 .. k + 1) /\ k + 1 \notin s \ {Max(s)}
        <5>1. \A y \in s : y \in 1 .. k
          BY <3>2
        <5>2. QED
          BY <3>2, <5>1
      <4>2. h[s] = g[s] /\ h[s \ {Max(s)}] = g[s \ {Max(s)}]
        BY <3>2, <4>1
      <4>3. g[s] = IF s = {} THEN start ELSE TakeEvent(g[s \ {Max(s)}], q[Max(s)])
        BY <2>1, <4>1 DEF FoldsOver
      <4> HIDE DEF h
      <4>4. QED
        BY <4>2, <4>3
    <3>3. QED
      BY <3>1, <3>2
  <2>3. FoldsOver(h, start, q, k + 1)
    <3>1. h = [s \in SUBSET (1 .. k + 1) |-> h[s]]
      OBVIOUS
    <3> HIDE DEF h
    <3>2. QED
      BY <2>2, <3>1 DEF FoldsOver
  <2>4. QED
    BY <2>3
<1> HIDE DEF S
<1>3. m \in S
  BY <1>1, <1>2, CountingUp
<1>4. QED
  BY <1>3 DEF S

\* The records a tick of n events goes through.
WithoutFirst(a, n) == [a EXCEPT !.radio.events = SubSeq(@, n + 1, Len(@))]

TickedThrough(r, a, n) ==
    /\ r[0] = WithoutFirst(a, n)
    /\ \A k \in 1 .. n : r[k] = TakeEvent(r[k - 1], a.radio.events[k])
    /\ ModelTick(a, n) = r[n]

LEMMA TickByTick ==
    ASSUME NEW a, a.radio.events \in Seq(Happenings), NEW n \in 0 .. Len(a.radio.events)
    PROVE  \E r : TickedThrough(r, a, n)
<1> DEFINE q == SubSeq(a.radio.events, 1, n)
           start == [a EXCEPT !.radio.events = SubSeq(@, n + 1, Len(@))]
           g == CHOOSE f : FoldsOver(f, start, q, n)
           r == [k \in 0 .. n |-> g[1 .. k]]
<1>1. n \in Nat /\ DOMAIN q = 1 .. n /\ \A k \in 1 .. n : q[k] = a.radio.events[k]
  OBVIOUS
<1>2. ModelTick(a, n) = (CHOOSE f : FoldsOver(f, start, q, n))[DOMAIN q]
  <2>1. ModelTick(a, n) =
            (CHOOSE f : f = [s \in SUBSET DOMAIN q |->
                                IF s = {} THEN start ELSE TakeEvent(f[s \ {Max(s)}], q[Max(s)])])[DOMAIN q]
    BY Zenon DEF ModelTick, FoldLeft, MapThenFoldSet
  <2> HIDE DEF q, start
  <2>2. QED
    BY <1>1, <2>1 DEF FoldsOver
<1> HIDE DEF q, start
<1>3. FoldsOver(g, start, q, n)
  <2>1. \E f : FoldsOver(f, start, q, n)
    BY <1>1, FoldExists
  <2>2. QED
    BY <2>1
<1>4. ModelTick(a, n) = g[1 .. n]
  BY <1>1, <1>2
<1> HIDE DEF g
<1>5. r[0] = start
  <2>1. 1 .. 0 = {} /\ {} \in SUBSET (1 .. n)
    OBVIOUS
  <2>2. g[{}] = start
    BY <1>3, <2>1 DEF FoldsOver
  <2>3. QED
    BY <1>1, <2>1, <2>2
<1>6. \A k \in 1 .. n : r[k] = TakeEvent(r[k - 1], a.radio.events[k])
  <2> TAKE k \in 1 .. n
  <2>1. 1 .. k \in SUBSET (1 .. n) /\ 1 .. k # {} /\ k \in 0 .. n /\ k - 1 \in 0 .. n
    <3>1. k \in 1 .. k /\ \A y \in 1 .. k : y \in 1 .. n
      BY <1>1
    <3>2. 1 .. k \in SUBSET (1 .. n) /\ 1 .. k # {}
      BY <3>1
    <3>3. QED
      BY <1>1, <3>2
  <2>2. Max(1 .. k) = k /\ (1 .. k) \ {k} = 1 .. k - 1
    BY MaxIs
  <2>3. g[1 .. k] = TakeEvent(g[1 .. k - 1], q[k])
    BY <1>3, <2>1, <2>2 DEF FoldsOver
  <2>4. QED
    BY <1>1, <2>1, <2>3
<1>7. r[n] = ModelTick(a, n)
  BY <1>1, <1>4
<1> HIDE DEF r
<1>8. QED
  BY <1>5, <1>6, <1>7 DEF start, TickedThrough, WithoutFirst

\* After the events of a tick the radio is shown as failed only if it is not ready.
Told(a) ==
    /\ Failed(a.model.info) => ~a.model.info.ready
    /\ Cautious(a.model.info, a.radio.events)

LEMMA FirstTaken ==
    ASSUME NEW a, Fine(a), Told(a), NEW n \in 0 .. Len(a.radio.events)
    PROVE  LET b == WithoutFirst(a, n)
           IN  /\ Fine(b) /\ b.vm = a.vm /\ b.model = a.model
               /\ b.radio.events = SubSeq(a.radio.events, n + 1, Len(a.radio.events))
<1> DEFINE q == SubSeq(a.radio.events, n + 1, Len(a.radio.events))
           s == [a.radio EXCEPT !.events = q]
           b == [a EXCEPT !.radio = s]
<1>1. Radios(a.radio)
  BY FieldsOf
<1>2. q \in Seq(Happenings)
  <2>1. a.radio.events \in Seq(Happenings) /\ n + 1 \in Nat
    BY <1>1 DEF Radios
  <2>2. QED
    BY <2>1
<1>3. WithoutFirst(a, n) = b
  BY DEF WithoutFirst
<1> HIDE DEF q
<1>4. Radios(s) /\ s.events = q
  BY <1>1, <1>2 DEF Radios, RadioFields
<1> HIDE DEF s
<1>5. Fine(b) /\ b.model = a.model /\ b.vm = a.vm /\ b.radio = s
  BY <1>4, FineRadio
<1> HIDE DEF b
<1>6. QED
  BY <1>3, <1>4, <1>5 DEF q

LEMMA RestIs ==
    ASSUME NEW q \in Seq(Happenings), NEW n \in 0 .. Len(q)
    PROVE  LET s == SubSeq(q, n + 1, Len(q))
           IN  DOMAIN s = 1 .. Len(q) - n /\ \A i \in 1 .. Len(q) - n : s[i] = q[n + i]
<1>1. Len(q) \in Nat /\ Len(SubSeq(q, n + 1, Len(q))) = Len(q) - n
  OBVIOUS
<1>2. \A i \in 1 .. Len(q) - n : SubSeq(q, n + 1, Len(q))[i] = q[n + i]
  <2> TAKE i \in 1 .. Len(q) - n
  <2>1. SubSeq(q, n + 1, Len(q))[i] = q[(n + 1) + i - 1] /\ (n + 1) + i - 1 = n + i
    BY <1>1
  <2>2. QED
    BY <2>1
<1>3. QED
  BY <1>1, <1>2

LEMMA ModelTicked ==
    ASSUME NEW a, Fine(a), Told(a), NEW n \in 0 .. Len(a.radio.events)
    PROVE  Fine(ModelTick(a, n)) /\ Told(ModelTick(a, n)) /\ ModelTick(a, n).vm = a.vm
<1> DEFINE q == a.radio.events
<1>1. q \in Seq(Happenings) /\ Len(q) \in Nat /\ \A k \in 1 .. Len(q) : q[k] \in Happenings
  <2>1. a.radio.events \in Seq(Happenings)
    BY FieldsOf DEF Radios
  <2> HIDE DEF q
  <2>2. q \in Seq(Happenings)
    BY <2>1 DEF q
  <2>3. QED
    BY <2>2
<1> HIDE DEF q
<1>0. PICK r : TickedThrough(r, a, n)
  <2>1. a.radio.events \in Seq(Happenings)
    BY <1>1 DEF q
  <2>2. QED
    BY <2>1, TickByTick
<1>2. /\ r[0] = WithoutFirst(a, n)
      /\ \A k \in 1 .. n : r[k] = TakeEvent(r[k - 1], q[k])
      /\ ModelTick(a, n) = r[n]
  BY <1>0 DEF TickedThrough, q
<1> USE DEF q
<1> DEFINE rest == SubSeq(q, n + 1, Len(q))
           Good(k) == /\ Fine(r[k]) /\ r[k].vm = a.vm /\ r[k].radio.events = rest
                      /\ Failed(r[k].model.info) => ~r[k].model.info.ready
                      /\ k < Len(q) /\ q[k + 1].kind = "InitializeError" => ~r[k].model.info.ready
           S == {k \in 0 .. n : Good(k)}
<1>3. /\ Failed(a.model.info) => ~a.model.info.ready
      /\ \A k \in 1 .. Len(q) : q[k].kind = "InitializeError" =>
             IF k = 1 THEN ~a.model.info.ready ELSE q[k - 1].kind = "Initializing"
  <2>1. Failed(a.model.info) => ~a.model.info.ready
    BY DEF Told
  <2>2. \A k \in DOMAIN q : q[k].kind = "InitializeError" =>
            IF k = 1 THEN ~a.model.info.ready ELSE q[k - 1].kind = "Initializing"
    BY DEF Told, Cautious
  <2> HIDE DEF q
  <2>3. DOMAIN q = 1 .. Len(q)
    BY <1>1
  <2>4. QED
    BY <2>1, <2>2, <2>3
<1>4. 0 \in S
  <2>1. Fine(r[0]) /\ r[0].vm = a.vm /\ r[0].model = a.model /\ r[0].radio.events = rest
    BY <1>2, FirstTaken
  <2>2. 0 < Len(q) /\ q[0 + 1].kind = "InitializeError" => ~a.model.info.ready
    BY <1>1, <1>3
  <2>3. 0 \in 0 .. n
    OBVIOUS
  <2> HIDE DEF q, rest
  <2>4. Good(0)
    BY <1>3, <2>1, <2>2
  <2>5. QED
    BY <2>3, <2>4
<1> HIDE DEF rest
<1>5. ASSUME NEW k \in 0 .. n - 1, k \in S PROVE k + 1 \in S
  <2>1. Good(k) /\ k + 1 \in 0 .. n /\ k + 1 \in 1 .. n /\ k + 1 \in 1 .. Len(q) /\ k \in Nat
    BY <1>1, <1>5
  <2> DEFINE x == r[k]
             e == q[k + 1]
             y == r[k + 1]
  <2>2. y = TakeEvent(x, e)
    <3>1. r[k + 1] = TakeEvent(r[(k + 1) - 1], q[k + 1]) /\ (k + 1) - 1 = k
      BY <1>2, <2>1
    <3>2. QED
      BY <3>1
  <2>3. e \in Happenings
    BY <1>1, <2>1
  <2>4. /\ Fine(x) /\ x.vm = a.vm /\ x.radio.events = rest
        /\ Failed(x.model.info) => ~x.model.info.ready
        /\ e.kind = "InitializeError" => ~x.model.info.ready
    <3>1. k < Len(q)
      BY <1>1, <2>1
    <3>2. QED
      BY <2>1, <3>1
  <2>5. k + 1 < Len(q) /\ q[(k + 1) + 1].kind = "InitializeError" => e.kind = "Initializing"
    <3> SUFFICES ASSUME k + 1 < Len(q), q[(k + 1) + 1].kind = "InitializeError"
                 PROVE  e.kind = "Initializing"
      OBVIOUS
    <3>1. (k + 1) + 1 \in 1 .. Len(q) /\ (k + 1) + 1 # 1 /\ ((k + 1) + 1) - 1 = k + 1
      BY <1>1, <2>1
    <3> DEFINE j == (k + 1) + 1
    <3>2. q[j - 1].kind = "Initializing"
      BY <1>3, <3>1
    <3>3. QED
      BY <3>1, <3>2
  <2> HIDE DEF x, e, y
  <2>6. /\ Fine(y) /\ y.vm = x.vm /\ y.radio = x.radio /\ y.model.info = UiAfter(x.model.info, e)
    BY <2>2, <2>3, <2>4, EventTaken
  <2>7. /\ e.kind = "Initializing" => ~y.model.info.ready
        /\ Failed(y.model.info) => ~y.model.info.ready
    <3>1. x.model.info \in Infos
      BY <2>4, FieldsOf
    <3>2. QED
      BY <2>3, <2>4, <2>6, <3>1, InfoAfter
  <2>8. /\ Fine(y) /\ y.vm = a.vm /\ y.radio.events = rest
        /\ Failed(y.model.info) => ~y.model.info.ready
        /\ k + 1 < Len(q) /\ q[(k + 1) + 1].kind = "InitializeError" => ~y.model.info.ready
    BY <2>4, <2>5, <2>6, <2>7
  <2>9. Good(k + 1)
    BY <2>8 DEF y
  <2>10. QED
    BY <2>1, <2>9
<1>6. Good(n)
  <2> HIDE DEF S
  <2>1. \A k \in 0 .. n : k \in S
    BY <1>4, <1>5, CountingUp
  <2>2. n \in S
    BY <2>1
  <2>3. QED
    BY <2>2 DEF S
<1>7. Cautious(r[n].model.info, rest)
  <2> SUFFICES ASSUME NEW j \in DOMAIN rest, rest[j].kind = "InitializeError"
               PROVE  IF j = 1 THEN ~r[n].model.info.ready ELSE rest[j - 1].kind = "Initializing"
    BY DEF Cautious
  <2>1. DOMAIN rest = 1 .. Len(q) - n /\ \A i \in 1 .. Len(q) - n : rest[i] = q[n + i]
    BY <1>1, RestIs DEF rest
  <2>2. j \in 1 .. Len(q) - n /\ n + j \in 1 .. Len(q) /\ rest[j] = q[n + j]
    BY <1>1, <2>1
  <2>3. CASE j = 1
    <3>1. n < Len(q) /\ q[n + 1].kind = "InitializeError"
      BY <1>1, <2>2, <2>3
    <3>2. QED
      BY <1>6, <2>3, <3>1
  <2>4. CASE j # 1
    <3> DEFINE m == n + j
    <3>1. j - 1 \in 1 .. Len(q) - n /\ n + (j - 1) = m - 1 /\ m # 1
      BY <1>1, <2>2, <2>4
    <3>2. q[m].kind = "InitializeError" /\ m \in 1 .. Len(q) /\ rest[j - 1] = q[m - 1]
      BY <2>1, <2>2, <3>1
    <3> HIDE DEF m
    <3>3. q[m - 1].kind = "Initializing"
      BY <1>3, <3>1, <3>2
    <3>4. QED
      BY <2>4, <3>2, <3>3
  <2>5. QED
    BY <2>3, <2>4
<1>8. QED
  BY <1>2, <1>6, <1>7 DEF Told

\* What the view model makes of the events: nothing that the radio is shown as
\* depends on it.
Follows(t, x) ==
    /\ Fine(x) /\ Exclusive(x) /\ x.model.info = t.model.info /\ x.radio = t.radio

LEMMA TurnedToInfo ==
    ASSUME NEW t, NEW x, Follows(t, x)
    PROVE  LET y == PutSection(x, "Info")
           IN  /\ Follows(t, y) /\ y.vm.dialog = x.vm.dialog /\ y.vm.compose = x.vm.compose
               /\ y.vm.section = "Info"
<1> DEFINE y == PutSection(x, "Info")
<1>1. Fine(x) /\ Exclusive(x) /\ x.model.info = t.model.info /\ x.radio = t.radio
  BY DEF Follows
<1>2. Fine(y) /\ y.model = x.model /\ y.radio = x.radio /\ y.vm = [x.vm EXCEPT !.section = "Info"]
  BY <1>1, FineSection
<1> HIDE DEF y
<1>3. y.vm.dialog = x.vm.dialog /\ y.vm.compose = x.vm.compose /\ y.vm.section = "Info"
  BY <1>1, <1>2, FieldsOf DEF Vms
<1>4. QED
  BY <1>1, <1>2, <1>3 DEF Follows, Exclusive, y

LEMMA EditorClosed ==
    ASSUME NEW t, NEW x, Follows(t, x)
    PROVE  LET y == IF x.vm.compose THEN CancelCompose(x) ELSE x
           IN  Follows(t, y) /\ ~y.vm.compose
<1>1. Fine(x) /\ Exclusive(x) /\ x.model.info = t.model.info /\ x.radio = t.radio
  BY DEF Follows
<1>2. CASE x.vm.compose
  <2> DEFINE y == CancelCompose(x)
  <2>1. /\ Outcome(x, y) /\ y.vm = [x.vm EXCEPT !.compose = FALSE]
        /\ y.model.info = x.model.info /\ y.radio = x.radio
    BY <1>1, CancelOutcome
  <2> HIDE DEF y
  <2>2. y.vm.compose = FALSE
    BY <1>1, <2>1, FieldsOf DEF Vms
  <2>3. Follows(t, y) /\ ~y.vm.compose
    BY <1>1, <2>1, <2>2 DEF Outcome, Follows
  <2>4. QED
    BY <1>2, <2>3 DEF y
<1>3. CASE ~x.vm.compose
  BY <1>3
<1>4. QED
  BY <1>2, <1>3

LEMMA FailureOpened ==
    ASSUME NEW t, NEW x, Follows(t, x), ~x.vm.compose
    PROVE  LET y == PutDialog(PutSection(x, "Info"), TRUE) IN Follows(t, y) /\ y.vm.dialog
<1> DEFINE s == PutSection(x, "Info")
           y == PutDialog(s, TRUE)
<1>1. Follows(t, s) /\ s.vm.compose = x.vm.compose /\ s.vm.section = "Info"
  BY TurnedToInfo
<1> HIDE DEF s
<1>2. Fine(s) /\ Exclusive(s) /\ s.model.info = t.model.info /\ s.radio = t.radio
  BY <1>1 DEF Follows
<1>3. Fine(y) /\ y.model = s.model /\ y.radio = s.radio /\ y.vm = [s.vm EXCEPT !.dialog = TRUE]
  BY <1>2, FineDialog
<1> HIDE DEF y
<1>4. y.vm.dialog = TRUE /\ y.vm.compose = s.vm.compose /\ y.vm.section = s.vm.section
  BY <1>2, <1>3, FieldsOf DEF Vms
<1>5. Follows(t, y) /\ y.vm.dialog
  BY <1>1, <1>2, <1>3, <1>4 DEF Follows, Exclusive
<1>6. QED
  BY <1>5 DEF y, s

LEMMA FailureClosed ==
    ASSUME NEW t, NEW x, Follows(t, x) PROVE Follows(t, PutDialog(x, FALSE))
<1> DEFINE y == PutDialog(x, FALSE)
<1>1. Fine(x) /\ Exclusive(x) /\ x.model.info = t.model.info /\ x.radio = t.radio
  BY DEF Follows
<1>2. Fine(y) /\ y.model = x.model /\ y.radio = x.radio /\ y.vm = [x.vm EXCEPT !.dialog = FALSE]
  BY <1>1, FineDialog
<1> HIDE DEF y
<1>3. y.vm.dialog = FALSE
  BY <1>1, <1>2, FieldsOf DEF Vms
<1>4. Follows(t, y)
  BY <1>1, <1>2, <1>3 DEF Follows, Exclusive
<1>5. QED
  BY <1>4 DEF y

\* A failure is announced when it is new; one that is not has been.
TickOutcome(a, b) ==
    /\ Fine(b) /\ Exclusive(b) /\ Told(b)
    /\ b.vm.lastFailed = Failed(b.model.info)
    /\ Failed(b.model.info) => b.vm.dialog \/ (a.vm.lastFailed /\ ~a.vm.dialog)

LEMMA VmTicked ==
    ASSUME NEW a, Fine(a), Exclusive(a), Told(a), NEW n \in 0 .. Len(a.radio.events)
    PROVE  TickOutcome(a, VmTick(a, n))
<1> DEFINE t      == ModelTick(a, n)
           info   == t.model.info
           broken == IF info.state = "Error" /\ a.vm.lastState # "Error" THEN PutSection(t, "Info") ELSE t
           closed == IF broken.vm.compose THEN CancelCompose(broken) ELSE broken
           opened == PutDialog(PutSection(closed, "Info"), TRUE)
           told   == IF Failed(info) /\ ~a.vm.lastFailed THEN opened ELSE broken
           calm   == IF info.ready /\ told.vm.dialog THEN PutDialog(told, FALSE) ELSE told
           w      == [calm.vm EXCEPT !.lastState = info.state, !.lastFailed = Failed(info)]
           b      == [calm EXCEPT !.vm = w]
<1>1. Fine(t) /\ Told(t) /\ t.vm = a.vm
  BY ModelTicked
<1>2. VmTick(a, n) = [calm EXCEPT !.vm.lastState = info.state, !.vm.lastFailed = Failed(info)]
  BY DEF VmTick
<1> HIDE DEF t
<1>3. Follows(t, t)
  BY <1>1 DEF Follows, Exclusive
<1>4. info \in Infos /\ info.state \in UiStates /\ (Failed(info) => ~info.ready)
  <2>1. info \in Infos
    BY <1>1, FieldsOf
  <2>2. QED
    BY <1>1, <2>1 DEF Told, Infos
<1>5. Follows(t, broken) /\ broken.vm.dialog = a.vm.dialog
  <2>1. Follows(t, PutSection(t, "Info")) /\ PutSection(t, "Info").vm.dialog = t.vm.dialog
    BY <1>3, TurnedToInfo
  <2>2. QED
    BY <1>1, <1>3, <2>1
<1> HIDE DEF broken
<1>6. Follows(t, closed) /\ ~closed.vm.compose
  BY <1>5, EditorClosed
<1> HIDE DEF closed
<1>7. Follows(t, opened) /\ opened.vm.dialog
  BY <1>6, FailureOpened
<1> HIDE DEF opened
<1>8. /\ Follows(t, told)
      /\ Failed(info) => told.vm.dialog \/ (a.vm.lastFailed /\ ~a.vm.dialog)
  BY <1>5, <1>7
<1> HIDE DEF told
<1>9. Follows(t, PutDialog(told, FALSE))
  BY <1>8, FailureClosed
<1>10. /\ Follows(t, calm)
       /\ Failed(info) => calm.vm.dialog \/ (a.vm.lastFailed /\ ~a.vm.dialog)
  BY <1>4, <1>8, <1>9
<1> HIDE DEF calm
<1>11. Fine(calm) /\ Exclusive(calm) /\ calm.model.info = info /\ calm.radio = t.radio
  BY <1>10 DEF Follows
<1>12. Failed(info) \in BOOLEAN
  BY DEF Failed
<1> HIDE DEF info
<1>13. /\ w \in Vms /\ w.compose = calm.vm.compose /\ w.dialog = calm.vm.dialog
       /\ w.section = calm.vm.section /\ w.lastFailed = Failed(info)
  BY <1>4, <1>11, <1>12, FieldsOf DEF Vms
<1>14. VmTick(a, n) = b
  BY <1>2, <1>11 DEF Fine, Shape, Vms
<1> HIDE DEF w
<1>15. Fine(b) /\ b.model = calm.model /\ b.vm = w /\ b.radio = calm.radio
  BY <1>11, <1>13, FineMemory
<1> HIDE DEF b
<1>16. Exclusive(b) /\ b.model.info = info /\ b.vm.lastFailed = Failed(info) /\ b.vm.dialog = calm.vm.dialog
  BY <1>11, <1>13, <1>15 DEF Exclusive
<1>17. Told(b)
  BY <1>1, <1>11, <1>15, <1>16 DEF Told, info
<1>18. TickOutcome(a, b)
  BY <1>10, <1>15, <1>16, <1>17 DEF TickOutcome
<1>19. QED
  BY <1>14, <1>18

-----------------------------------------------------------------------------
(* The page's own tick.                                                    *)

\* A field that is not the editor of a page.
LEMMA EditorTicked ==
    ASSUME NEW a, Fine(a), NEW e \in EditorTick(a.view.editor), NEW v, Views(v), v.attached, v.editor = e
    PROVE  LET b == [a EXCEPT !.view = v] IN Fine(b) /\ b.model = a.model /\ b.vm = a.vm /\ b.radio = a.radio
<1> DEFINE o == a.view.editor
           b == [a EXCEPT !.view = v]
<1>1. o \in Editors /\ Agrees(a) /\ Shape(a)
  BY DEF Fine, Shape, Views
<1>2. Shape(b) /\ b.model = a.model /\ b.vm = a.vm /\ b.radio = a.radio /\ b.view = v
  BY <1>1 DEF Shape
<1> HIDE DEF b
<1>3. /\ e.text = o.text /\ e.status = o.status /\ e.cursor = o.cursor /\ e.active = o.active
      /\ (e.inGroup \/ e.focusPending) = (o.inGroup \/ o.focusPending)
      /\ (o.active => o.inGroup # o.focusPending) => (e.active => e.inGroup # e.focusPending)
  BY <1>1 DEF EditorTick, HiddenOrNot, FocusInput, Editors
<1>4. Agrees(b)
  BY <1>1, <1>2, <1>3 DEF Agrees
<1>5. QED
  BY <1>2, <1>4 DEF Fine, b

LEMMA PageTicked ==
    ASSUME NEW a, Fine(a), NEW v \in ViewTick(a.view)
    PROVE  LET b == [a EXCEPT !.view = v] IN Fine(b) /\ b.model = a.model /\ b.vm = a.vm /\ b.radio = a.radio
<1> DEFINE o == a.view
<1>1. Views(o) /\ o.attached /\ o.editor \in Editors
  BY DEF Fine, Shape, Views
<1>2. v \in PagerTick(o)
  BY <1>1 DEF ViewTick
<1>3. PICK l \in ListTick(o.list), tip \in TitleTick(o.tip), e \in EditorTick(o.editor),
           f \in HiddenOrNot(o.failure), faded \in FadedOrNot(o) :
          v = Moved(o, l, tip, e, f, faded)
  BY <1>2 DEF PagerTick
<1>4. e \in Editors
  BY <1>1 DEF EditorTick, HiddenOrNot, FocusInput, Editors
<1>5. Views(v) /\ v.attached /\ v.editor = e
  BY <1>1, <1>3, <1>4 DEF Moved, Views, ViewFields
<1>6. QED
  BY <1>5, EditorTicked

-----------------------------------------------------------------------------
(* The page is entered and left.                                           *)

LEMMA Entering ==
    ASSUME NEW a, Shape(a), ~a.view.attached
    PROVE  LET e == OnEnter(a)
           IN  /\ Shape(e) /\ e.model = [[a.model EXCEPT !.draft = <<>>] EXCEPT !.status = ""]
               /\ e.radio = a.radio /\ e.vm.compose = FALSE /\ e.vm.dialog = Failed(a.model.info)
               /\ e.vm.lastFailed = Failed(a.model.info)
               /\ e.vm.dialog => e.vm.section = "Info"
<1> DEFINE info == a.model.info
           page == IF info.state = "Error" THEN "Info" ELSE "Messages"
           d == PutDraft(a, <<>>)
           t == PutStatus(d, "")
           c == PutCompose(t, FALSE)
           s == PutSection(c, page)
           h == PutHelp(s, FALSE)
           w == [h.vm EXCEPT !.lastState = info.state, !.lastFailed = Failed(info)]
           r == [h EXCEPT !.vm = w]
           e == PutDialog(r, Failed(info))
<1>1. OnEnter(a) = PutDialog([h EXCEPT !.vm.lastState = info.state, !.vm.lastFailed = Failed(info)], Failed(info))
  BY DEF OnEnter, ClearDraft
<1>2. /\ info \in Infos /\ info.state \in UiStates /\ page \in {"Messages", "Info"} /\ Failed(info) \in BOOLEAN
      /\ Failed(info) => page = "Info"
  BY DEF Shape, Models, Infos, Failed
<1> HIDE DEF info, page
<1>3. /\ Shape(d) /\ d.model = [a.model EXCEPT !.draft = <<>>] /\ d.vm = a.vm /\ d.radio = a.radio
  <2>1. <<>> \in Seq(Chars)
    OBVIOUS
  <2>2. QED
    BY <2>1, DraftPut
<1> HIDE DEF d
<1>4. Shape(t) /\ t.model = [d.model EXCEPT !.status = ""] /\ t.vm = d.vm /\ t.radio = d.radio
  <2>1. "" \in Statuses
    BY DEF Statuses
  <2>2. QED
    BY <1>3, <2>1, StatusPut
<1> HIDE DEF t
<1>5. Shape(c) /\ c.model = t.model /\ c.vm = [t.vm EXCEPT !.compose = FALSE] /\ c.radio = t.radio
  BY <1>4, ComposePut
<1> HIDE DEF c
<1>6. Shape(s) /\ s.model = c.model /\ s.vm = [c.vm EXCEPT !.section = page] /\ s.radio = c.radio
  BY <1>2, <1>5, SectionPut
<1> HIDE DEF s
<1>7. Shape(h) /\ h.model = s.model /\ h.vm = [s.vm EXCEPT !.help = FALSE] /\ h.radio = s.radio
  BY <1>6, HelpPut
<1> HIDE DEF h
<1>8. [h EXCEPT !.vm.lastState = info.state, !.vm.lastFailed = Failed(info)] = r
  BY <1>7 DEF Shape, Vms
<1>9. h.vm.compose = FALSE /\ h.vm.section = page
  <2>1. t.vm \in Vms
    BY <1>4 DEF Shape
  <2>2. h.vm = [[[t.vm EXCEPT !.compose = FALSE] EXCEPT !.section = page] EXCEPT !.help = FALSE]
    BY <1>5, <1>6, <1>7
  <2>3. QED
    BY <2>1, <2>2 DEF Vms
<1>10. w \in Vms /\ w.compose = FALSE /\ w.section = page /\ w.lastFailed = Failed(info)
  BY <1>2, <1>7, <1>9 DEF Shape, Vms
<1> HIDE DEF w
<1>11. Shape(r) /\ r.model = h.model /\ r.vm = w /\ r.radio = h.radio
  BY <1>7, <1>10 DEF Shape
<1> HIDE DEF r
<1>12. Shape(e) /\ e.model = r.model /\ e.vm = [r.vm EXCEPT !.dialog = Failed(info)] /\ e.radio = r.radio
  BY <1>2, <1>11, DialogPut
<1>13. OnEnter(a) = e
  BY <1>1, <1>8
<1> HIDE DEF e
<1>14. /\ e.vm.compose = FALSE /\ e.vm.dialog = Failed(info) /\ e.vm.section = page
       /\ e.vm.lastFailed = Failed(info)
  BY <1>2, <1>10, <1>11, <1>12 DEF Vms
<1>15. /\ e.model = [[a.model EXCEPT !.draft = <<>>] EXCEPT !.status = ""] /\ e.radio = a.radio
  BY <1>3, <1>4, <1>5, <1>6, <1>7, <1>11, <1>12
<1>16. QED
  BY <1>2, <1>12, <1>13, <1>14, <1>15 DEF info

\* A new page has an empty editor that is closed.
LEMMA PageBuilt ==
    ASSUME NEW messages, NEW info, NEW section, NEW dialog, NEW help
    PROVE  LET v == ViewEnter(messages, info, section, <<>>, "", FALSE, dialog, help)
           IN  Views(v) /\ v.attached /\ v.editor = NewEditor
<1> DEFINE empty == [NoView EXCEPT !.attached = TRUE, !.tip = "waiting", !.list = SetMessages(@, messages),
                                   !.infoPage = InfoPage(info),
                                   !.editor = EditorStatus(EditorDraft(@, <<>>), "")]
           f == FirstSection(empty, section)
           c == SetComposeActive(f, FALSE)
           d == SetDialogActive(c, dialog)
           h == SetHelpActive(d, help)
<1>1. /\ NewEditor \in Editors /\ EditorStatus(EditorDraft(NewEditor, <<>>), "") = NewEditor
      /\ EditorActive(NewEditor, FALSE) = NewEditor
  <2>1. <<>> \in Seq(Chars) /\ "" \in Statuses
    BY DEF Statuses
  <2>2. NewEditor \in Editors
    BY <2>1 DEF NewEditor, Editors
  <2>3. EditorDraft(NewEditor, <<>>) = NewEditor /\ EditorActive(NewEditor, FALSE) = NewEditor
    BY DEF NewEditor, EditorDraft, EditorActive
  <2>4. EditorStatus(NewEditor, "") = NewEditor
    <3>1. NewEditor.status = ""
      BY DEF NewEditor
    <3>2. ASSUME NEW o \in Editors, o.status = "" PROVE [o EXCEPT !.status = ""] = o
      BY <3>2 DEF Editors
    <3>3. QED
      BY <2>2, <3>1, <3>2 DEF EditorStatus
  <2>5. QED
    BY <2>2, <2>3, <2>4
<1>2. /\ DOMAIN NoView = ViewFields /\ NoView.editor = NewEditor
  BY DEF NoView, ViewFields
<1>3. Views(empty) /\ empty.attached /\ empty.editor = NewEditor
  BY <1>1, <1>2 DEF Views, ViewFields
<1> HIDE DEF empty
<1>4. Views(f) /\ f.attached /\ f.editor = NewEditor
  BY <1>3 DEF FirstSection, Views, ViewFields
<1> HIDE DEF f
<1>5. Views(c) /\ c.attached /\ c.editor = NewEditor
  <2>1. Views(Covered(f, FALSE)) /\ Covered(f, FALSE).attached /\ Covered(f, FALSE).editor = NewEditor
    BY <1>4, CoveredIs
  <2>2. QED
    BY <1>1, <2>1 DEF SetComposeActive, Views, ViewFields
<1> HIDE DEF c
<1>6. Views(d) /\ d.attached /\ d.editor = NewEditor
  <2>1. Views(Covered(c, dialog)) /\ Covered(c, dialog).attached /\ Covered(c, dialog).editor = NewEditor
    BY <1>5, CoveredIs
  <2>2. QED
    BY <2>1 DEF SetDialogActive, Views, ViewFields
<1> HIDE DEF d
<1>7. Views(h) /\ h.attached /\ h.editor = NewEditor
  <2>1. Views(Covered(d, help)) /\ Covered(d, help).attached /\ Covered(d, help).editor = NewEditor
    BY <1>6, CoveredIs
  <2>2. QED
    BY <2>1 DEF SetHelpActive, Views, ViewFields
<1>8. QED
  BY <1>7 DEF ViewEnter, empty, f, c, d

LEMMA Leaving ==
    ASSUME NEW a, Shape(a), ~a.view.attached
    PROVE  Shape(OnExit(a)) /\ OnExit(a).vm.dialog = FALSE
<1> DEFINE d == PutDraft(a, <<>>)
           t == PutStatus(d, "")
           c == IF a.vm.compose THEN PutCompose(t, FALSE) ELSE a
           g == PutDialog(c, FALSE)
           h == PutHelp(g, FALSE)
<1>1. OnExit(a) = h
  BY DEF OnExit, ClearDraft
<1>2. Shape(d)
  <2>1. <<>> \in Seq(Chars)
    OBVIOUS
  <2>2. QED
    BY <2>1, DraftPut
<1> HIDE DEF d
<1>3. Shape(t)
  <2>1. "" \in Statuses
    BY DEF Statuses
  <2>2. QED
    BY <1>2, <2>1, StatusPut
<1> HIDE DEF t
<1>4. Shape(c)
  <2>1. Shape(PutCompose(t, FALSE))
    BY <1>3, ComposePut
  <2>2. QED
    BY <2>1
<1> HIDE DEF c
<1>5. Shape(g) /\ g.vm = [c.vm EXCEPT !.dialog = FALSE]
  BY <1>4, DialogPut
<1> HIDE DEF g
<1>6. Shape(h) /\ h.vm = [g.vm EXCEPT !.help = FALSE]
  BY <1>5, HelpPut
<1> HIDE DEF h
<1>7. h.vm.dialog = FALSE
  BY <1>4, <1>5, <1>6 DEF Shape, Vms
<1>8. QED
  BY <1>1, <1>6, <1>7

-----------------------------------------------------------------------------
(* The invariant.                                                          *)

\* Before start.
AppMade ==
    [model |-> NoModel, vm |-> NewViewModel, view |-> NoView, radio |-> [FreshRadio EXCEPT !.running = FALSE]]

\* While the application is up: the page is there and agrees, what the radio is
\* shown as and the events to come fit together, the failure the view model
\* remembers is the one shown, and one that is shown has been announced.
UpInv ==
    /\ Fine(app) /\ Exclusive(app) /\ Told(app)
    /\ app.vm.lastFailed => Failed(app.model.info)
    /\ Failed(app.model.info) => app.vm.dialog \/ answered

AppInv ==
    /\ phase \in {"starting", "running", "quitting", "leaving", "stopped"} /\ scene \in Scenes
    /\ phase = "starting" => app = AppMade
    /\ Up => UpInv
    /\ phase = "stopped" => ~app.radio.running /\ ~app.vm.dialog

LEMMA MadeIs ==
    /\ Shape(AppMade) /\ ~AppMade.view.attached /\ ~AppMade.radio.running
    /\ AppMade.model = NoModel /\ AppMade.vm = NewViewModel /\ AppMade.radio.events = <<>>
<1>1. NoModel \in Models
  <2>1. <<>> \in Seq(Chars) /\ <<>> \in Seq(Nat) /\ "" \in Statuses
    BY DEF Statuses
  <2>2. Starting \in Infos
    BY DEF Starting, Infos, UiStates, Texts
  <2>3. QED
    BY <2>1, <2>2 DEF NoModel, Models
<1>2. NewViewModel \in Vms
  BY DEF NewViewModel, Vms, UiStates
<1>3. Views(NoView) /\ ~NoView.attached
  <2>1. NewEditor \in Editors
    <3>1. <<>> \in Seq(Chars) /\ "" \in Statuses
      BY DEF Statuses
    <3>2. QED
      BY <3>1 DEF NewEditor, Editors
  <2>2. QED
    BY <2>1 DEF NoView, Views, ViewFields
<1> DEFINE r == [FreshRadio EXCEPT !.running = FALSE]
<1>4. Radios(r) /\ ~r.running /\ r.events = <<>>
  BY DEF FreshRadio, Radios, RadioFields
<1> HIDE DEF r
<1>5. QED
  BY <1>1, <1>2, <1>3, <1>4 DEF AppMade, Shape, r

LEMMA InitiallyMade == Init => AppInv
BY MadeIs DEF Init, AppInv, AppMade, Up, NewViewModel

LEMMA StartKeepsInv == ASSUME AppInv, AppStart PROVE AppInv'
<1>1. app = AppMade /\ phase' = "running" /\ scene' = scene /\ scene \in Scenes
  BY DEF AppInv, AppStart
<1>2. PICK starts \in {TRUE, ~scene.troubled} :
          LET m == IF starts THEN [app EXCEPT !.radio = FreshRadio] ELSE [app EXCEPT !.model.info = StartFailedInfo]
              e == OnEnter(m)
          IN  app' = [e EXCEPT !.view = ViewEnter(e.model.messages, e.model.info, e.vm.section, e.model.draft,
                                                  e.model.status, e.vm.compose, e.vm.dialog, e.vm.help)]
  BY DEF AppStart
<1> DEFINE m == IF starts THEN [app EXCEPT !.radio = FreshRadio] ELSE [app EXCEPT !.model.info = StartFailedInfo]
           e == OnEnter(m)
           v == ViewEnter(e.model.messages, e.model.info, e.vm.section, <<>>, "", FALSE, e.vm.dialog, e.vm.help)
           b == [e EXCEPT !.view = v]
<1>3. /\ Shape(m) /\ ~m.view.attached /\ m.radio.events = <<>>
      /\ Failed(m.model.info) => ~m.model.info.ready
  <2>1. CASE starts
    <3>1. Radios(FreshRadio) /\ FreshRadio.events = <<>>
      BY DEF FreshRadio, Radios, RadioFields
    <3>2. m = [AppMade EXCEPT !.radio = FreshRadio]
      BY <1>1, <2>1
    <3> HIDE DEF m
    <3>3. Shape(m) /\ ~m.view.attached /\ m.radio.events = <<>> /\ m.model = NoModel
      BY <3>1, <3>2, MadeIs DEF Shape
    <3>4. NoModel.info.state = "Initializing" /\ NoModel.info.ready = FALSE
      BY DEF NoModel, Starting
    <3>5. QED
      BY <3>3, <3>4 DEF Failed
  <2>2. CASE ~starts
    <3> DEFINE o == [NoModel EXCEPT !.info = StartFailedInfo]
    <3>1. StartFailedInfo \in Infos /\ ~StartFailedInfo.ready
      BY DEF StartFailedInfo, Starting, Infos, UiStates, Texts
    <3>2. NoModel \in Models
      BY MadeIs DEF Shape
    <3>3. o \in Models /\ o.info = StartFailedInfo
      BY <3>1, <3>2 DEF Models
    <3>4. m = [AppMade EXCEPT !.model = o]
      BY <1>1, <2>2, MadeIs DEF Shape
    <3> HIDE DEF m, o
    <3>5. Shape(m) /\ ~m.view.attached /\ m.radio.events = <<>> /\ m.model = o
      BY <3>3, <3>4, MadeIs DEF Shape
    <3>6. QED
      BY <3>1, <3>3, <3>5
  <2>3. QED
    BY <2>1, <2>2
<1> HIDE DEF m
<1>4. /\ Shape(e) /\ e.model = [[m.model EXCEPT !.draft = <<>>] EXCEPT !.status = ""]
      /\ e.radio = m.radio /\ e.vm.compose = FALSE /\ e.vm.dialog = Failed(m.model.info)
      /\ e.vm.lastFailed = Failed(m.model.info)
      /\ e.vm.dialog => e.vm.section = "Info"
  BY <1>3, Entering
<1>5. app' = [e EXCEPT !.view = ViewEnter(e.model.messages, e.model.info, e.vm.section, e.model.draft,
                                          e.model.status, e.vm.compose, e.vm.dialog, e.vm.help)]
  BY <1>2 DEF m
<1> HIDE DEF e
<1>6. e.model.draft = <<>> /\ e.model.status = "" /\ e.model.info = m.model.info
  BY <1>3, <1>4 DEF Shape, Models
<1>7. app' = b
  BY <1>4, <1>5, <1>6
<1>8. Views(v) /\ v.attached /\ v.editor = NewEditor
  BY PageBuilt
<1> HIDE DEF v
<1>9. Shape(b) /\ b.model = e.model /\ b.vm = e.vm /\ b.radio = e.radio /\ b.view = v
  BY <1>4, <1>8 DEF Shape
<1> HIDE DEF b
<1>10. Agrees(b)
  <2>1. MaxMessageBytes \in Nat /\ Len(<<>>) = 0
    BY ViewModelAssumption
  <2>2. /\ NewEditor.text = <<>> /\ NewEditor.status = "" /\ NewEditor.cursor = 0 /\ NewEditor.active = FALSE
        /\ NewEditor.inGroup = FALSE /\ NewEditor.focusPending = FALSE
    BY DEF NewEditor
  <2>3. b.view.editor = NewEditor /\ b.model.draft = <<>> /\ b.model.status = "" /\ b.vm.compose = FALSE
    BY <1>4, <1>6, <1>8, <1>9
  <2> DEFINE o == b.view.editor
  <2>4. /\ o.text = <<>> /\ o.status = "" /\ o.cursor = 0 /\ o.active = FALSE
        /\ o.inGroup = FALSE /\ o.focusPending = FALSE
    BY <2>2, <2>3
  <2>5. o.cursor <= Len(o.text) /\ Len(o.text) <= MaxMessageBytes
    <3> HIDE DEF o
    <3>1. Len(o.text) = 0
      BY <2>1, <2>4
    <3>2. o.cursor = 0 /\ MaxMessageBytes \in Nat
      BY <2>1, <2>4
    <3>3. QED
      BY <3>1, <3>2
  <2>6. QED
    BY <2>3, <2>4, <2>5 DEF Agrees
<1>11. Fine(b) /\ Exclusive(b)
  BY <1>4, <1>8, <1>9, <1>10 DEF Fine, Exclusive
<1>12. Told(b)
  BY <1>3, <1>4, <1>6, <1>9 DEF Told, Cautious
<1>13. b.vm.lastFailed = Failed(b.model.info) /\ b.vm.dialog = Failed(b.model.info)
  BY <1>4, <1>6, <1>9
<1>14. UpInv'
  BY <1>7, <1>11, <1>12, <1>13 DEF UpInv
<1>15. QED
  BY <1>1, <1>14 DEF AppInv, Up

LEMMA KeyKeepsInv == ASSUME AppInv, NEW key, Key(key) PROVE AppInv'
<1>1. /\ phase \in {"running", "quitting"} /\ phase' \in {"running", "quitting"} /\ scene' = scene
      /\ scene \in Scenes /\ UpInv
  BY DEF AppInv, Key, Up
<1>2. /\ answered' = (Failed(app'.model.info) /\ (answered \/ (app.vm.dialog /\ ~app'.vm.dialog)))
  BY DEF Key
<1>3. PICK starts \in {TRUE, ~scene.troubled} : app' = OnLvglKeyState(app, key, starts)
  BY DEF Key
<1>4. Outcome(app, app')
  <2>1. starts \in BOOLEAN
    OBVIOUS
  <2>2. QED
    BY <1>1, <1>3, <2>1, KeyOutcome DEF UpInv
<1>5. Fine(app') /\ Exclusive(app') /\ (Untold(app, app') \/ Retried(app, app'))
  BY <1>4 DEF Outcome
<1>6. CASE Untold(app, app')
  <2>1. /\ app'.model.info = app.model.info /\ app'.radio.events = app.radio.events
        /\ app'.vm.lastFailed = app.vm.lastFailed
    BY <1>6 DEF Untold
  <2>2. Told(app')
    BY <1>1, <2>1 DEF UpInv, Told
  <2>3. UpInv'
    BY <1>1, <1>2, <1>5, <2>1, <2>2 DEF UpInv
  <2>4. QED
    BY <1>1, <2>3 DEF AppInv, Up
<1>7. CASE Retried(app, app')
  <2>1. /\ ~Failed(app'.model.info) /\ ~app'.model.info.ready /\ ~app'.vm.lastFailed
        /\ app'.radio.events \in {app.radio.events, <<>>}
    BY <1>7 DEF Retried
  <2>2. Cautious(app'.model.info, app.radio.events)
    BY <1>1, <2>1 DEF UpInv, Told, Cautious
  <2>3. Cautious(app'.model.info, <<>>)
    BY DEF Cautious
  <2>4. Told(app')
    BY <2>1, <2>2, <2>3 DEF Told
  <2>5. UpInv'
    BY <1>5, <2>1, <2>4 DEF UpInv
  <2>6. QED
    BY <1>1, <2>5 DEF AppInv, Up
<1>8. QED
  BY <1>5, <1>6, <1>7

LEMMA LeastOfTwo == ASSUME NEW i \in Nat, NEW j \in Nat PROVE Min({i, j}) \in 0 .. i
<1>1. \E x \in {i, j} : \A y \in {i, j} : x =< y
  OBVIOUS
<1>2. Min({i, j}) \in {i, j} /\ Min({i, j}) =< i
  BY <1>1 DEF Min
<1>3. QED
  BY <1>2

LEMMA TickKeepsInv == ASSUME AppInv, Tick PROVE AppInv'
<1>1. /\ phase \in {"running", "quitting"} /\ phase' \in {"running", "leaving"} /\ scene' = scene
      /\ scene \in Scenes /\ UpInv
  BY DEF AppInv, Tick, Up
<1>2. PICK n \in 0 .. Min({Len(app.radio.events), EventsPerTick}) :
          LET t == VmTick(app, n)
          IN  /\ \E v \in ViewTick(t.view) : app' = [t EXCEPT !.view = v]
              /\ answered' = (answered /\ Failed(t.model.info))
  BY DEF Tick
<1> DEFINE t == VmTick(app, n)
<1>3. n \in 0 .. Len(app.radio.events)
  <2>1. Len(app.radio.events) \in Nat
    <3>1. app.radio.events \in Seq(Happenings)
      BY <1>1, FieldsOf DEF UpInv, Radios
    <3>2. QED
      BY <3>1
  <2> DEFINE m == Min({Len(app.radio.events), EventsPerTick})
  <2>2. m \in 0 .. Len(app.radio.events)
    BY <2>1, LeastOfTwo, SceneAssumption
  <2>3. n \in 0 .. m
    OBVIOUS
  <2> HIDE DEF m
  <2>4. QED
    BY <2>1, <2>2, <2>3
<1>4. TickOutcome(app, t)
  BY <1>1, <1>3, VmTicked DEF UpInv
<1>5. (\E v \in ViewTick(t.view) : app' = [t EXCEPT !.view = v]) /\ answered' = (answered /\ Failed(t.model.info))
  BY <1>2
<1> HIDE DEF t
<1>6. PICK v \in ViewTick(t.view) : app' = [t EXCEPT !.view = v]
  BY <1>5
<1>7. /\ Fine(t) /\ Exclusive(t) /\ Told(t) /\ t.vm.lastFailed = Failed(t.model.info)
      /\ Failed(t.model.info) => t.vm.dialog \/ (app.vm.lastFailed /\ ~app.vm.dialog)
  BY <1>4 DEF TickOutcome
<1> DEFINE b == [t EXCEPT !.view = v]
<1>8. Fine(b) /\ b.model = t.model /\ b.vm = t.vm /\ b.radio = t.radio
  BY <1>7, PageTicked
<1>9. app' = b
  BY <1>6
<1> HIDE DEF b
<1>10. Exclusive(app') /\ Told(app') /\ Fine(app')
  BY <1>7, <1>8, <1>9 DEF Exclusive, Told
<1>11. app'.vm.lastFailed => Failed(app'.model.info)
  BY <1>7, <1>8, <1>9
<1>12. Failed(app'.model.info) => app'.vm.dialog \/ answered'
  BY <1>1, <1>5, <1>7, <1>8, <1>9 DEF UpInv
<1>13. UpInv'
  BY <1>10, <1>11, <1>12 DEF UpInv
<1>14. QED
  BY <1>1, <1>13 DEF AppInv, Up

LEMMA StopKeepsInv == ASSUME AppInv, AppStop PROVE AppInv'
<1>1. phase = "leaving" /\ phase' = "stopped" /\ scene' = scene /\ scene \in Scenes /\ UpInv
  BY DEF AppInv, AppStop, Up
<1> DEFINE g == [app EXCEPT !.view = ViewExit]
           c == OnExit(g)
<1>2. app' = [c EXCEPT !.model.info.state = "Stopped", !.model.info.ready = FALSE,
                       !.model.info.text = "plain", !.radio.running = FALSE]
  BY DEF AppStop
<1>3. Shape(g) /\ ~g.view.attached
  <2>1. Views(ViewExit) /\ ~ViewExit.attached
    BY MadeIs DEF ViewExit, AppMade, Shape
  <2>2. QED
    BY <1>1, <2>1 DEF UpInv, Fine, Shape
<1> HIDE DEF g
<1>4. Shape(c) /\ c.vm.dialog = FALSE
  BY <1>3, Leaving
<1> HIDE DEF c
<1>5. app'.vm = c.vm /\ ~app'.radio.running
  BY <1>2, <1>4 DEF Shape, Radios, RadioFields
<1>6. QED
  BY <1>1, <1>4, <1>5 DEF AppInv, Up

-----------------------------------------------------------------------------
(* The radio.                                                              *)

\* What the worker pushes at once: a failure to initialize comes after the state.
Pushed(kinds) ==
    /\ kinds \in Seq(EventKinds)
    /\ \A k \in DOMAIN kinds : kinds[k] = "InitializeError" => k # 1 /\ kinds[k - 1] = "Initializing"

LEMMA CautiousLonger ==
    ASSUME NEW info, NEW q \in Seq(Happenings), NEW p \in Seq(Happenings), Cautious(info, q),
           \A k \in DOMAIN p : p[k].kind = "InitializeError" => k # 1 /\ p[k - 1].kind = "Initializing"
    PROVE  q \o p \in Seq(Happenings) /\ Cautious(info, q \o p)
<1> DEFINE s == q \o p
<1>1. /\ s \in Seq(Happenings) /\ Len(q) \in Nat /\ Len(p) \in Nat /\ Len(s) = Len(q) + Len(p)
      /\ DOMAIN s = 1 .. Len(q) + Len(p) /\ DOMAIN q = 1 .. Len(q) /\ DOMAIN p = 1 .. Len(p)
  OBVIOUS
<1>2. \A k \in 1 .. Len(q) : s[k] = q[k]
  OBVIOUS
<1>3. \A k \in 1 .. Len(p) : s[Len(q) + k] = p[k]
  <2> TAKE k \in 1 .. Len(p)
  <2>1. Len(q) + k \in 1 .. Len(q) + Len(p) /\ ~(Len(q) + k <= Len(q)) /\ (Len(q) + k) - Len(q) = k
    BY <1>1
  <2>2. QED
    BY <1>1, <2>1
<1> HIDE DEF s
<1>4. Cautious(info, s)
  <2> SUFFICES ASSUME NEW k \in DOMAIN s, s[k].kind = "InitializeError"
               PROVE  IF k = 1 THEN ~info.ready ELSE s[k - 1].kind = "Initializing"
    BY DEF Cautious
  <2>1. CASE k \in 1 .. Len(q)
    <3>1. q[k].kind = "InitializeError"
      BY <1>2, <2>1
    <3>2. IF k = 1 THEN ~info.ready ELSE q[k - 1].kind = "Initializing"
      BY <1>1, <2>1, <3>1 DEF Cautious
    <3>3. k # 1 => k - 1 \in 1 .. Len(q)
      BY <2>1
    <3>4. QED
      BY <1>2, <3>2, <3>3
  <2>2. CASE k \notin 1 .. Len(q)
    <3> DEFINE j == k - Len(q)
    <3>1. j \in 1 .. Len(p) /\ Len(q) + j = k
      BY <1>1, <2>2
    <3> HIDE DEF j
    <3>2. p[j].kind = "InitializeError"
      BY <1>3, <3>1
    <3>3. j # 1 /\ p[j - 1].kind = "Initializing"
      BY <1>1, <3>1, <3>2
    <3>4. j - 1 \in 1 .. Len(p) /\ Len(q) + (j - 1) = k - 1 /\ k # 1
      BY <1>1, <3>1, <3>3
    <3>5. s[k - 1] = p[j - 1]
      BY <1>3, <3>4
    <3>6. QED
      BY <3>3, <3>4, <3>5
  <2>3. QED
    BY <2>1, <2>2
<1>5. QED
  BY <1>1, <1>4 DEF s

LEMMA RadioDoesKeepsInv ==
    ASSUME AppInv, NEW state, NEW kinds, Pushed(kinds), NEW commands \in Seq({"send", "retry"}),
           RadioDoes(state, kinds, commands)
    PROVE  AppInv'
<1> DEFINE p == Pushes(kinds)
           q == app.radio.events
           r == [[[app.radio EXCEPT !.state = state] EXCEPT !.commands = commands] EXCEPT !.events = q \o p]
           b == [app EXCEPT !.radio = r]
<1>1. /\ phase' = phase /\ scene' = scene /\ answered' = answered /\ UpInv
      /\ app' = [app EXCEPT !.radio.state = state, !.radio.commands = commands,
                            !.radio.events = @ \o Pushes(kinds)]
      /\ phase \in {"running", "quitting", "leaving"}
  BY DEF AppInv, RadioDoes, Up
<1>2. Fine(app) /\ Radios(app.radio) /\ q \in Seq(Happenings)
  BY <1>1, FieldsOf DEF UpInv, Radios
<1>3. app' = b
  BY <1>1, <1>2 DEF Fine, Shape, Radios, RadioFields
<1>4. /\ p \in Seq(Happenings)
      /\ \A k \in DOMAIN p : p[k].kind = "InitializeError" => k # 1 /\ p[k - 1].kind = "Initializing"
  <2>1. kinds \in Seq(EventKinds) /\ DOMAIN kinds = 1 .. Len(kinds) /\ Len(kinds) \in Nat
    BY DEF Pushed
  <2>2. \A k \in 1 .. Len(kinds) : p[k] \in Happenings /\ p[k].kind = kinds[k]
    BY <2>1 DEF Pushes, Event, Happenings
  <2>3. DOMAIN p = 1 .. Len(kinds) /\ p = [k \in 1 .. Len(kinds) |-> p[k]]
    BY <2>1 DEF Pushes
  <2> HIDE DEF p
  <2>4. p \in Seq(Happenings)
    BY <2>1, <2>2, <2>3
  <2>5. ASSUME NEW k \in DOMAIN p, p[k].kind = "InitializeError" PROVE k # 1 /\ p[k - 1].kind = "Initializing"
    <3>1. kinds[k] = "InitializeError" /\ k \in DOMAIN kinds /\ k \in 1 .. Len(kinds)
      BY <2>1, <2>2, <2>3, <2>5
    <3>2. k # 1 /\ kinds[k - 1] = "Initializing"
      BY <3>1 DEF Pushed
    <3>3. k - 1 \in 1 .. Len(kinds)
      BY <3>1, <3>2
    <3>4. QED
      BY <2>2, <3>2, <3>3
  <2>6. QED
    BY <2>4, <2>5
<1> HIDE DEF p
<1>5. Cautious(app.model.info, q)
  BY <1>1 DEF UpInv, Told
<1>6. q \o p \in Seq(Happenings) /\ Cautious(app.model.info, q \o p)
  BY <1>2, <1>4, <1>5, CautiousLonger
<1> DEFINE s == q \o p
<1> HIDE DEF s
<1>7. Radios([[[app.radio EXCEPT !.state = state] EXCEPT !.commands = commands] EXCEPT !.events = s])
  BY <1>2, <1>6 DEF Radios, RadioFields, s
<1>8. [[[app.radio EXCEPT !.state = state] EXCEPT !.commands = commands] EXCEPT !.events = s].events = s
  BY <1>2 DEF Radios, RadioFields
<1>9. Radios(r) /\ r.events = q \o p
  BY <1>7, <1>8 DEF s
<1> HIDE DEF r
<1>10. Fine(b) /\ b.model = app.model /\ b.vm = app.vm /\ b.radio = r
  BY <1>2, <1>9, FineRadio
<1> HIDE DEF b
<1>11. Exclusive(app') /\ Told(app')
  BY <1>1, <1>3, <1>6, <1>9, <1>10 DEF UpInv, Exclusive, Told
<1>12. UpInv'
  BY <1>1, <1>3, <1>10, <1>11 DEF UpInv
<1>13. QED
  BY <1>1, <1>12 DEF AppInv, Up

\* The reports of the worker, as RadioWorker makes them.
LEMMA ReportsPushed ==
    /\ Pushed(<<"Initializing", "Initialized", "Receiving">>)
    /\ Pushed(<<"Initializing", "InitializeError", "Error">>)
    /\ Pushed(<<"TxStarted", "Sending", "TxCompleted", "Receiving">>)
    /\ Pushed(<<"TxStarted", "Sending", "TxFailed", "Receiving">>)
    /\ Pushed(<<"TxStarted", "Sending", "TxFailed", "OtherError", "Error">>)
    /\ Pushed(<<"TxFailed">>) /\ Pushed(<<"RxPacket">>) /\ Pushed(<<"OtherError", "Error">>)
    /\ Pushed(<<"OtherError", "Error", "Stopping", "Stopped">>)
<1>1. /\ {"Initializing", "Initialized", "Receiving", "InitializeError", "Error", "TxStarted", "Sending",
          "TxCompleted", "TxFailed", "OtherError", "RxPacket", "Stopping", "Stopped"} \subseteq EventKinds
  BY DEF EventKinds, StateKinds, OutcomeKinds
<1>2. Pushed(<<"Initializing", "Initialized", "Receiving">>)
  BY <1>1 DEF Pushed
<1>3. Pushed(<<"Initializing", "InitializeError", "Error">>)
  BY <1>1 DEF Pushed
<1>4. Pushed(<<"TxStarted", "Sending", "TxCompleted", "Receiving">>)
  BY <1>1 DEF Pushed
<1>5. Pushed(<<"TxStarted", "Sending", "TxFailed", "Receiving">>)
  BY <1>1 DEF Pushed
<1>6. Pushed(<<"TxStarted", "Sending", "TxFailed", "OtherError", "Error">>)
  BY <1>1 DEF Pushed
<1>7. Pushed(<<"TxFailed">>) /\ Pushed(<<"RxPacket">>) /\ Pushed(<<"OtherError", "Error">>)
  BY <1>1 DEF Pushed
<1>8. Pushed(<<"OtherError", "Error", "Stopping", "Stopped">>)
  BY <1>1 DEF Pushed
<1>9. QED
  BY <1>2, <1>3, <1>4, <1>5, <1>6, <1>7, <1>8

LEMMA RadioKeepsInv == ASSUME AppInv, Radio PROVE AppInv'
<1>1. ASSUME NEW state, NEW kinds, NEW commands, RadioDoes(state, kinds, commands)
      PROVE  app.radio.commands \in Seq({"send", "retry"})
  <2>1. Fine(app)
    BY <1>1 DEF RadioDoes, AppInv, Up, UpInv
  <2>2. QED
    BY <2>1, FieldsOf DEF Radios
<1>2. ASSUME NEW c \in Seq({"send", "retry"}), c # <<>> PROVE Tail(c) \in Seq({"send", "retry"})
  BY <1>2
<1>3. ASSUME NEW commands, Initializes(commands), commands \in Seq({"send", "retry"}) PROVE AppInv'
  BY <1>3, RadioDoesKeepsInv, ReportsPushed DEF Initializes
<1>4. CASE RadioOpens
  <2>1. Commands \in Seq({"send", "retry"})
    BY <1>1, <1>4 DEF RadioOpens, Initializes, Commands
  <2>2. QED
    BY <1>3, <1>4, <2>1 DEF RadioOpens
<1>5. CASE RadioRetries
  <2>1. Commands \in Seq({"send", "retry"})
    BY <1>1, <1>5 DEF RadioRetries, Initializes, Commands
  <2>2. Tail(Commands) \in Seq({"send", "retry"})
    BY <1>2, <1>5, <2>1 DEF RadioRetries
  <2>3. QED
    BY <1>3, <1>5, <2>2 DEF RadioRetries
<1>6. CASE RadioSends
  <2>1. Commands \in Seq({"send", "retry"})
    BY <1>1, <1>6 DEF RadioSends, Commands
  <2>2. Tail(Commands) \in Seq({"send", "retry"})
    BY <1>2, <1>6, <2>1 DEF RadioSends
  <2>3. QED
    BY <1>6, <2>2, RadioDoesKeepsInv, ReportsPushed DEF RadioSends
<1>7. CASE RadioHears \/ RadioBreaks \/ RadioEnds
  <2>1. Commands \in Seq({"send", "retry"})
    BY <1>1, <1>7 DEF RadioHears, RadioBreaks, RadioEnds, Commands
  <2>2. QED
    BY <1>7, <2>1, RadioDoesKeepsInv, ReportsPushed DEF RadioHears, RadioBreaks, RadioEnds
<1>8. CASE RadioGone
  <2> DEFINE r == [app.radio EXCEPT !.running = FALSE]
             b == [app EXCEPT !.radio = r]
  <2>1. /\ app.radio.running /\ phase' = phase /\ scene' = scene /\ answered' = answered
        /\ app' = [app EXCEPT !.radio.running = FALSE]
    BY <1>8 DEF RadioGone
  <2>2. phase \in {"running", "quitting", "leaving"} /\ UpInv /\ scene \in Scenes
    BY <2>1, MadeIs DEF AppInv, Up
  <2>3. Fine(app) /\ Radios(app.radio)
    BY <2>2, FieldsOf DEF UpInv
  <2>4. Radios(r) /\ r.events = app.radio.events
    BY <2>3 DEF Radios, RadioFields
  <2>5. app' = b
    BY <2>1
  <2> HIDE DEF r
  <2>6. Fine(b) /\ b.model = app.model /\ b.vm = app.vm /\ b.radio = r
    BY <2>3, <2>4, FineRadio
  <2> HIDE DEF b
  <2>7. UpInv'
    BY <2>1, <2>2, <2>4, <2>5, <2>6 DEF UpInv, Exclusive, Told
  <2>8. QED
    BY <2>1, <2>2, <2>7 DEF AppInv, Up
<1>9. QED
  BY <1>4, <1>5, <1>6, <1>7, <1>8 DEF Radio

-----------------------------------------------------------------------------
(* The theorems.                                                           *)

\* What the application is at every step, see AppInv.
THEOREM AppInvariant == Spec => []AppInv
<1>1. ASSUME AppInv, [Next]_vars PROVE AppInv'
  <2>1. CASE AppStart
    BY <1>1, <2>1, StartKeepsInv
  <2>2. CASE AnyKey
    <3>1. PICK key \in scene.keys : Key(key)
      BY <2>2 DEF AnyKey
    <3>2. QED
      BY <1>1, <3>1, KeyKeepsInv
  <2>3. CASE Tick
    BY <1>1, <2>3, TickKeepsInv
  <2>4. CASE AppStop
    BY <1>1, <2>4, StopKeepsInv
  <2>5. CASE Radio
    BY <1>1, <2>5, RadioKeepsInv
  <2>6. CASE UNCHANGED vars
    <3>1. app' = app /\ phase' = phase /\ answered' = answered /\ scene' = scene
      BY <2>6 DEF vars
    <3>2. UpInv' = UpInv /\ AppInv' = AppInv
      BY <3>1 DEF AppInv, UpInv, Up
    <3>3. QED
      BY <1>1, <3>2
  <2>7. QED
    BY <1>1, <2>1, <2>2, <2>3, <2>4, <2>5, <2>6 DEF Next
<1>2. QED
  BY <1>1, InitiallyMade, PTL DEF Spec

\* The text the user sees is the draft that is sent, whichever of the two copies
\* (ChatModel's and the text area's) the keys went to, and the keyboard is in the
\* group of an open editor only.
THEOREM EditorAlwaysAgrees == Spec => []EditorAgrees
<1>1. AppInv => EditorAgrees
  BY DEF AppInv, UpInv, Fine, Agrees, EditorAgrees
<1>2. QED
  BY <1>1, AppInvariant, PTL

\* A failed initialization stays on the screen, on the page of the radio and
\* never with an editor, until the user answers it: however many events one tick
\* takes, and whatever the worker does between the ticks.
THEOREM FailuresAreAnnounced == Spec => []FailureAnnounced
<1>1. AppInv => FailureAnnounced
  <2> SUFFICES ASSUME AppInv PROVE FailureAnnounced
    OBVIOUS
  <2>1. CASE Up
    <3>1. UpInv
      BY <2>1 DEF AppInv
    <3>2. QED
      BY <3>1 DEF UpInv, Exclusive, FailureAnnounced
  <2>2. CASE phase = "starting"
    <3>1. app.vm = NewViewModel
      BY <2>2, MadeIs DEF AppInv
    <3>2. ~app.vm.dialog
      BY <3>1 DEF NewViewModel
    <3>3. QED
      BY <2>2, <3>2 DEF FailureAnnounced, Up
  <2>3. CASE phase = "stopped"
    BY <2>3 DEF AppInv, FailureAnnounced, Up
  <2>4. QED
    BY <2>1, <2>2, <2>3 DEF AppInv, Up
<1>2. QED
  BY <1>1, AppInvariant, PTL

-----------------------------------------------------------------------------
(* What is open, counted.                                                  *)

Overlays == {"compose", "dialog", "help"}

LEMMA OverlaysFinite == IsFiniteSet(Overlays)
<1>1. IsFiniteSet({"compose"})
  BY FS_Singleton
<1>2. IsFiniteSet({"compose"} \cup {"dialog"})
  BY <1>1, FS_AddElement
<1>3. IsFiniteSet(({"compose"} \cup {"dialog"}) \cup {"help"})
  BY <1>2, FS_AddElement
<1>4. Overlays = ({"compose"} \cup {"dialog"}) \cup {"help"}
  BY DEF Overlays
<1>5. QED
  BY <1>3, <1>4

\* Of two sets, one may lack one element of the other.
LEMMA OneLess ==
    ASSUME NEW A, NEW B, NEW x, IsFiniteSet(B), A \subseteq B \cup {x}
    PROVE  Cardinality(B) >= Cardinality(A) - 1
<1>1. /\ IsFiniteSet(B \cup {x})
      /\ Cardinality(B \cup {x}) = IF x \in B THEN Cardinality(B) ELSE Cardinality(B) + 1
  BY FS_AddElement
<1>2. IsFiniteSet(A) /\ Cardinality(A) <= Cardinality(B \cup {x})
  BY <1>1, FS_Subset
<1>3. Cardinality(A) \in Nat /\ Cardinality(B) \in Nat
  BY <1>2, FS_CardinalityType
<1>4. QED
  BY <1>1, <1>2, <1>3

LEMMA ClosesOne ==
    ASSUME NEW v, NEW w, OneCloses(v, w) PROVE Opened(w) >= Opened(v) - 1
<1> DEFINE A == {o \in Overlays : v[o]}
           B == {o \in Overlays : w[o]}
<1>1. IsFiniteSet(B)
  <2>1. B \in SUBSET Overlays
    OBVIOUS
  <2>2. QED
    BY <2>1, OverlaysFinite, FS_Subset
<1>2. \E x : A \subseteq B \cup {x}
  <2>1. CASE (v.compose => w.compose) /\ (v.dialog => w.dialog)
    <3>1. A \subseteq B \cup {"help"}
      BY <2>1 DEF Overlays
    <3>2. QED
      BY <3>1
  <2>2. CASE (v.compose => w.compose) /\ (v.help => w.help)
    <3>1. A \subseteq B \cup {"dialog"}
      BY <2>2 DEF Overlays
    <3>2. QED
      BY <3>1
  <2>3. CASE (v.dialog => w.dialog) /\ (v.help => w.help)
    <3>1. A \subseteq B \cup {"compose"}
      BY <2>3 DEF Overlays
    <3>2. QED
      BY <3>1
  <2>4. QED
    BY <2>1, <2>2, <2>3 DEF OneCloses
<1>3. Opened(v) = Cardinality(A) /\ Opened(w) = Cardinality(B)
  BY DEF Opened, Overlays
<1> HIDE DEF A, B
<1>4. PICK x : A \subseteq B \cup {x}
  BY <1>2
<1>5. Cardinality(B) >= Cardinality(A) - 1
  BY <1>1, <1>4, OneLess
<1>6. QED
  BY <1>3, <1>5

\* Nothing is open where Esc quits.
LEMMA QuitsWithNothing ==
    ASSUME NEW a, a.vm.compose \in BOOLEAN, a.vm.dialog \in BOOLEAN, a.vm.help \in BOOLEAN,
           NEW key, Quits(a, key)
    PROVE  Opened(a.vm) = 0
<1>1. ~a.vm.compose /\ ~a.vm.dialog /\ ~a.vm.help
  <2>1. Overlay(a.vm) = "page"
    BY DEF Quits, Modal
  <2>2. QED
    BY <2>1 DEF Overlay
<1>2. \A o \in {"compose", "dialog", "help"} : ~a.vm[o]
  BY <1>1
<1> DEFINE S == {o \in {"compose", "dialog", "help"} : a.vm[o]}
<1>3. S = {}
  BY <1>2
<1>4. Opened(a.vm) = Cardinality(S)
  BY DEF Opened
<1> HIDE DEF S
<1>5. QED
  BY <1>3, <1>4, FS_EmptySet

LEMMA NoMoreSends ==
    ASSUME NEW a, NEW b, Radios(a.radio), NoneSent(a, b)
    PROVE  Sends(b.radio) <= Sends(a.radio)
<1> DEFINE q == a.radio.commands
           S == {k \in DOMAIN q : q[k] = "send"}
<1>1. q \in Seq({"send", "retry"}) /\ Len(q) \in Nat /\ DOMAIN q = 1 .. Len(q)
  BY DEF Radios
<1>2. IsFiniteSet(S) /\ Cardinality(S) \in Nat
  <2>1. IsFiniteSet(1 .. Len(q))
    BY <1>1, FS_Interval
  <2>2. S \in SUBSET (1 .. Len(q))
    BY <1>1
  <2> HIDE DEF S, q
  <2>3. QED
    BY <2>1, <2>2, FS_Subset, FS_CardinalityType
<1>3. Sends(a.radio) = Cardinality(S)
  BY DEF Sends
<1>4. CASE b.radio.commands = q
  <2>1. Sends(b.radio) = Cardinality(S)
    BY <1>4 DEF Sends
  <2>2. QED
    BY <1>2, <1>3, <2>1
<1>5. CASE b.radio.commands = Append(q, "retry")
  <2> DEFINE p == Append(q, "retry")
  <2>1. /\ DOMAIN p = 1 .. Len(q) + 1 /\ p[Len(q) + 1] = "retry"
        /\ \A k \in 1 .. Len(q) : p[k] = q[k]
    BY <1>1
  <2> HIDE DEF p
  <2>2. \A k \in 1 .. Len(q) + 1 : k \in 1 .. Len(q) \/ k = Len(q) + 1
    BY <1>1
  <2>3. {k \in DOMAIN p : p[k] = "send"} = S
    BY <1>1, <2>1, <2>2
  <2>4. b.radio.commands = p
    BY <1>5 DEF p
  <2>5. Sends(b.radio) = Cardinality(S)
    BY <2>3, <2>4 DEF Sends
  <2>6. QED
    BY <1>2, <1>3, <2>5
<1>6. CASE b.radio.commands = <<>>
  <2>1. {k \in DOMAIN <<>> : <<>>[k] = "send"} = {}
    OBVIOUS
  <2>2. Sends(b.radio) = 0
    BY <1>6, <2>1, FS_EmptySet DEF Sends
  <2>3. QED
    BY <1>2, <1>3, <2>2
<1>7. QED
  BY <1>4, <1>5, <1>6 DEF NoneSent

\* Nothing but the help, the draft and the page changes under the help.
LEMMA UnderHelpIs ==
    ASSUME NEW a, Shape(a), NEW b, Shape(b), UnderHelp(a, b)
    PROVE  b = [a EXCEPT !.model.draft = b.model.draft, !.model.status = b.model.status,
                         !.view = b.view, !.vm.help = b.vm.help]
<1> DEFINE c == [a EXCEPT !.model.draft = b.model.draft, !.model.status = b.model.status,
                          !.view = b.view, !.vm.help = b.vm.help]
<1>1. /\ DOMAIN a = {"model", "vm", "view", "radio"} /\ DOMAIN b = {"model", "vm", "view", "radio"}
      /\ a.model \in Models
  BY DEF Shape
<1>2. /\ c.model = [a.model EXCEPT !.draft = b.model.draft, !.status = b.model.status]
      /\ c.vm = [a.vm EXCEPT !.help = b.vm.help] /\ c.view = b.view /\ c.radio = a.radio
  BY <1>1
<1>3. c = [f \in {"model", "vm", "view", "radio"} |-> c[f]]
  BY <1>1
<1>4. b = [f \in {"model", "vm", "view", "radio"} |-> b[f]]
  BY <1>1 DEF Shape
<1> HIDE DEF c
<1>5. b.model = c.model /\ b.vm = c.vm /\ b.view = c.view /\ b.radio = c.radio
  BY <1>2 DEF UnderHelp
<1>6. b = c
  BY <1>3, <1>4, <1>5
<1>7. QED
  BY <1>6 DEF c

\* What is open holds the keys, whichever is pressed: under the help nothing
\* happens but in the text area behind it, under the dialog of a failure nothing
\* is sent, and Esc closes one thing at a time and quits only with nothing open.
THEOREM ModalsHoldKeys == Spec => []ModalHoldsKeys
<1>1. AppInv => ModalHoldsKeys
  <2> SUFFICES ASSUME AppInv, Up, NEW key \in scene.keys
               PROVE  LET after == OnLvglKeyState(app, key, TRUE) IN
                      /\ app.vm.help =>
                             after = [app EXCEPT !.model.draft = after.model.draft,
                                                 !.model.status = after.model.status,
                                                 !.view = after.view, !.vm.help = after.vm.help]
                      /\ app.vm.dialog => Sends(after.radio) <= Sends(app.radio)
                      /\ Quits(app, key) => Opened(app.vm) = 0
                      /\ Opened(after.vm) >= Opened(app.vm) - 1
    BY DEF ModalHoldsKeys
  <2> DEFINE after == OnLvglKeyState(app, key, TRUE)
  <2>1. Fine(app) /\ Exclusive(app)
    BY DEF AppInv, UpInv
  <2>2. Outcome(app, after)
    BY <2>1, KeyOutcome
  <2>3. app.vm.help => UnderHelp(app, after)
    BY <2>1, HelpHolds
  <2> HIDE DEF after
  <2>4. Shape(app) /\ Shape(after) /\ Radios(app.radio)
    BY <2>1, <2>2 DEF Outcome, Fine, Shape
  <2>5. app.vm.help =>
            after = [app EXCEPT !.model.draft = after.model.draft, !.model.status = after.model.status,
                                !.view = after.view, !.vm.help = after.vm.help]
    BY <2>3, <2>4, UnderHelpIs
  <2>6. app.vm.dialog => Sends(after.radio) <= Sends(app.radio)
    BY <2>2, <2>4, NoMoreSends DEF Outcome
  <2>7. Quits(app, key) => Opened(app.vm) = 0
    BY <2>1, FieldsOf, QuitsWithNothing
  <2>8. Opened(after.vm) >= Opened(app.vm) - 1
    BY <2>2, ClosesOne DEF Outcome
  <2>9. QED
    BY <2>5, <2>6, <2>7, <2>8 DEF after
<1>2. QED
  BY <1>1, AppInvariant, PTL
-----------------------------------------------------------------------------
(* The list of messages.                                                   *)

Lists == [rows : Seq(Nat), synced : {TRUE}, y : Nat, animating : BOOLEAN, goal : Int, follow : BOOLEAN]

\* A list as LVGL leaves it: the position is within the rows.
Drawn(l)    == l \in Lists /\ l.y <= ScrollEnd(l)
ListFine(l) == Drawn(l) /\ FollowsBottom(l)

LEMMA MaxOfTwo == ASSUME NEW i \in Int, NEW j \in Int PROVE Max({i, j}) = IF i < j THEN j ELSE i
<1>1. \E x \in {i, j} : \A y \in {i, j} : x >= y
  OBVIOUS
<1>2. Max({i, j}) \in {i, j} /\ \A y \in {i, j} : Max({i, j}) >= y
  BY <1>1 DEF Max
<1>3. QED
  BY <1>2

LEMMA MinOfTwo == ASSUME NEW i \in Int, NEW j \in Int PROVE Min({i, j}) = IF i < j THEN i ELSE j
<1>1. \E x \in {i, j} : \A y \in {i, j} : x =< y
  OBVIOUS
<1>2. Min({i, j}) \in {i, j} /\ \A y \in {i, j} : Min({i, j}) =< y
  BY <1>1 DEF Min
<1>3. QED
  BY <1>2

LEMMA ClampIs ==
    ASSUME NEW t \in Int, NEW m \in Int
    PROVE  Clamp(t, m) = IF m < 0 THEN m ELSE IF t < 0 THEN 0 ELSE IF t > m THEN m ELSE t
<1>1. Max({t, 0}) = IF t < 0 THEN 0 ELSE t
  BY MaxOfTwo
<1>2. Max({t, 0}) \in Int
  BY <1>1
<1>3. Clamp(t, m) = IF Max({t, 0}) < m THEN Max({t, 0}) ELSE m
  BY <1>2, MinOfTwo DEF Clamp
<1>4. QED
  BY <1>1, <1>3

LEMMA EndsAre ==
    ASSUME NEW l, l.rows \in Seq(Nat)
    PROVE  /\ Len(l.rows) \in Nat /\ MaxScroll(l) \in Int /\ ScrollEnd(l) \in Nat
           /\ MaxScroll(l) = Len(l.rows) - Viewport
           /\ ScrollEnd(l) = IF MaxScroll(l) < 0 THEN 0 ELSE MaxScroll(l)
BY ListAssumption DEF MaxScroll, ScrollEnd

LEMMA BoundedIs ==
    ASSUME NEW l, l.rows \in Seq(Nat), NEW y \in Int
    PROVE  /\ Bounded(l, y) = IF y < 0 THEN 0 ELSE IF y > ScrollEnd(l) THEN ScrollEnd(l) ELSE y
           /\ Bounded(l, y) \in Nat /\ Bounded(l, y) <= ScrollEnd(l)
<1>1. ScrollEnd(l) \in Nat
  BY EndsAre
<1> DEFINE m == Min({y, ScrollEnd(l)})
<1>2. m = IF y < ScrollEnd(l) THEN y ELSE ScrollEnd(l)
  BY <1>1, MinOfTwo
<1>3. m \in Int
  BY <1>1, <1>2
<1>4. Bounded(l, y) = Max({0, m})
  BY DEF Bounded
<1> HIDE DEF m
<1>5. Max({0, m}) = IF 0 < m THEN m ELSE 0
  BY <1>3, MaxOfTwo
<1>6. QED
  BY <1>1, <1>2, <1>4, <1>5

LEMMA JumpIs ==
    ASSUME NEW l \in Lists, NEW t \in Int
    PROVE  LET j == JumpTo(l, t)
           IN  /\ ListFine(j) /\ j.rows = l.rows /\ j.y = Bounded(l, Clamp(t, MaxScroll(l)))
               /\ ~j.animating /\ j.follow = (l.rows = <<>> \/ NearBottom(l, j.y))
<1> DEFINE y == Bounded(l, Clamp(t, MaxScroll(l)))
           k == [l EXCEPT !.animating = FALSE, !.y = y]
           j == Follow(k)
           f == l.rows = <<>> \/ NearBottom(l, y)
<1>1. y \in Nat /\ y <= ScrollEnd(l)
  <2>1. MaxScroll(l) \in Int
    BY EndsAre DEF Lists
  <2>2. Clamp(t, MaxScroll(l)) \in Int
    BY <2>1, ClampIs
  <2>3. QED
    BY <2>2, BoundedIs DEF Lists
<1> HIDE DEF y
<1>2. k \in Lists /\ k.rows = l.rows /\ k.y = y /\ ~k.animating
  BY <1>1 DEF Lists
<1>3. MaxScroll(k) = MaxScroll(l)
  BY <1>2 DEF MaxScroll
<1>4. j = [k EXCEPT !.follow = f]
  BY <1>2, <1>3 DEF Follow, NearBottom
<1>5. f \in BOOLEAN
  BY DEF NearBottom
<1> HIDE DEF f, k, j
<1>6. j \in Lists /\ j.rows = l.rows /\ j.y = y /\ ~j.animating /\ j.follow = f
  BY <1>2, <1>4, <1>5 DEF Lists
<1>7. MaxScroll(j) = MaxScroll(l) /\ ScrollEnd(j) = ScrollEnd(l)
  BY <1>6 DEF MaxScroll, ScrollEnd
<1>8. j.follow = (j.rows = <<>> \/ NearBottom(j, j.y))
  BY <1>6, <1>7 DEF f, NearBottom
<1>9. ListFine(j)
  BY <1>1, <1>6, <1>7, <1>8 DEF ListFine, Drawn, FollowsBottom
<1>10. JumpTo(l, t) = j
  BY DEF JumpTo, j, k, y
<1>11. QED
  BY <1>6, <1>9, <1>10 DEF f, y

\* The animation of a list that already is where it is to go need not begin.
LEMMA AnimateIs ==
    ASSUME NEW l, Drawn(l), NEW t \in Int,
           ~l.animating /\ l.y = Clamp(t, MaxScroll(l)) =>
               l.follow = (l.rows = <<>> \/ NearBottom(l, l.y))
    PROVE  ListFine(AnimateTo(l, t)) /\ AnimateTo(l, t).rows = l.rows
<1> DEFINE goal == Clamp(t, MaxScroll(l))
           b == [l EXCEPT !.animating = TRUE, !.goal = goal]
<1>1. goal \in Int
  <2>1. MaxScroll(l) \in Int
    BY EndsAre DEF Drawn, Lists
  <2>2. QED
    BY <2>1, ClampIs
<1>2. AnimateTo(l, t) = IF ~l.animating /\ goal = l.y THEN l ELSE b
  BY DEF AnimateTo
<1>3. CASE ~l.animating /\ goal = l.y
  <2>1. AnimateTo(l, t) = l
    BY <1>2, <1>3
  <2>2. FollowsBottom(l)
    BY <1>3 DEF FollowsBottom
  <2>3. QED
    BY <2>1, <2>2 DEF ListFine
<1>4. CASE ~(~l.animating /\ goal = l.y)
  <2> HIDE DEF goal
  <2>1. b \in Lists /\ b.rows = l.rows /\ b.y = l.y /\ b.animating
    BY <1>1 DEF Drawn, Lists
  <2>2. ScrollEnd(b) = ScrollEnd(l)
    BY <2>1 DEF ScrollEnd, MaxScroll
  <2> HIDE DEF b
  <2>3. ListFine(b)
    BY <2>1, <2>2 DEF ListFine, Drawn, FollowsBottom
  <2>4. QED
    BY <1>2, <1>4, <2>1, <2>3
<1>5. QED
  BY <1>3, <1>4

\* Other rows are drawn.
LEMMA LaidIs ==
    ASSUME NEW l \in Lists
    PROVE  Drawn(Laid(l)) /\ Laid(l).rows = l.rows /\ (l.y <= ScrollEnd(l) => Laid(l) = l)
<1>1. CASE l.y <= ScrollEnd(l)
  BY <1>1 DEF Laid, Drawn
<1>2. CASE ~(l.y <= ScrollEnd(l))
  <2> DEFINE moved == [l EXCEPT !.y = ScrollEnd(l)]
             f == moved.rows = <<>> \/ NearBottom(moved, moved.y)
             b == IF l.animating THEN moved ELSE Follow(moved)
  <2>1. ScrollEnd(l) \in Nat
    BY EndsAre DEF Lists
  <2>2. moved \in Lists /\ moved.rows = l.rows /\ moved.y = ScrollEnd(l)
    BY <2>1 DEF Lists
  <2>3. Laid(l) = b
    BY <1>2 DEF Laid
  <2>4. Follow(moved) = [moved EXCEPT !.follow = f] /\ f \in BOOLEAN
    BY DEF Follow, NearBottom
  <2> HIDE DEF moved, f
  <2>5. b \in Lists /\ b.rows = l.rows /\ b.y = ScrollEnd(l)
    BY <2>2, <2>4 DEF Lists
  <2> HIDE DEF b
  <2>6. ScrollEnd(b) = ScrollEnd(l)
    BY <2>5 DEF ScrollEnd, MaxScroll
  <2>7. QED
    BY <1>2, <2>1, <2>3, <2>5, <2>6 DEF Drawn
<1>3. QED
  BY <1>1, <1>2

LEMMA RebuildIs ==
    ASSUME NEW l \in Lists, NEW ids \in Seq(Nat)
    PROVE  ListFine(Rebuild(l, ids)) /\ Rebuild(l, ids).rows = ids
<1> DEFINE drawn == [l EXCEPT !.rows = ids]
<1>1. drawn \in Lists /\ drawn.rows = ids
  BY DEF Lists
<1>2. Rebuild(l, ids) = JumpTo(Laid(drawn), ScrollEnd(drawn))
  BY DEF Rebuild
<1> HIDE DEF drawn
<1>3. ScrollEnd(drawn) \in Int
  BY <1>1, EndsAre
<1>4. Laid(drawn) \in Lists /\ Laid(drawn).rows = ids
  BY <1>1, LaidIs DEF Drawn
<1>5. QED
  BY <1>2, <1>3, <1>4, JumpIs

LEMMA ScrolledBy ==
    ASSUME NEW l, ListFine(l), NEW amount \in Int
    PROVE  ListFine(ScrollBy(l, amount)) /\ ScrollBy(l, amount).rows = l.rows
<1> DEFINE base   == IF l.animating THEN l.goal ELSE l.y
           target == Clamp(base - amount, MaxScroll(l))
           near   == NearBottom(l, target)
           b      == [l EXCEPT !.follow = near]
<1>1. l \in Lists /\ l.y <= ScrollEnd(l) /\ MaxScroll(l) \in Int
  BY EndsAre DEF ListFine, Drawn, Lists
<1>2. base - amount \in Int /\ target \in Int /\ near \in BOOLEAN
  <2>1. base - amount \in Int
    BY <1>1 DEF Lists
  <2> HIDE DEF base
  <2>2. QED
    BY <1>1, <2>1, ClampIs DEF NearBottom
<1>3. ScrollBy(l, amount) = AnimateTo(b, target)
  BY DEF ScrollBy
<1>4. target = Clamp(target, MaxScroll(l))
  <2>1. target = LET t == base - amount  m == MaxScroll(l)
                 IN  IF m < 0 THEN m ELSE IF t < 0 THEN 0 ELSE IF t > m THEN m ELSE t
    BY <1>1, <1>2, ClampIs
  <2> HIDE DEF target, base
  <2>2. QED
    BY <1>1, <1>2, <2>1, ClampIs
<1> HIDE DEF target
<1>5. b \in Lists /\ b.rows = l.rows /\ b.y = l.y /\ b.follow = near
  BY <1>1, <1>2 DEF Lists
<1> HIDE DEF b
<1>6. MaxScroll(b) = MaxScroll(l) /\ ScrollEnd(b) = ScrollEnd(l)
  BY <1>5 DEF ScrollEnd, MaxScroll
<1>7. Drawn(b)
  BY <1>1, <1>5, <1>6 DEF Drawn
<1>8. b.rows = <<>> /\ b.y = Clamp(target, MaxScroll(b)) => near
  <2>1. b.rows = <<>> => MaxScroll(l) < 0
    BY <1>5, ListAssumption DEF MaxScroll
  <2>2. b.rows = <<>> => target = MaxScroll(l)
    BY <1>1, <1>2, <1>4, <2>1, ClampIs
  <2>3. QED
    BY <1>1, <2>2, ListAssumption DEF NearBottom
<1>9. NearBottom(b, target) = near
  BY <1>6 DEF NearBottom
<1>10. ASSUME b.y = Clamp(target, MaxScroll(b)) PROVE b.follow = (b.rows = <<>> \/ NearBottom(b, b.y))
  <2>1. b.y = target
    BY <1>4, <1>6, <1>10
  <2>2. NearBottom(b, b.y) = near
    BY <1>9, <2>1
  <2>3. b.rows = <<>> => near
    BY <1>8, <1>10
  <2> HIDE DEF near
  <2>4. QED
    BY <1>2, <1>5, <2>2, <2>3
<1>11. QED
  BY <1>2, <1>3, <1>5, <1>7, <1>10, AnimateIs

\* To the last rows.
LEMMA ScrolledToEnd ==
    ASSUME NEW l, Drawn(l)
    PROVE  LET b == AnimateTo([l EXCEPT !.follow = TRUE], MaxScroll([l EXCEPT !.follow = TRUE]))
           IN  ListFine(b) /\ b.rows = l.rows
<1> DEFINE b == [l EXCEPT !.follow = TRUE]
<1>1. b \in Lists /\ b.rows = l.rows /\ b.y = l.y /\ b.follow = TRUE
  BY DEF Drawn, Lists
<1> HIDE DEF b
<1>2. MaxScroll(b) = MaxScroll(l) /\ ScrollEnd(b) = ScrollEnd(l) /\ MaxScroll(b) \in Int
  BY <1>1, EndsAre DEF ScrollEnd, MaxScroll, Lists
<1>3. Drawn(b)
  BY <1>1, <1>2 DEF Drawn
<1>4. Clamp(MaxScroll(b), MaxScroll(b)) = MaxScroll(b)
  BY <1>2, ClampIs
<1>5. NearBottom(b, MaxScroll(b))
  BY <1>2, ListAssumption DEF NearBottom
<1>6. ListFine(AnimateTo(b, MaxScroll(b))) /\ AnimateTo(b, MaxScroll(b)).rows = b.rows
  BY <1>1, <1>2, <1>3, <1>4, <1>5, AnimateIs
<1>7. QED
  BY <1>1, <1>6 DEF b

LEMMA ScrolledToBottom ==
    ASSUME NEW l, ListFine(l)
    PROVE  ListFine(ScrollToBottom(l)) /\ ScrollToBottom(l).rows = l.rows
<1>1. MaxScroll([l EXCEPT !.follow = TRUE]) = MaxScroll(l) /\ Drawn(l)
  BY DEF MaxScroll, ListFine, Drawn, Lists
<1>2. QED
  BY <1>1, ScrolledToEnd DEF ScrollToBottom

LEMMA ListTicked ==
    ASSUME NEW l, ListFine(l), NEW m \in ListTick(l)
    PROVE  ListFine(m) /\ m.rows = l.rows /\ (~l.animating => m = l)
<1> DEFINE goal == Bounded(l, l.goal)
           way  == IF goal < l.y THEN goal .. l.y ELSE l.y .. goal
<1>1. l \in Lists /\ l.y \in Nat /\ l.y <= ScrollEnd(l) /\ goal \in Nat /\ goal <= ScrollEnd(l) /\ ScrollEnd(l) \in Nat
  BY BoundedIs, EndsAre DEF ListFine, Drawn, Lists
<1>2. CASE ~l.animating
  BY <1>2 DEF ListTick
<1>3. CASE l.animating /\ \E y \in way : m = [l EXCEPT !.y = y]
  <2>1. PICK y \in way : m = [l EXCEPT !.y = y]
    BY <1>3
  <2>2. y \in Nat /\ y <= ScrollEnd(l)
    <3> HIDE DEF goal
    <3>1. QED
      BY <1>1, <2>1
  <2>3. m \in Lists /\ m.rows = l.rows /\ m.y = y /\ m.animating
    BY <1>1, <1>3, <2>1, <2>2 DEF Lists
  <2>4. ScrollEnd(m) = ScrollEnd(l)
    BY <2>3 DEF ScrollEnd, MaxScroll
  <2>5. ListFine(m)
    BY <2>2, <2>3, <2>4 DEF ListFine, Drawn, FollowsBottom
  <2>6. QED
    BY <1>3, <2>3, <2>5
<1>4. CASE l.animating /\ m = JumpTo(l, l.goal)
  <2>1. l.goal \in Int
    BY <1>1 DEF Lists
  <2>2. QED
    BY <1>1, <1>4, <2>1, JumpIs
<1>5. QED
  BY <1>2, <1>3, <1>4 DEF ListTick

-----------------------------------------------------------------------------
(* A message is added to the history, and to the list.                     *)

\* The history m, when the next message is the n-th.
Numbered(m, n) ==
    /\ m \in Seq(Nat) /\ n \in Nat /\ Len(m) <= HistoryLimit
    /\ \A k \in 1 .. Len(m) : m[k] = n - Len(m) + k - 1

Kept(m)    == IF Len(m) >= HistoryLimit THEN Tail(m) ELSE m
Dropped(m) == IF Len(m) >= HistoryLimit THEN 1 ELSE 0

LEMMA KeptIs ==
    ASSUME NEW m, NEW n, Numbered(m, n)
    PROVE  LET ids == Append(Kept(m), n)
           IN  /\ Kept(m) \in Seq(Nat) /\ Len(Kept(m)) = Len(m) - Dropped(m)
               /\ \A k \in 1 .. Len(m) - Dropped(m) : Kept(m)[k] = m[k + Dropped(m)]
               /\ Dropped(m) \in {0, 1} /\ (Dropped(m) = 1 => Len(m) = HistoryLimit)
               /\ (Dropped(m) = 0 => Len(m) < HistoryLimit)
               /\ ids \in Seq(Nat) /\ Len(ids) = Len(m) - Dropped(m) + 1
               /\ \A k \in 1 .. Len(m) - Dropped(m) : ids[k] = m[k + Dropped(m)]
               /\ ids[Len(m) - Dropped(m) + 1] = n
               /\ Numbered(ids, n + 1)
<1> DEFINE s == Kept(m)
           d == Dropped(m)
           ids == Append(s, n)
<1>1. m \in Seq(Nat) /\ n \in Nat /\ Len(m) \in Nat /\ HistoryLimit \in Nat /\ HistoryLimit > 0 /\ Len(m) <= HistoryLimit
  BY ListAssumption DEF Numbered
<1>2. /\ s \in Seq(Nat) /\ Len(s) = Len(m) - d /\ \A k \in 1 .. Len(m) - d : s[k] = m[k + d]
      /\ d \in {0, 1} /\ (d = 1 => Len(m) = HistoryLimit) /\ (d = 0 => Len(m) < HistoryLimit)
  <2>1. CASE Len(m) >= HistoryLimit
    <3>1. s = Tail(m) /\ d = 1 /\ Len(m) = HistoryLimit /\ m # <<>>
      BY <1>1, <2>1 DEF Kept, Dropped
    <3>2. s \in Seq(Nat) /\ Len(s) = Len(m) - 1 /\ \A k \in 1 .. Len(m) - 1 : s[k] = m[k + 1]
      BY <1>1, <3>1
    <3>3. QED
      BY <3>1, <3>2
  <2>2. CASE Len(m) < HistoryLimit
    <3>1. s = m /\ d = 0
      BY <1>1, <2>2 DEF Kept, Dropped
    <3>2. QED
      BY <1>1, <2>2, <3>1
  <2>3. QED
    BY <1>1, <2>1, <2>2
<1> HIDE DEF s, d
<1>3. /\ ids \in Seq(Nat) /\ Len(ids) = Len(m) - d + 1
      /\ \A k \in 1 .. Len(m) - d : ids[k] = s[k]
      /\ ids[Len(m) - d + 1] = n
  BY <1>1, <1>2
<1> HIDE DEF ids
<1>4. Numbered(ids, n + 1)
  <2>1. Len(ids) <= HistoryLimit
    BY <1>1, <1>2, <1>3
  <2>2. ASSUME NEW k \in 1 .. Len(ids) PROVE ids[k] = (n + 1) - Len(ids) + k - 1
    <3>1. CASE k = Len(m) - d + 1
      BY <1>1, <1>2, <1>3, <3>1
    <3>2. CASE k \in 1 .. Len(m) - d
      <4>1. ids[k] = m[k + d] /\ k + d \in 1 .. Len(m)
        <5>1. ids[k] = s[k] /\ s[k] = m[k + d]
          BY <1>2, <1>3, <3>2
        <5>2. k + d \in 1 .. Len(m)
          BY <1>1, <1>2, <3>2
        <5>3. QED
          BY <5>1, <5>2
      <4>2. m[k + d] = n - Len(m) + (k + d) - 1
        BY <4>1 DEF Numbered
      <4>3. QED
        BY <1>1, <1>2, <1>3, <4>1, <4>2
    <3>3. QED
      BY <1>1, <1>2, <1>3, <3>1, <3>2
  <2>3. QED
    BY <1>1, <1>3, <2>1, <2>2 DEF Numbered
<1>5. QED
  BY <1>2, <1>3, <1>4 DEF s, d, ids

LEMMA SameElements ==
    ASSUME NEW s \in Seq(Nat), NEW t \in Seq(Nat), Len(t) = Len(s), \A k \in 1 .. Len(t) : t[k] = s[k]
    PROVE  t = s
OBVIOUS

LEMMA RowsAfter ==
    ASSUME NEW q \in Seq(Nat), NEW d \in 0 .. Len(q)
    PROVE  LET t == SubSeq(q, d + 1, Len(q))
           IN  t \in Seq(Nat) /\ Len(t) = Len(q) - d /\ \A k \in 1 .. Len(q) - d : t[k] = q[d + k]
<1> DEFINE t == SubSeq(q, d + 1, Len(q))
<1>1. Len(q) \in Nat /\ Len(t) = Len(q) - d
  OBVIOUS
<1>2. t \in Seq(Nat)
  OBVIOUS
<1>3. ASSUME NEW k \in 1 .. Len(q) - d PROVE t[k] = q[d + k]
  <2>1. k \in 1 .. Len(q) - (d + 1) + 1 /\ (d + 1) + k - 1 = d + k
    BY <1>1
  <2>2. d + 1 \in Nat /\ Len(q) \in Nat
    BY <1>1
  <2>3. t[k] = q[(d + 1) + k - 1]
    BY <2>1, <2>2
  <2>4. QED
    BY <2>1, <2>3
<1>4. QED
  BY <1>1, <1>2, <1>3

\* The rows that go are those before the first message kept.
LEMMA RowsRemoved ==
    ASSUME NEW m, NEW n, Numbered(m, n)
    PROVE  RemoveCount(m, Append(Kept(m), n)) = Dropped(m)
<1> DEFINE ids == Append(Kept(m), n)
           d == Dropped(m)
           Before(i) == /\ \A k \in 1 .. i : m[k] # ids[1]
                        /\ i < Len(m) => m[i + 1] = ids[1]
<1>1. /\ m \in Seq(Nat) /\ Len(m) \in Nat /\ HistoryLimit \in Nat /\ HistoryLimit > 1 /\ n \in Nat
      /\ \A k \in 1 .. Len(m) : m[k] = n - Len(m) + k - 1
  BY ListAssumption DEF Numbered
<1>2. /\ d \in {0, 1} /\ (d = 1 => Len(m) = HistoryLimit)
      /\ \A k \in 1 .. Len(m) - d : ids[k] = m[k + d]
      /\ ids[Len(m) - d + 1] = n
  BY KeptIs
<1> HIDE DEF ids, d
<1>3. RemoveCount(m, ids) = CHOOSE i \in 0 .. Len(m) : Before(i)
  BY DEF RemoveCount
<1>4. d \in 0 .. Len(m) /\ Before(d)
  <2>1. d \in 0 .. Len(m)
    BY <1>1, <1>2
  <2>2. CASE Len(m) = 0
    BY <1>1, <1>2, <2>2
  <2>3. CASE Len(m) # 0
    <3>1. 1 \in 1 .. Len(m) - d /\ d + 1 \in 1 .. Len(m)
      BY <1>1, <1>2, <2>3
    <3>2. ids[1] = m[d + 1]
      BY <1>2, <3>1
    <3>3. ASSUME NEW k \in 1 .. d PROVE m[k] # m[d + 1]
      <4>1. k = 1 /\ d = 1 /\ 1 \in 1 .. Len(m) /\ 2 \in 1 .. Len(m)
        BY <1>1, <1>2, <3>1
      <4>2. m[1] = n - Len(m) + 1 - 1 /\ m[2] = n - Len(m) + 2 - 1
        BY <1>1, <4>1
      <4>3. m[1] # m[2]
        BY <1>1, <4>2
      <4>4. QED
        BY <4>1, <4>3
    <3>4. QED
      BY <2>1, <3>2, <3>3
  <2>4. QED
    BY <2>2, <2>3
<1>5. ASSUME NEW i \in 0 .. Len(m), Before(i) PROVE i = d
  <2>1. CASE i < d
    <3>1. i + 1 \in 1 .. d /\ i < Len(m)
      BY <1>1, <1>4, <2>1
    <3>2. QED
      BY <1>4, <1>5, <3>1
  <2>2. CASE d < i
    <3>1. d + 1 \in 1 .. i /\ d < Len(m)
      BY <1>1, <1>4, <2>2
    <3>2. QED
      BY <1>4, <1>5, <3>1
  <2>3. QED
    BY <1>1, <1>4, <2>1, <2>2
<1> HIDE DEF Before
<1>6. QED
  BY <1>3, <1>4, <1>5 DEF ids, d

\* The list is changed row by row.
LEMMA UpdateIs ==
    ASSUME NEW l, NEW n, Numbered(l.rows, n)
    PROVE  LET m       == l.rows
               ids     == Append(Kept(m), n)
               follow  == m = <<>> \/ l.follow
               cut     == [l EXCEPT !.rows = Kept(m)]
               placed  == IF follow \/ Dropped(m) = 0 THEN cut ELSE JumpTo(Laid(cut), PlaceAfter(l, Dropped(m)))
               drawn   == Laid([placed EXCEPT !.rows = ids])
           IN  Update(l, ids) = IF follow THEN AnimateTo([drawn EXCEPT !.follow = TRUE], MaxScroll(drawn)) ELSE drawn
<1> DEFINE m   == l.rows
           s   == Kept(m)
           d   == Dropped(m)
           ids == Append(s, n)
<1>1. /\ m \in Seq(Nat) /\ Len(m) \in Nat /\ s \in Seq(Nat) /\ Len(s) = Len(m) - d /\ d \in {0, 1}
      /\ \A k \in 1 .. Len(m) - d : s[k] = m[k + d]
      /\ (d = 1 => Len(m) = HistoryLimit) /\ n \in Nat
  <2>1. m \in Seq(Nat) /\ n \in Nat /\ Len(m) \in Nat
    BY DEF Numbered
  <2>2. /\ s \in Seq(Nat) /\ Len(s) = Len(m) - d /\ d \in {0, 1}
        /\ \A k \in 1 .. Len(m) - d : s[k] = m[k + d]
        /\ (d = 1 => Len(m) = HistoryLimit)
    BY KeptIs
  <2> HIDE DEF s, d
  <2>3. QED
    BY <2>1, <2>2
<1>2. RemoveCount(m, ids) = d
  BY RowsRemoved
<1> HIDE DEF s, d
<1>3. SubSeq(m, d + 1, Len(m)) = s
  <2> DEFINE t == SubSeq(m, d + 1, Len(m))
  <2>1. t \in Seq(Nat) /\ Len(t) = Len(m) - d /\ \A k \in 1 .. Len(m) - d : t[k] = m[d + k]
    <3>1. d \in 0 .. Len(m)
      BY <1>1, ListAssumption
    <3> HIDE DEF m
    <3>2. QED
      BY <1>1, <3>1, RowsAfter
  <2> HIDE DEF t
  <2>2. ASSUME NEW k \in 1 .. Len(m) - d PROVE t[k] = s[k]
    <3>1. t[k] = m[d + k] /\ d + k = k + d /\ s[k] = m[k + d]
      BY <1>1, <2>1
    <3>2. QED
      BY <3>1
  <2>3. t = s
    <3>1. Len(t) = Len(s) /\ \A k \in 1 .. Len(t) : t[k] = s[k]
      BY <1>1, <2>1, <2>2
    <3>2. s \in Seq(Nat) /\ t \in Seq(Nat)
      BY <1>1, <2>1
    <3>3. QED
      BY <3>1, <3>2, SameElements
  <2>4. QED
    BY <2>3 DEF t
<1>4. IsPrefix(s, ids)
  <2>1. Len(s) <= Len(ids) /\ SubSeq(s, 1, Len(s)) = s
    BY <1>1
  <2>2. SubSeq(ids, 1, Len(s)) = s
    BY <1>1
  <2>3. QED
    BY <2>1, <2>2 DEF IsPrefix
<1>5. ~(m # <<>> /\ s = <<>>)
  BY <1>1, ListAssumption
<1>6. s \o SubSeq(ids, Len(s) + 1, Len(ids)) = ids
  <2>1. Len(ids) = Len(s) + 1 /\ ids \in Seq(Nat) /\ ids[Len(s) + 1] = n
    BY <1>1
  <2>2. SubSeq(ids, Len(s) + 1, Len(s) + 1) = <<n>>
    <3> DEFINE t == SubSeq(ids, Len(s) + 1, Len(s) + 1)
    <3>1. Len(t) = 1 /\ t \in Seq(Nat) /\ t[1] = ids[Len(s) + 1]
      BY <1>1, <2>1
    <3> HIDE DEF t, ids
    <3>2. t = <<n>>
      BY <2>1, <3>1
    <3>3. QED
      BY <3>2 DEF t
  <2>3. s \o <<n>> = ids
    BY <1>1
  <2>4. QED
    BY <2>1, <2>2, <2>3
<1>7. Update(l, ids) =
        LET follow  == m = <<>> \/ l.follow
            cut     == [l EXCEPT !.rows = s]
            placed  == IF follow \/ d = 0 THEN cut ELSE JumpTo(Laid(cut), PlaceAfter(l, d))
            drawn   == Laid([placed EXCEPT !.rows = ids])
        IN  IF follow THEN AnimateTo([drawn EXCEPT !.follow = TRUE], MaxScroll(drawn)) ELSE drawn
  <2> HIDE DEF ids
  <2>1. QED
    BY <1>2, <1>3, <1>4, <1>5, <1>6 DEF Update
<1>8. QED
  BY <1>7 DEF s, d

\* A reader is d rows nearer to the top of the list, or on top of it.
Stays(l, b, d) == Reading(l) => Reading(b) /\ b.y = IF l.y >= d THEN l.y - d ELSE 0

LEMMA MessageShown ==
    ASSUME NEW l, ListFine(l), NEW n, Numbered(l.rows, n)
    PROVE  LET b == SetMessages(l, Append(Kept(l.rows), n))
           IN  ListFine(b) /\ b.rows = Append(Kept(l.rows), n) /\ Stays(l, b, Dropped(l.rows))
<1> DEFINE m   == l.rows
           s   == Kept(m)
           d   == Dropped(m)
           ids == Append(s, n)
           follow  == m = <<>> \/ l.follow
           start   == [l EXCEPT !.rows = s]
           cut     == Laid(start)
           placed  == IF follow \/ d = 0 THEN start ELSE JumpTo(cut, PlaceAfter(l, d))
           next    == [placed EXCEPT !.rows = ids]
           drawn   == Laid(next)
           b       == IF follow THEN AnimateTo([drawn EXCEPT !.follow = TRUE], MaxScroll(drawn)) ELSE drawn
<1>1. /\ l \in Lists /\ l.y \in Nat /\ l.y <= ScrollEnd(l) /\ FollowsBottom(l) /\ Len(m) \in Nat /\ m \in Seq(Nat)
      /\ l.follow \in BOOLEAN /\ l.animating \in BOOLEAN /\ l.synced = TRUE
  <2>1. l \in Lists /\ l.y <= ScrollEnd(l) /\ FollowsBottom(l)
    BY DEF ListFine, Drawn
  <2>2. l.y \in Nat /\ m \in Seq(Nat) /\ l.follow \in BOOLEAN /\ l.animating \in BOOLEAN /\ l.synced = TRUE
    BY <2>1 DEF Lists
  <2> HIDE DEF m
  <2>3. Len(m) \in Nat
    BY <2>2
  <2>4. QED
    BY <2>1, <2>2, <2>3
<1>2. /\ s \in Seq(Nat) /\ Len(s) = Len(m) - d /\ d \in {0, 1} /\ (d = 1 => Len(m) = HistoryLimit)
      /\ ids \in Seq(Nat) /\ Len(ids) = Len(m) - d + 1 /\ ids[Len(m) - d + 1] = n
      /\ (d = 0 => Len(m) < HistoryLimit)
  BY KeptIs
<1>3. /\ HistoryLimit \in Nat /\ Viewport \in Nat \ {0} /\ FollowDistance \in Nat
      /\ HistoryLimit > Viewport + FollowDistance + 1
  BY ListAssumption
<1>4. SetMessages(l, ids) = b
  <2>1. Update(l, ids) = b
    BY UpdateIs
  <2>2. m # ids
    <3>1. \A k \in 1 .. Len(m) : m[k] = n - Len(m) + k - 1
      BY DEF Numbered
    <3>2. n \in Nat
      BY DEF Numbered
    <3> HIDE DEF ids, d
    <3>3. CASE d = 1
      <4>1. Len(m) \in 1 .. Len(m)
        BY <1>1, <1>2, <1>3, <3>3
      <4>2. m[Len(m)] = n - 1 /\ ids[Len(m)] = n
        <5> HIDE DEF m
        <5>1. m[Len(m)] = n - Len(m) + Len(m) - 1
          BY <3>1, <4>1
        <5>2. ids[Len(m)] = n
          BY <1>1, <1>2, <3>3
        <5>3. QED
          BY <1>1, <3>2, <5>1, <5>2
      <4>3. QED
        BY <3>2, <4>2
    <3>4. CASE d = 0
      BY <1>1, <1>2, <3>4
    <3>5. QED
      BY <1>2, <3>3, <3>4
  <2>3. ids # <<>>
    OBVIOUS
  <2>4. Max({0, Len(ids) - HistoryLimit}) = 0
    <3>1. Len(ids) - HistoryLimit \in Int /\ Len(ids) - HistoryLimit <= 0
      BY <1>1, <1>2, <1>3
    <3>2. Max({0, Len(ids) - HistoryLimit}) = IF 0 < Len(ids) - HistoryLimit THEN Len(ids) - HistoryLimit ELSE 0
      BY <3>1, MaxOfTwo
    <3>3. QED
      BY <3>1, <3>2
  <2>5. SubSeq(ids, 0 + 1, Len(ids)) = ids
    BY <1>2
  <2> HIDE DEF ids, b
  <2>6. QED
    BY <1>1, <2>1, <2>2, <2>3, <2>4, <2>5 DEF SetMessages, Unchanged
<1> HIDE DEF s, d, ids
<1>5. start \in Lists /\ start.rows = s /\ start.y = l.y /\ start.animating = l.animating /\ start.follow = l.follow
  BY <1>1, <1>2 DEF Lists
<1>6. start = [l EXCEPT !.rows = s]
  OBVIOUS
<1> HIDE DEF start
<1>7. Drawn(cut) /\ cut.rows = s /\ (start.y <= ScrollEnd(start) => cut = start)
  BY <1>5, LaidIs
<1> HIDE DEF cut
<1>8. placed \in Lists /\ placed.rows = s
  <2>1. CASE follow \/ d = 0
    BY <1>5, <2>1
  <2>2. CASE ~(follow \/ d = 0)
    <3>1. PlaceAfter(l, d) \in Int /\ cut \in Lists
      BY <1>1, <1>2, <1>7 DEF PlaceAfter, Drawn
    <3>2. QED
      BY <1>7, <2>2, <3>1, JumpIs DEF ListFine, Drawn
  <2>3. QED
    BY <2>1, <2>2
<1>9. placed = IF follow \/ d = 0 THEN start ELSE JumpTo(cut, PlaceAfter(l, d))
  OBVIOUS
<1> HIDE DEF placed
<1>10. /\ next \in Lists /\ next.rows = ids /\ next.y = placed.y /\ next.animating = placed.animating
       /\ next.follow = placed.follow
  BY <1>2, <1>8 DEF Lists
<1> HIDE DEF next
<1>11. Drawn(drawn) /\ drawn.rows = ids /\ (next.y <= ScrollEnd(next) => drawn = next)
  BY <1>10, LaidIs
<1> HIDE DEF drawn
<1>12. /\ MaxScroll(l) = Len(m) - Viewport /\ MaxScroll(next) = Len(m) - d + 1 - Viewport
       /\ MaxScroll(cut) = Len(m) - d - Viewport
       /\ ScrollEnd(l) = IF MaxScroll(l) < 0 THEN 0 ELSE MaxScroll(l)
       /\ ScrollEnd(next) = IF MaxScroll(next) < 0 THEN 0 ELSE MaxScroll(next)
       /\ ScrollEnd(cut) = IF MaxScroll(cut) < 0 THEN 0 ELSE MaxScroll(cut)
  <2>1. /\ MaxScroll(l) = Len(m) - Viewport /\ MaxScroll(next) = Len(ids) - Viewport
        /\ MaxScroll(cut) = Len(s) - Viewport
    BY <1>7, <1>10 DEF MaxScroll
  <2>2. Len(m) - d + 1 - Viewport = Len(ids) - Viewport /\ Len(m) - d - Viewport = Len(s) - Viewport
    <3> HIDE DEF m
    <3>1. Len(ids) = Len(m) - d + 1 /\ Len(s) = Len(m) - d
      BY <1>2
    <3>2. QED
      BY <1>1, <1>2, <1>3, <3>1
  <2>3. QED
    BY <2>1, <2>2 DEF ScrollEnd
\* The list that follows goes to its new end.
<1>13. CASE follow
  <2>1. MaxScroll([drawn EXCEPT !.follow = TRUE]) = MaxScroll(drawn)
    BY <1>11 DEF Drawn, Lists, MaxScroll
  <2>2. ListFine(b) /\ b.rows = drawn.rows
    BY <1>11, <1>13, <2>1, ScrolledToEnd
  <2>3. ~Reading(l)
    <3>1. CASE m = <<>>
      <4>1. FollowsBottom(l) /\ l.rows = <<>>
        BY <1>1, <3>1
      <4>2. QED
        BY <4>1 DEF FollowsBottom, Reading
    <3>2. CASE l.follow
      BY <3>2 DEF Reading
    <3>3. QED
      BY <1>13, <3>1, <3>2
  <2>4. QED
    BY <1>4, <1>11, <2>2, <2>3 DEF Stays, ids, s, d
\* Nothing goes: the list stays where it is.
<1>14. CASE ~follow /\ d = 0
  <2>1. s = m
    BY <1>2, <1>3, <1>14 DEF s, d, Kept, Dropped
  <2>2. start = l
    BY <1>1, <1>6, <2>1 DEF Lists
  <2>3. placed = l
    BY <1>9, <1>14, <2>2
  <2>4. drawn = next /\ b = next
    BY <1>1, <1>3, <1>10, <1>11, <1>12, <1>14, <2>3
  <2>5. ASSUME ~l.animating PROVE ~next.follow /\ ~NearBottom(next, next.y) /\ next.rows # <<>>
    <3>1. ~NearBottom(l, l.y)
      BY <1>1, <1>14, <2>5 DEF FollowsBottom
    <3>2. ~(MaxScroll(next) - next.y <= FollowDistance)
      BY <1>1, <1>3, <1>10, <1>12, <1>14, <2>3, <3>1 DEF NearBottom
    <3>3. Len(next.rows) > 0
      BY <1>1, <1>2, <1>10, <1>14
    <3>4. QED
      BY <1>10, <1>14, <2>3, <3>2, <3>3 DEF NearBottom
  <2>6. FollowsBottom(next)
    BY <1>10, <2>3, <2>5 DEF FollowsBottom
  <2>7. ListFine(b) /\ b.rows = ids
    BY <1>11, <2>4, <2>6 DEF ListFine
  <2>8. Stays(l, b, 0)
    BY <1>1, <1>10, <2>3, <2>4 DEF Stays, Reading
  <2>9. QED
    BY <1>4, <1>14, <2>7, <2>8 DEF ids, s, d
\* The oldest row goes: the list is put where it was, among the rows that are left.
<1>15. CASE ~follow /\ d = 1
  <2> DEFINE t == PlaceAfter(l, d)
  <2>1. t = l.y - 1 /\ t \in Int /\ cut \in Lists
    BY <1>1, <1>7, <1>15 DEF PlaceAfter, Drawn
  <2>2. placed = JumpTo(cut, t)
    BY <1>9, <1>15
  <2> HIDE DEF t
  <2>3. /\ ListFine(placed) /\ placed.y = Bounded(cut, Clamp(t, MaxScroll(cut))) /\ ~placed.animating
        /\ placed.follow = (s = <<>> \/ NearBottom(cut, placed.y))
    BY <1>7, <2>1, <2>2, JumpIs
  <2>4. Len(m) = HistoryLimit /\ MaxScroll(cut) = HistoryLimit - 1 - Viewport /\ ScrollEnd(cut) = MaxScroll(cut)
    BY <1>2, <1>3, <1>12, <1>15
  <2>5. s # <<>> /\ placed.y \in Nat /\ placed.y <= ScrollEnd(cut)
    <3>1. s # <<>>
      BY <1>2, <1>3, <1>15
    <3>2. ScrollEnd(placed) = ScrollEnd(cut)
      BY <1>7, <1>8 DEF ScrollEnd, MaxScroll
    <3>3. QED
      BY <2>3, <3>1, <3>2 DEF ListFine, Drawn, Lists
  <2>6. drawn = next /\ b = next
    <3>1. next.y <= ScrollEnd(next)
      BY <1>3, <1>10, <1>12, <1>15, <2>4, <2>5
    <3>2. QED
      BY <1>11, <1>15, <3>1
  <2>7. NearBottom(next, next.y) => next.follow
    <3>1. NearBottom(next, next.y) => NearBottom(cut, placed.y)
      <4>1. MaxScroll(next) = MaxScroll(cut) + 1 /\ MaxScroll(cut) \in Int /\ next.y = placed.y
        BY <1>3, <1>10, <1>12, <1>15, <2>4
      <4>2. QED
        BY <1>3, <2>5, <4>1 DEF NearBottom
    <3>2. QED
      BY <1>10, <2>3, <3>1
  <2>8. FollowsBottom(next)
    <3>1. next.rows # <<>> /\ Len(next.rows) = HistoryLimit
      BY <1>1, <1>2, <1>3, <1>10, <1>15, <2>4
    <3>2. next.follow => MaxScroll(next) - 1 - next.y <= FollowDistance
      <4>1. next.follow => NearBottom(cut, placed.y)
        BY <1>10, <2>3, <2>5
      <4>2. MaxScroll(next) - 1 = MaxScroll(cut) /\ next.y = placed.y
        BY <1>3, <1>10, <1>12, <1>15, <2>4
      <4>3. QED
        BY <4>1, <4>2 DEF NearBottom
    <3>3. QED
      BY <2>7, <3>1, <3>2 DEF FollowsBottom
  <2>9. ListFine(b) /\ b.rows = ids
    BY <1>11, <2>6, <2>8 DEF ListFine
  <2>10. ASSUME Reading(l) PROVE Reading(b) /\ b.y = IF l.y >= 1 THEN l.y - 1 ELSE 0
    <3>1. ~NearBottom(l, l.y)
      BY <1>1, <2>10 DEF FollowsBottom, Reading
    <3>2. HistoryLimit - Viewport - l.y > FollowDistance
      BY <1>1, <1>3, <1>12, <2>4, <3>1 DEF NearBottom
    <3> DEFINE c == Clamp(t, MaxScroll(cut))
    <3>3. c = IF l.y >= 1 THEN l.y - 1 ELSE 0
      <4>1. MaxScroll(cut) \in Int /\ MaxScroll(cut) >= 0
        BY <1>3, <2>4
      <4>2. c = IF MaxScroll(cut) < 0 THEN MaxScroll(cut) ELSE IF t < 0 THEN 0
                ELSE IF t > MaxScroll(cut) THEN MaxScroll(cut) ELSE t
        BY <2>1, <4>1, ClampIs
      <4> HIDE DEF c
      <4>3. QED
        BY <1>1, <1>3, <2>1, <2>4, <3>2, <4>1, <4>2
    <3>4. c \in Nat /\ c <= ScrollEnd(cut)
      <4> HIDE DEF c
      <4>1. QED
        BY <1>1, <1>3, <2>4, <3>2, <3>3
    <3> HIDE DEF c
    <3>5. placed.y = c
      <4>1. placed.y = Bounded(cut, c)
        BY <2>3 DEF c
      <4>2. cut.rows \in Seq(Nat) /\ c \in Int
        BY <1>2, <1>7, <3>4
      <4>3. QED
        BY <3>4, <4>1, <4>2, BoundedIs
    <3>6. ~NearBottom(cut, placed.y)
      BY <1>1, <1>3, <2>4, <3>2, <3>3, <3>5 DEF NearBottom
    <3>7. ~next.follow /\ ~next.animating /\ next.y = c
      BY <1>10, <2>3, <2>5, <3>5, <3>6
    <3>8. QED
      BY <2>6, <3>3, <3>7 DEF Reading
  <2>11. QED
    BY <1>4, <1>15, <2>9, <2>10 DEF Stays, ids, s, d
<1>16. QED
  BY <1>2, <1>13, <1>14, <1>15

-----------------------------------------------------------------------------
(* What leaves the list and the history as they are.                       *)

Formed(a) ==
    /\ {"model", "view"} \subseteq DOMAIN a
    /\ {"messages", "nextMessage"} \subseteq DOMAIN a.model
    /\ {"list", "attached"} \subseteq DOMAIN a.view

Place(a) == [attached |-> a.view.attached, list |-> a.view.list,
             messages |-> a.model.messages, next |-> a.model.nextMessage]

Still(a, b) == Formed(b) /\ Place(b) = Place(a)

LEMMA StillTwice == ASSUME NEW a, NEW b, NEW c, Still(a, b), Still(b, c) PROVE Still(a, c)
BY DEF Still

LEMMA StillItself == ASSUME NEW a, Formed(a) PROVE Still(a, a)
BY DEF Still

LEMMA StillIs ==
    ASSUME NEW a, NEW b, Still(a, b)
    PROVE  /\ Formed(b) /\ b.view.attached = a.view.attached /\ b.view.list = a.view.list
           /\ b.model.messages = a.model.messages /\ b.model.nextMessage = a.model.nextMessage
BY DEF Still, Place

LEMMA StillShown ==
    ASSUME NEW a, NEW b, Still(a, b), b.view.attached = a.view.attached,
           NEW v, {"list", "attached"} \subseteq DOMAIN v, v.list = a.view.list, v.attached = a.view.attached
    PROVE  Still(a, Shown(b, v))
<1> DEFINE s == [b EXCEPT !.view = v]
<1>1. Still(a, s)
  <2>1. DOMAIN s = DOMAIN b /\ "view" \in DOMAIN b /\ "model" \in DOMAIN b
    BY DEF Still, Formed
  <2>2. s.view = v /\ s.model = b.model
    BY <2>1
  <2> HIDE DEF s
  <2>3. QED
    BY <2>1, <2>2 DEF Still, Formed, Place
<1>2. QED
  BY <1>1 DEF Shown

\* What the page has besides the list.
LEMMA StillView ==
    ASSUME NEW v, {"list", "attached"} \subseteq DOMAIN v, NEW e
    PROVE  LET Same(w) == {"list", "attached"} \subseteq DOMAIN w /\ w.list = v.list /\ w.attached = v.attached
           IN  /\ Same([v EXCEPT !.editor = e]) /\ Same([v EXCEPT !.infoPage = e])
               /\ Same([v EXCEPT !.help = e]) /\ Same([v EXCEPT !.failure = e])
OBVIOUS

LEMMA StillCovered ==
    ASSUME NEW v, {"list", "attached"} \subseteq DOMAIN v, NEW on
    PROVE  LET w == Covered(v, on)
           IN  {"list", "attached"} \subseteq DOMAIN w /\ w.list = v.list /\ w.attached = v.attached
BY DEF Covered

LEMMA StillModel ==
    ASSUME NEW a, Formed(a), NEW x
    PROVE  /\ Still(a, [a EXCEPT !.model.draft = x]) /\ Still(a, [a EXCEPT !.model.status = x])
           /\ Still(a, [a EXCEPT !.model.info = x])
BY DEF Still, Formed, Place

LEMMA StillVm ==
    ASSUME NEW a, Formed(a), NEW x
    PROVE  /\ Still(a, [a EXCEPT !.vm.section = x]) /\ Still(a, [a EXCEPT !.vm.compose = x])
           /\ Still(a, [a EXCEPT !.vm.dialog = x]) /\ Still(a, [a EXCEPT !.vm.help = x])
           /\ Still(a, [a EXCEPT !.vm.lastFailed = x]) /\ Still(a, [a EXCEPT !.vm.lastState = x])
BY DEF Still, Formed, Place

LEMMA StillRadio ==
    ASSUME NEW a, Formed(a), NEW x
    PROVE  /\ Still(a, [a EXCEPT !.radio = x]) /\ Still(a, [a EXCEPT !.radio.commands = x])
           /\ Still(a, [a EXCEPT !.radio.events = x]) /\ Still(a, [a EXCEPT !.radio.running = x])
BY DEF Still, Formed, Place

LEMMA FormedView ==
    ASSUME NEW a, Formed(a) PROVE {"list", "attached"} \subseteq DOMAIN a.view
BY DEF Formed

LEMMA StillPut ==
    ASSUME NEW a, Formed(a), NEW x
    PROVE  /\ Still(a, PutDraft(a, x)) /\ Still(a, PutStatus(a, x)) /\ Still(a, PutInfo(a, x))
           /\ Still(a, PutSection(a, x)) /\ Still(a, PutCompose(a, x))
           /\ Still(a, PutDialog(a, x)) /\ Still(a, PutHelp(a, x))
<1>0. {"list", "attached"} \subseteq DOMAIN a.view
  BY FormedView
<1>1. Still(a, PutDraft(a, x))
  <2> DEFINE b == [a EXCEPT !.model.draft = x]
             v == [a.view EXCEPT !.editor = EditorDraft(@, x)]
  <2>1. Still(a, b)
    BY StillModel
  <2>2. {"list", "attached"} \subseteq DOMAIN v /\ v.list = a.view.list /\ v.attached = a.view.attached
    BY <1>0, StillView
  <2> HIDE DEF b, v
  <2>3. Still(a, Shown(b, v))
    BY <2>1, <2>2, StillIs, StillShown
  <2>4. QED
    BY <2>3 DEF PutDraft, b, v
<1>2. Still(a, PutStatus(a, x))
  <2> DEFINE b == [a EXCEPT !.model.status = x]
             v == [a.view EXCEPT !.editor = EditorStatus(@, x)]
  <2>1. Still(a, b)
    BY StillModel
  <2>2. {"list", "attached"} \subseteq DOMAIN v /\ v.list = a.view.list /\ v.attached = a.view.attached
    BY <1>0, StillView
  <2> HIDE DEF b, v
  <2>3. Still(a, Shown(b, v))
    BY <2>1, <2>2, StillIs, StillShown
  <2>4. QED
    BY <2>3 DEF PutStatus, b, v
<1>3. Still(a, PutInfo(a, x))
  <2> DEFINE b == [a EXCEPT !.model.info = x]
             v == [a.view EXCEPT !.infoPage = InfoPage(x)]
  <2>1. Still(a, b)
    BY StillModel
  <2>2. {"list", "attached"} \subseteq DOMAIN v /\ v.list = a.view.list /\ v.attached = a.view.attached
    BY <1>0, StillView
  <2> HIDE DEF b, v
  <2>3. Still(a, Shown(b, v))
    BY <2>1, <2>2, StillIs, StillShown
  <2>4. QED
    BY <2>3 DEF PutInfo, b, v
<1>4. Still(a, PutSection(a, x))
  <2> DEFINE b == [a EXCEPT !.vm.section = x]
             v == SetSection(a.view, x)
  <2>1. Still(a, b)
    BY StillVm
  <2>2. {"list", "attached"} \subseteq DOMAIN v /\ v.list = a.view.list /\ v.attached = a.view.attached
    BY <1>0 DEF SetSection
  <2> HIDE DEF b, v
  <2>3. Still(a, Shown(b, v))
    BY <2>1, <2>2, StillIs, StillShown
  <2>4. QED
    BY <2>3 DEF PutSection, b, v
<1>5. Still(a, PutCompose(a, x))
  <2> DEFINE b == [a EXCEPT !.vm.compose = x]
             c == Covered(a.view, x)
             v == SetComposeActive(a.view, x)
  <2>1. Still(a, b)
    BY StillVm
  <2>2. {"list", "attached"} \subseteq DOMAIN c /\ c.list = a.view.list /\ c.attached = a.view.attached
    BY <1>0, StillCovered
  <2>3. v = [c EXCEPT !.editor = EditorActive(c.editor, x)]
    BY DEF SetComposeActive
  <2> HIDE DEF b, c, v
  <2>4. {"list", "attached"} \subseteq DOMAIN v /\ v.list = a.view.list /\ v.attached = a.view.attached
    BY <2>2, <2>3, StillView
  <2>5. Still(a, Shown(b, v))
    BY <2>1, <2>4, StillIs, StillShown
  <2>6. QED
    BY <2>5 DEF PutCompose, b, v
<1>6. Still(a, PutDialog(a, x))
  <2> DEFINE b == [a EXCEPT !.vm.dialog = x]
             c == Covered(a.view, x)
             v == SetDialogActive(a.view, x)
  <2>1. Still(a, b)
    BY StillVm
  <2>2. {"list", "attached"} \subseteq DOMAIN c /\ c.list = a.view.list /\ c.attached = a.view.attached
    BY <1>0, StillCovered
  <2>3. v = [c EXCEPT !.failure = FailureActive(c.failure, x)]
    BY DEF SetDialogActive
  <2> HIDE DEF b, c, v
  <2>4. {"list", "attached"} \subseteq DOMAIN v /\ v.list = a.view.list /\ v.attached = a.view.attached
    BY <2>2, <2>3, StillView
  <2>5. Still(a, Shown(b, v))
    BY <2>1, <2>4, StillIs, StillShown
  <2>6. QED
    BY <2>5 DEF PutDialog, b, v
<1>7. Still(a, PutHelp(a, x))
  <2> DEFINE b == [a EXCEPT !.vm.help = x]
             c == Covered(a.view, x)
             v == SetHelpActive(a.view, x)
  <2>1. Still(a, b)
    BY StillVm
  <2>2. {"list", "attached"} \subseteq DOMAIN c /\ c.list = a.view.list /\ c.attached = a.view.attached
    BY <1>0, StillCovered
  <2>3. v = [c EXCEPT !.help = x]
    BY DEF SetHelpActive
  <2> HIDE DEF b, c, v
  <2>4. {"list", "attached"} \subseteq DOMAIN v /\ v.list = a.view.list /\ v.attached = a.view.attached
    BY <2>2, <2>3, StillView
  <2>5. Still(a, Shown(b, v))
    BY <2>1, <2>4, StillIs, StillShown
  <2>6. QED
    BY <2>5 DEF PutHelp, b, v
<1>8. QED
  BY <1>1, <1>2, <1>3, <1>4, <1>5, <1>6, <1>7

LEMMA StillDraft ==
    ASSUME NEW a, Formed(a), NEW x
    PROVE  /\ Still(a, BeginCompose(a, x)) /\ Still(a, SetDraft(a, x)) /\ Still(a, AppendDraft(a, x))
           /\ Still(a, EraseDraftCharacter(a)) /\ Still(a, ClearDraft(a))
<1>1. ASSUME NEW d, NEW s PROVE Still(a, PutStatus(PutDraft(a, d), s))
  BY StillPut DEF Still
<1>2. ASSUME NEW s PROVE Still(a, PutStatus(a, s))
  BY StillPut
<1>3. Still(a, EraseDraftCharacter(a))
  BY <1>1, <1>2 DEF EraseDraftCharacter
<1>4. Still(a, AppendDraft(a, x))
  BY <1>1, <1>2 DEF AppendDraft
<1>5. Still(a, BeginCompose(a, x)) /\ Still(a, SetDraft(a, x)) /\ Still(a, ClearDraft(a))
  BY <1>1 DEF BeginCompose, SetDraft, ClearDraft
<1>6. QED
  BY <1>3, <1>4, <1>5

LEMMA StillSend ==
    ASSUME NEW a, Formed(a) PROVE Still(a, SendDraft(a))
<1>1. ASSUME NEW c PROVE Still(a, Post(a, c))
  BY StillRadio DEF Post
<1>2. Still(a, ClearDraft(Post(a, "send")))
  BY <1>1, StillDraft DEF Still
<1>3. QED
  BY <1>2, StillPut DEF SendDraft

LEMMA StillRetry ==
    ASSUME NEW a, Formed(a), NEW starts PROVE Still(a, RetryRadio(a, starts))
<1>1. ASSUME NEW b, Formed(b) PROVE Still(b, ModelRetryRadio(b, starts))
  <2> DEFINE c == PutInfo(b, RetryShown(b.model.info))
  <2>1. Still(b, c)
    BY <1>1, StillPut
  <2>2. Still(c, PutInfo(PutStatus(c, "refused"), RetryFailed(c.model.info)))
    BY <2>1, StillPut DEF Still
  <2>3. Still(c, Post(c, "retry")) /\ Still(c, [c EXCEPT !.radio = FreshRadio])
    BY <2>1, StillRadio DEF Post, Still
  <2>4. ModelRetryRadio(b, starts) \in {PutInfo(PutStatus(c, "refused"), RetryFailed(c.model.info)),
                                        Post(c, "retry"), [c EXCEPT !.radio = FreshRadio]}
    BY DEF ModelRetryRadio
  <2> HIDE DEF c
  <2>5. QED
    BY <2>1, <2>2, <2>3, <2>4, StillTwice
<1>2. Still(a, ForgetFailure(a))
  BY StillVm DEF ForgetFailure
<1>3. Still(a, ModelRetryRadio(ForgetFailure(a), starts))
  BY <1>1, <1>2 DEF Still
<1>4. QED
  BY <1>3, StillPut DEF RetryRadio, Still

-----------------------------------------------------------------------------
(* The rows are the messages.                                              *)

Right(a) ==
    /\ Formed(a) /\ Numbered(a.model.messages, a.model.nextMessage)
    /\ a.view.attached => ListFine(a.view.list) /\ a.view.list.rows = a.model.messages

\* The list may move; its rows stay.
Quiet(a, b) == Right(b) /\ b.view.attached = a.view.attached /\ b.model.messages = a.model.messages

LEMMA StillQuiet == ASSUME NEW a, NEW b, Right(a), Still(a, b) PROVE Quiet(a, b)
BY StillIs DEF Right, Quiet

LEMMA QuietTwice == ASSUME NEW a, NEW b, NEW c, Quiet(a, b), Quiet(b, c) PROVE Quiet(a, c)
BY DEF Quiet

\* The list is moved, and with it the title perhaps.
LEMMA QuietList ==
    ASSUME NEW a, Right(a), NEW v, {"list", "attached"} \subseteq DOMAIN v, v.attached = a.view.attached,
           a.view.attached => ListFine(v.list) /\ v.list.rows = a.view.list.rows
    PROVE  Quiet(a, Shown(a, v))
<1>1. CASE ~a.view.attached
  BY <1>1 DEF Shown, Quiet
<1>2. CASE a.view.attached
  <2> DEFINE b == [a EXCEPT !.view = v]
  <2>1. Shown(a, v) = b
    BY <1>2 DEF Shown
  <2>2. DOMAIN b = DOMAIN a /\ b.view = v /\ b.model = a.model
    BY DEF Right, Formed
  <2> HIDE DEF b
  <2>3. QED
    BY <1>2, <2>1, <2>2 DEF Right, Formed, Quiet
<1>3. QED
  BY <1>1, <1>2

LEMMA QuietScroll ==
    ASSUME NEW a, Right(a), NEW amount \in Int
    PROVE  Quiet(a, Scroll(a, amount))
<1> DEFINE l == ScrollBy(a.view.list, amount)
           t == DismissTitle(a.view.tip)
           v == [a.view EXCEPT !.list = l, !.tip = t]
<1>1. {"list", "attached"} \subseteq DOMAIN v /\ v.list = l /\ v.attached = a.view.attached
  BY DEF Right, Formed
<1>2. a.view.attached => ListFine(l) /\ l.rows = a.view.list.rows
  BY ScrolledBy DEF Right
<1>3. Scroll(a, amount) = Shown(a, v)
  BY DEF Scroll, ScrollMessages
<1> HIDE DEF l, t, v
<1>4. QED
  BY <1>1, <1>2, <1>3, QuietList

LEMMA QuietSend ==
    ASSUME NEW a, Right(a) PROVE Quiet(a, SendCompose(a))
<1> DEFINE sent == PutSection(SendDraft(a), "Messages")
           l    == ScrollToBottom(sent.view.list)
           v    == [sent.view EXCEPT !.list = l]
           c    == Shown(sent, v)
<1>1. Still(a, SendDraft(a)) /\ Still(a, sent)
  BY StillSend, StillPut DEF Still, Right
<1>2. Quiet(a, SendDraft(a)) /\ Quiet(a, sent) /\ Right(sent)
  BY <1>1, StillQuiet DEF Quiet
<1> HIDE DEF sent
<1>3. {"list", "attached"} \subseteq DOMAIN v /\ v.list = l /\ v.attached = sent.view.attached
  BY <1>2 DEF Right, Formed
<1>4. sent.view.attached => ListFine(l) /\ l.rows = sent.view.list.rows
  BY <1>2, ScrolledToBottom DEF Right
<1> HIDE DEF l, v
<1>5. Quiet(sent, c)
  BY <1>2, <1>3, <1>4, QuietList
<1>6. c = Shown(sent, ScrollMessagesToBottom(sent.view))
  BY DEF v, l, ScrollMessagesToBottom
<1> HIDE DEF c
<1>7. Right(c) /\ Formed(c)
  BY <1>5 DEF Quiet, Right
<1>8. Quiet(c, PutCompose(c, FALSE))
  BY <1>7, StillPut, StillQuiet
<1>9. Quiet(a, PutCompose(c, FALSE))
  BY <1>2, <1>5, <1>8, QuietTwice
<1>10. QED
  BY <1>2, <1>6, <1>9 DEF SendCompose, sent

LEMMA QuietKey ==
    ASSUME NEW a, Right(a), NEW key, NEW starts PROVE Quiet(a, VmOnKey(a, key, starts))
<1>1. Formed(a)
  BY DEF Right
<1>2. ASSUME NEW b, Still(a, b) PROVE Quiet(a, b)
  BY <1>2, StillQuiet
<1>3. Quiet(a, a)
  BY <1>1, <1>2, StillItself
<1>4. Quiet(a, RetryRadio(a, starts))
  BY <1>1, <1>2, StillRetry
<1>5. Quiet(a, DialogKey(a, key, starts))
  BY <1>1, <1>2, <1>3, <1>4, StillPut DEF DialogKey
<1>6. Quiet(a, ComposeKey(a, key))
  <2>1. Quiet(a, CancelCompose(a))
    <3>1. Still(a, ClearDraft(a))
      BY <1>1, StillDraft
    <3>2. Still(a, CancelCompose(a))
      BY <3>1, StillPut DEF CancelCompose, Still
    <3>3. QED
      BY <1>2, <3>2
  <2>2. Quiet(a, EraseDraftCharacter(a)) /\ Quiet(a, AppendDraft(a, key))
    BY <1>1, <1>2, StillDraft
  <2>3. Quiet(a, SendCompose(a))
    BY QuietSend
  <2>4. QED
    BY <1>3, <2>1, <2>2, <2>3 DEF ComposeKey
<1>7. Quiet(a, PageKey(a, key, starts))
  <2>1. ASSUME NEW s PROVE Quiet(a, PutSection(a, s))
    BY <1>1, <1>2, StillPut
  <2>2. Quiet(a, Scroll(a, ScrollStep)) /\ Quiet(a, Scroll(a, -ScrollStep))
    BY QuietScroll, ListAssumption
  <2>3. ASSUME NEW c PROVE Quiet(a, OpenCompose(a, c))
    <3>1. Still(a, BeginCompose(a, c))
      BY <1>1, StillDraft
    <3>2. Still(a, OpenCompose(a, c))
      BY <3>1, StillPut DEF OpenCompose, Still
    <3>3. QED
      BY <1>2, <3>2
  <2>4. QED
    BY <1>3, <1>4, <2>1, <2>2, <2>3 DEF PageKey
<1>8. Quiet(a, PutHelp(a, ~a.vm.help)) /\ Quiet(a, PutHelp(a, FALSE))
  BY <1>1, <1>2, StillPut
<1>9. Overlay(a.vm) \in {"help", "dialog", "compose", "page"}
  BY DEF Overlay
<1>10. QED
  BY <1>3, <1>5, <1>6, <1>7, <1>8, <1>9 DEF VmOnKey

LEMMA QuietText ==
    ASSUME NEW a, Right(a), NEW key PROVE Quiet(a, TextInput(a, key))
<1>1. Formed(a)
  BY DEF Right
<1>2. ASSUME NEW e PROVE Quiet(a, Typed(a, e))
  <2> DEFINE b == [a EXCEPT !.view.editor = e]
  <2>1. Still(a, b)
    BY <1>1 DEF Still, Formed, Place
  <2> HIDE DEF b
  <2>2. Still(a, SetDraft(b, e.text))
    BY <2>1, StillDraft DEF Still
  <2>3. QED
    BY <2>2, StillQuiet DEF Typed, b
<1>3. ASSUME NEW c PROVE Quiet(a, MoveCursor(a, c))
  <2>1. Still(a, MoveCursor(a, c))
    BY <1>1 DEF Still, Formed, Place, MoveCursor
  <2>2. QED
    BY <2>1, StillQuiet
<1>4. Quiet(a, a)
  BY <1>1, StillItself, StillQuiet
<1>5. QED
  BY <1>2, <1>3, <1>4 DEF TextInput

LEMMA QuietInput ==
    ASSUME NEW a, Right(a), NEW key, NEW starts PROVE Quiet(a, OnLvglKeyState(a, key, starts))
<1>1. Quiet(a, a)
  BY StillItself, StillQuiet DEF Right
<1>2. Quiet(a, TextInput(a, key)) /\ Quiet(a, VmOnKey(a, Routed(a, key), starts))
  BY QuietText, QuietKey
<1>3. QED
  BY <1>1, <1>2 DEF OnLvglKeyState

-----------------------------------------------------------------------------
(* The history grows, and the list with it.                                *)

\* The oldest message there is, by its number.
Oldest(a) == a.model.nextMessage - Len(a.model.messages)

\* A reader of a's list is as far up in b's as messages have gone.
Carried(a, b) ==
    /\ Right(b) /\ b.view.attached = a.view.attached
    /\ Oldest(b) - Oldest(a) \in Nat
    /\ a.view.attached => Stays(a.view.list, b.view.list, Oldest(b) - Oldest(a))

LEMMA OldestIs == ASSUME NEW a, Right(a) PROVE Oldest(a) \in Int
<1>1. a.model.messages \in Seq(Nat) /\ a.model.nextMessage \in Nat
  BY DEF Right, Numbered
<1>2. QED
  BY <1>1 DEF Oldest

LEMMA PositionIs == ASSUME NEW a, Right(a), a.view.attached PROVE a.view.list.y \in Nat
BY DEF Right, ListFine, Drawn, Lists

LEMMA CarriedStill == ASSUME NEW a, Right(a), NEW b, Still(a, b) PROVE Carried(a, b)
<1>1. Right(b) /\ b.view.attached = a.view.attached /\ b.view.list = a.view.list /\ Oldest(b) = Oldest(a)
  BY StillQuiet, StillIs DEF Quiet, Oldest
<1>2. Oldest(b) - Oldest(a) = 0
  BY <1>1, OldestIs
<1>3. a.view.attached => Stays(a.view.list, a.view.list, 0)
  BY PositionIs DEF Stays
<1>4. QED
  BY <1>1, <1>2, <1>3 DEF Carried

LEMMA CarriedTwice ==
    ASSUME NEW a, Right(a), NEW b, Carried(a, b), NEW c, Carried(b, c) PROVE Carried(a, c)
<1> DEFINE d == Oldest(b) - Oldest(a)
           e == Oldest(c) - Oldest(b)
<1>1. d \in Nat /\ e \in Nat /\ Oldest(c) - Oldest(a) = d + e
  <2>1. Oldest(a) \in Int /\ Oldest(b) \in Int /\ Oldest(c) \in Int
    BY OldestIs DEF Carried
  <2>2. QED
    BY <2>1 DEF Carried
<1>2. Right(b) /\ Right(c) /\ b.view.attached = a.view.attached /\ c.view.attached = b.view.attached
  BY DEF Carried
<1>3. ASSUME a.view.attached PROVE Stays(a.view.list, c.view.list, d + e)
  <2>1. Stays(a.view.list, b.view.list, d) /\ Stays(b.view.list, c.view.list, e)
    BY <1>2, <1>3 DEF Carried
  <2>2. a.view.list.y \in Nat
    BY <1>3, PositionIs
  <2> HIDE DEF d, e
  <2>3. QED
    BY <1>1, <2>1, <2>2 DEF Stays
<1>4. QED
  BY <1>1, <1>2, <1>3 DEF Carried

LEMMA CarriedByMessage == ASSUME NEW a, Right(a) PROVE Carried(a, AppendMessage(a))
<1> DEFINE m   == a.model.messages
           n   == a.model.nextMessage
           all == Append(Kept(m), n)
           c   == [a EXCEPT !.model.messages = all, !.model.nextMessage = @ + 1]
           l   == SetMessages(a.view.list, all)
           v   == [a.view EXCEPT !.list = l]
           s   == [c EXCEPT !.view = v]
           b   == IF a.view.attached THEN s ELSE c
<1>1. Numbered(m, n) /\ Formed(a) /\ (a.view.attached => ListFine(a.view.list) /\ a.view.list.rows = m)
  BY DEF Right
<1>2. AppendMessage(a) = b
  <2>1. AppendMessage(a) = Shown(c, v)
    BY DEF AppendMessage, Kept
  <2>2. c.view = a.view
    BY <1>1 DEF Formed
  <2>3. QED
    BY <2>1, <2>2 DEF Shown
<1>3. Numbered(all, n + 1) /\ Len(all) = Len(m) - Dropped(m) + 1 /\ Dropped(m) \in {0, 1}
  BY <1>1, KeptIs
<1>4. a.view.attached => ListFine(l) /\ l.rows = all /\ Stays(a.view.list, l, Dropped(m))
  <2> SUFFICES ASSUME a.view.attached PROVE ListFine(l) /\ l.rows = all /\ Stays(a.view.list, l, Dropped(m))
    OBVIOUS
  <2> DEFINE o == a.view.list
  <2>1. ListFine(o) /\ o.rows = m /\ Numbered(o.rows, n)
    BY <1>1
  <2> HIDE DEF o, m, n
  <2>2. LET x == SetMessages(o, Append(Kept(o.rows), n))
        IN  ListFine(x) /\ x.rows = Append(Kept(o.rows), n) /\ Stays(o, x, Dropped(o.rows))
    BY <2>1, MessageShown
  <2>3. QED
    BY <2>1, <2>2 DEF o
<1> HIDE DEF all, l
<1>5. Formed(c) /\ c.model.messages = all /\ c.model.nextMessage = n + 1 /\ c.view = a.view
  BY <1>1 DEF Formed
<1>6. {"list", "attached"} \subseteq DOMAIN v /\ v.list = l /\ v.attached = a.view.attached
  BY <1>1 DEF Formed
<1> HIDE DEF c, v
<1>7. Formed(s) /\ s.model = c.model /\ s.view = v
  BY <1>5, <1>6 DEF Formed
<1>8. Formed(b) /\ b.model = c.model /\ b.view.attached = a.view.attached /\ (a.view.attached => b.view.list = l)
  BY <1>5, <1>6, <1>7
<1> HIDE DEF b
<1>9. Right(b)
  BY <1>3, <1>4, <1>5, <1>8 DEF Right
<1>10. Oldest(b) - Oldest(a) = Dropped(m)
  <2>1. Oldest(b) = (n + 1) - Len(all) /\ Oldest(a) = n - Len(m)
    BY <1>5, <1>8 DEF Oldest
  <2>2. n \in Nat /\ Len(m) \in Nat
    <3>1. m \in Seq(Nat) /\ n \in Nat
      BY <1>1 DEF Numbered
    <3>2. QED
      BY <3>1
  <2> HIDE DEF m, n
  <2>3. QED
    BY <1>3, <2>1, <2>2
<1>11. Carried(a, b)
  BY <1>3, <1>4, <1>8, <1>9, <1>10 DEF Carried
<1>12. QED
  BY <1>2, <1>11

LEMMA CarriedByEvent == ASSUME NEW a, Right(a), NEW e PROVE Carried(a, TakeEvent(a, e))
<1> DEFINE b == PutInfo(a, UiAfter(a.model.info, e))
<1>1. Carried(a, b)
  BY StillPut, CarriedStill DEF Right
<1>2. TakeEvent(a, e) \in {b, AppendMessage(b)}
  BY DEF TakeEvent
<1> HIDE DEF b
<1>3. Carried(b, AppendMessage(b))
  BY <1>1, CarriedByMessage DEF Carried
<1>4. QED
  BY <1>1, <1>2, <1>3, CarriedTwice

LEMMA CarriedByEvents ==
    ASSUME NEW a, Right(a), a.radio.events \in Seq(Happenings), NEW n \in 0 .. Len(a.radio.events)
    PROVE  Carried(a, ModelTick(a, n))
<1>1. PICK r : TickedThrough(r, a, n)
  BY TickByTick
<1>2. /\ r[0] = WithoutFirst(a, n) /\ ModelTick(a, n) = r[n] /\ n \in Nat
      /\ \A k \in 1 .. n : r[k] = TakeEvent(r[k - 1], a.radio.events[k])
  BY <1>1 DEF TickedThrough
<1> DEFINE S == {k \in 0 .. n : Carried(a, r[k])}
<1>3. 0 \in S
  <2>1. Still(a, WithoutFirst(a, n))
    BY StillRadio DEF WithoutFirst, Right
  <2>2. QED
    BY <1>2, <2>1, CarriedStill
<1>4. ASSUME NEW k \in 0 .. n - 1, k \in S PROVE k + 1 \in S
  <2>1. r[k + 1] = TakeEvent(r[k], a.radio.events[k + 1])
    <3>1. k + 1 \in 1 .. n /\ (k + 1) - 1 = k
      BY <1>2
    <3>2. QED
      BY <1>2, <3>1
  <2>2. Carried(a, r[k])
    BY <1>4
  <2>3. Carried(r[k], r[k + 1])
    BY <2>1, <2>2, CarriedByEvent DEF Carried
  <2>4. k + 1 \in 0 .. n
    BY <1>2
  <2>5. QED
    BY <2>2, <2>3, <2>4, CarriedTwice
<1>5. n \in S
  <2> HIDE DEF S
  <2>1. \A k \in 0 .. n : k \in S
    BY <1>2, <1>3, <1>4, CountingUp
  <2>2. QED
    BY <1>2, <2>1
<1>6. QED
  BY <1>2, <1>5

LEMMA CarriedByVm ==
    ASSUME NEW a, Right(a), a.radio.events \in Seq(Happenings), NEW n \in 0 .. Len(a.radio.events)
    PROVE  Carried(a, VmTick(a, n))
<1> DEFINE t      == ModelTick(a, n)
           info   == t.model.info
           broken == IF info.state = "Error" /\ a.vm.lastState # "Error" THEN PutSection(t, "Info") ELSE t
           closed == IF broken.vm.compose THEN CancelCompose(broken) ELSE broken
           opened == PutDialog(PutSection(closed, "Info"), TRUE)
           told   == IF Failed(info) /\ ~a.vm.lastFailed THEN opened ELSE broken
           calm   == IF info.ready /\ told.vm.dialog THEN PutDialog(told, FALSE) ELSE told
           b      == [calm EXCEPT !.vm.lastState = info.state, !.vm.lastFailed = Failed(info)]
<1>1. Carried(a, t)
  BY CarriedByEvents
<1>2. VmTick(a, n) = b
  BY DEF VmTick
<1> HIDE DEF t
<1>3. Still(t, t)
  BY <1>1, StillItself DEF Carried, Right
<1>4. Still(t, broken)
  BY <1>3, StillPut DEF Still
<1> HIDE DEF broken
<1>5. Still(t, closed)
  <2>1. Still(broken, ClearDraft(broken))
    BY <1>4, StillDraft DEF Still
  <2>2. Still(broken, CancelCompose(broken))
    BY <2>1, StillPut DEF CancelCompose, Still
  <2>3. QED
    BY <1>4, <2>2, StillTwice
<1> HIDE DEF closed
<1>6. Still(t, opened)
  <2> DEFINE c == PutSection(closed, "Info")
  <2>1. Still(closed, c)
    BY <1>5, StillPut DEF Still
  <2> HIDE DEF c
  <2>2. Still(c, PutDialog(c, TRUE))
    BY <2>1, StillPut DEF Still
  <2>3. Still(t, PutDialog(c, TRUE))
    BY <1>5, <2>1, <2>2, StillTwice
  <2>4. QED
    BY <2>3 DEF c
<1> HIDE DEF opened
<1>7. Still(t, told)
  BY <1>4, <1>6
<1> HIDE DEF told
<1>8. Still(t, calm)
  BY <1>7, StillPut DEF Still
<1> HIDE DEF calm, info
<1>9. Still(t, b)
  <2> DEFINE c == [calm EXCEPT !.vm.lastState = info.state]
  <2>1. Formed(calm)
    BY <1>8 DEF Still
  <2>2. Still(calm, c) /\ Formed(c)
    BY <2>1, StillVm DEF Still
  <2>3. Still(calm, b)
    BY <2>1 DEF Still, Formed, Place
  <2>4. QED
    BY <1>8, <2>3, StillTwice
<1> HIDE DEF b
<1>10. Carried(t, b)
  BY <1>1, <1>9, CarriedStill DEF Carried
<1>11. QED
  BY <1>1, <1>2, <1>10, CarriedTwice

\* The page's own tick moves the list that is on its way only.
LEMMA CarriedByPage ==
    ASSUME NEW a, Right(a), NEW v \in ViewTick(a.view)
    PROVE  Carried(a, [a EXCEPT !.view = v])
<1> DEFINE b == [a EXCEPT !.view = v]
<1>1. Formed(a)
  BY DEF Right
<1>2. b.view = v /\ b.model = a.model /\ DOMAIN b = DOMAIN a
  BY <1>1 DEF Formed
<1> HIDE DEF b
<1>3. Oldest(b) = Oldest(a) /\ Oldest(b) - Oldest(a) = 0
  BY <1>2, OldestIs DEF Oldest
<1>4. CASE ~a.view.attached
  BY <1>1, <1>2, <1>3, <1>4 DEF ViewTick, Carried, Right, Formed, b
<1>5. CASE a.view.attached
  <2>1. PICK l \in ListTick(a.view.list) : \E t, e, f, faded : v = Moved(a.view, l, t, e, f, faded)
    BY <1>5 DEF ViewTick, PagerTick
  <2>2. {"list", "attached"} \subseteq DOMAIN v /\ v.list = l /\ v.attached = a.view.attached
    BY <1>1, <2>1 DEF Moved, Formed
  <2>3. ListFine(l) /\ l.rows = a.view.list.rows /\ (~a.view.list.animating => l = a.view.list)
    BY <1>5, ListTicked DEF Right
  <2>4. Right(b)
    BY <1>1, <1>2, <2>2, <2>3, <1>5 DEF Right, Formed
  <2>5. Stays(a.view.list, l, 0)
    BY <1>5, <2>3, PositionIs DEF Stays, Reading
  <2>6. QED
    BY <1>2, <1>3, <2>2, <2>4, <2>5 DEF Carried, b
<1>6. QED
  BY <1>4, <1>5

-----------------------------------------------------------------------------
(* The reader, and the page that is new.                                   *)

LEMMA PlaceKept ==
    ASSUME NEW a, Right(a), NEW b, Carried(a, b), a.view.attached, Reading(a.view.list)
    PROVE  LET l == a.view.list  m == b.view.list IN
           IF OnTop(l) \in {m.rows[k] : k \in DOMAIN m.rows} THEN OnTop(m) = OnTop(l) ELSE m.y = 0
<1> DEFINE l == a.view.list
           m == b.view.list
           d == Oldest(b) - Oldest(a)
<1>1. ASSUME NEW c, Right(c), c.view.attached
      PROVE  LET p == c.view.list IN
             /\ p.rows \in Seq(Nat) /\ p.y \in Nat /\ Oldest(c) \in Int
             /\ \A k \in 1 .. Len(p.rows) : p.rows[k] = Oldest(c) + k - 1
             /\ Reading(p) => p.y + 1 \in 1 .. Len(p.rows) /\ OnTop(p) = Oldest(c) + p.y
  <2> DEFINE p == c.view.list
  <2>1. ListFine(p) /\ p.rows = c.model.messages /\ Numbered(p.rows, c.model.nextMessage)
    BY <1>1 DEF Right
  <2>2. Oldest(c) = c.model.nextMessage - Len(p.rows) /\ Oldest(c) \in Int
    BY <1>1, <2>1, OldestIs DEF Oldest
  <2> HIDE DEF p
  <2>3. p.rows \in Seq(Nat) /\ p.y \in Nat /\ Len(p.rows) \in Nat
    <3>1. p.rows \in Seq(Nat) /\ p.y \in Nat
      BY <2>1 DEF ListFine, Drawn, Lists
    <3>2. QED
      BY <3>1
  <2>4. \A k \in 1 .. Len(p.rows) : p.rows[k] = Oldest(c) + k - 1
    BY <2>1, <2>2 DEF Numbered
  <2>5. ASSUME Reading(p) PROVE p.y + 1 \in 1 .. Len(p.rows)
    <3>1. ~NearBottom(p, p.y)
      BY <2>1, <2>5 DEF ListFine, FollowsBottom, Reading
    <3>2. QED
      BY <2>3, <3>1, ListAssumption DEF NearBottom, MaxScroll
  <2>6. ASSUME Reading(p) PROVE OnTop(p) = Oldest(c) + p.y
    <3>1. OnTop(p) = Oldest(c) + (p.y + 1) - 1
      BY <2>4, <2>5, <2>6 DEF OnTop
    <3>2. QED
      BY <2>2, <2>3, <3>1
  <2>7. QED
    BY <2>2, <2>3, <2>4, <2>5, <2>6 DEF p
<1>2. Right(b) /\ b.view.attached /\ d \in Nat /\ Stays(l, m, d)
  BY DEF Carried
<1>3. /\ l.y \in Nat /\ Oldest(a) \in Int /\ OnTop(l) = Oldest(a) + l.y
  BY <1>1
<1>4. /\ m.rows \in Seq(Nat) /\ m.y \in Nat /\ Oldest(b) \in Int
      /\ \A k \in 1 .. Len(m.rows) : m.rows[k] = Oldest(b) + k - 1
      /\ Reading(m) => m.y + 1 \in 1 .. Len(m.rows) /\ OnTop(m) = Oldest(b) + m.y
  BY <1>1, <1>2
<1>5. Reading(m) /\ m.y = IF l.y >= d THEN l.y - d ELSE 0
  BY <1>2 DEF Stays
<1>6. Oldest(b) = Oldest(a) + d
  BY <1>2, <1>3, <1>4
<1> HIDE DEF l, m, d
<1>7. CASE l.y >= d
  <2>1. OnTop(m) = OnTop(l)
    BY <1>2, <1>3, <1>4, <1>5, <1>6, <1>7
  <2>2. m.y + 1 \in DOMAIN m.rows /\ OnTop(m) = m.rows[m.y + 1]
    BY <1>4, <1>5 DEF OnTop
  <2>3. OnTop(l) \in {m.rows[k] : k \in DOMAIN m.rows}
    BY <2>1, <2>2
  <2>4. QED
    BY <2>1, <2>3 DEF l, m
<1>8. CASE l.y < d
  <2>1. ASSUME NEW k \in DOMAIN m.rows PROVE OnTop(l) # m.rows[k]
    <3>1. DOMAIN m.rows = 1 .. Len(m.rows) /\ Len(m.rows) \in Nat
      BY <1>4
    <3>2. k \in 1 .. Len(m.rows)
      BY <2>1, <3>1
    <3>3. m.rows[k] = Oldest(b) + k - 1
      BY <1>4, <3>2
    <3>4. QED
      BY <1>2, <1>3, <1>4, <1>6, <1>8, <3>1, <3>2, <3>3
  <2>2. m.y = 0
    BY <1>2, <1>3, <1>5, <1>8
  <2>3. QED
    BY <2>1, <2>2 DEF l, m
<1>9. QED
  BY <1>2, <1>3, <1>7, <1>8

\* A page that is entered draws the messages there are.
LEMMA RowsBuilt ==
    ASSUME NEW messages \in Seq(Nat), Len(messages) <= HistoryLimit,
           NEW info, NEW section, NEW draft, NEW status, NEW compose, NEW dialog, NEW help
    PROVE  LET v == ViewEnter(messages, info, section, draft, status, compose, dialog, help)
           IN  {"list", "attached"} \subseteq DOMAIN v /\ v.attached
               /\ ListFine(v.list) /\ v.list.rows = messages
<1> DEFINE l == SetMessages(NewList, messages)
           Has(v) == {"list", "attached"} \subseteq DOMAIN v /\ v.attached /\ v.list = l
           empty == [NoView EXCEPT !.attached = TRUE, !.tip = "waiting", !.list = SetMessages(@, messages),
                                   !.infoPage = InfoPage(info),
                                   !.editor = EditorStatus(EditorDraft(@, draft), status)]
           f == FirstSection(empty, section)
           c == SetComposeActive(f, compose)
           d == SetDialogActive(c, dialog)
           h == SetHelpActive(d, help)
<1>1. ListFine(l) /\ l.rows = messages
  <2> DEFINE fresh == [NewList EXCEPT !.synced = TRUE]
  <2>1. fresh \in Lists
    <3> DEFINE Made == [rows : Seq(Nat), synced : BOOLEAN, y : Nat, animating : BOOLEAN, goal : Int, follow : BOOLEAN]
    <3>1. NewList \in Made
      <4>1. <<>> \in Seq(Nat)
        OBVIOUS
      <4>2. QED
        BY <4>1 DEF NewList
    <3>2. QED
      BY <3>1 DEF Lists
  <2>2. Max({0, Len(messages) - HistoryLimit}) = 0
    <3>1. Len(messages) - HistoryLimit \in Int /\ Len(messages) - HistoryLimit <= 0
      BY ListAssumption
    <3>2. Max({0, Len(messages) - HistoryLimit})
            = IF 0 < Len(messages) - HistoryLimit THEN Len(messages) - HistoryLimit ELSE 0
      BY <3>1, MaxOfTwo
    <3>3. QED
      BY <3>1, <3>2
  <2>3. SubSeq(messages, 0 + 1, Len(messages)) = messages
    OBVIOUS
  <2>4. NewList.synced = FALSE
    BY DEF NewList
  <2> HIDE DEF fresh
  <2>5. l = Rebuild(fresh, messages)
    BY <2>2, <2>3, <2>4 DEF SetMessages, fresh
  <2>6. QED
    BY <2>1, <2>5, RebuildIs
<1>2. Has(empty)
  <2>1. /\ NoView.list = NewList
        /\ {"list", "attached", "tip", "infoPage", "editor"} \subseteq DOMAIN NoView
    BY DEF NoView
  <2> HIDE DEF l
  <2>2. empty.list = SetMessages(NewList, messages)
    BY <2>1
  <2>3. QED
    BY <2>1, <2>2 DEF l
<1> HIDE DEF empty, l
<1>3. Has(f)
  BY <1>2 DEF FirstSection
<1> HIDE DEF f
<1>4. Has(c)
  <2>1. Has(Covered(f, compose))
    BY <1>3, StillCovered
  <2>2. QED
    BY <2>1 DEF SetComposeActive
<1> HIDE DEF c
<1>5. Has(d)
  <2>1. Has(Covered(c, dialog))
    BY <1>4, StillCovered
  <2>2. QED
    BY <2>1 DEF SetDialogActive
<1> HIDE DEF d
<1>6. Has(h)
  <2>1. Has(Covered(d, help))
    BY <1>5, StillCovered
  <2>2. QED
    BY <2>1 DEF SetHelpActive
<1>7. ViewEnter(messages, info, section, draft, status, compose, dialog, help) = h
  BY DEF ViewEnter, empty, f, c, d
<1> HIDE DEF h
<1>8. QED
  BY <1>1, <1>6, <1>7

-----------------------------------------------------------------------------
(* Every step of the application.                                          *)

LEMMA StillEntering == ASSUME NEW a, Formed(a) PROVE Still(a, OnEnter(a))
<1> DEFINE info == a.model.info
           c    == PutCompose(ClearDraft(a), FALSE)
           s    == PutSection(c, IF info.state = "Error" THEN "Info" ELSE "Messages")
           calm == PutHelp(s, FALSE)
           k    == [calm EXCEPT !.vm.lastState = info.state, !.vm.lastFailed = Failed(info)]
<1>1. Still(a, ClearDraft(a))
  BY StillDraft
<1>2. Still(a, c)
  BY <1>1, StillPut, StillTwice DEF Still
<1>3. OnEnter(a) = PutDialog(k, Failed(info))
  BY DEF OnEnter
<1> HIDE DEF c
<1>4. Still(a, s)
  BY <1>2, StillPut, StillTwice DEF Still
<1> HIDE DEF s
<1>5. Still(a, calm)
  BY <1>4, StillPut, StillTwice DEF Still
<1> HIDE DEF calm, info
<1>6. Still(calm, k)
  BY <1>5 DEF Still, Formed, Place
<1> HIDE DEF k
<1>7. Still(a, k)
  BY <1>5, <1>6, StillTwice
<1>8. Still(a, PutDialog(k, Failed(info)))
  BY <1>7, StillPut, StillTwice DEF Still
<1>9. QED
  BY <1>3, <1>8

LEMMA StillLeaving == ASSUME NEW a, Formed(a) PROVE Still(a, OnExit(a))
<1> DEFINE c == IF a.vm.compose THEN PutCompose(ClearDraft(a), FALSE) ELSE a
           d == PutDialog(c, FALSE)
<1>1. Still(a, c)
  <2>1. Still(a, ClearDraft(a))
    BY StillDraft
  <2>2. Still(a, PutCompose(ClearDraft(a), FALSE))
    BY <2>1, StillPut, StillTwice DEF Still
  <2>3. QED
    BY <2>2, StillItself
<1>2. OnExit(a) = PutHelp(d, FALSE)
  BY DEF OnExit
<1> HIDE DEF c
<1>3. Still(a, d)
  BY <1>1, StillPut, StillTwice DEF Still
<1> HIDE DEF d
<1>4. Still(a, PutHelp(d, FALSE))
  BY <1>3, StillPut, StillTwice DEF Still
<1>5. QED
  BY <1>2, <1>4

\* The step that a reader may see.
Keeps(l, m) ==
    Reading(l) /\ m.rows # l.rows =>
        IF OnTop(l) \in {m.rows[k] : k \in DOMAIN m.rows} THEN OnTop(m) = OnTop(l) ELSE m.y = 0

RowsInv == Up => Right(app) /\ app.view.attached

LEMMA UpIs == ASSUME AppInv, Up PROVE app.view.attached /\ Fine(app)
BY DEF AppInv, UpInv, Fine

LEMMA StartShows == ASSUME AppInv, AppStart PROVE RowsInv' /\ Keeps(app.view.list, app'.view.list)
<1>1. app = AppMade
  BY DEF AppInv, AppStart
<1>2. PICK starts \in {TRUE, ~scene.troubled} :
          LET m == IF starts THEN [app EXCEPT !.radio = FreshRadio] ELSE [app EXCEPT !.model.info = StartFailedInfo]
              e == OnEnter(m)
          IN  app' = [e EXCEPT !.view = ViewEnter(e.model.messages, e.model.info, e.vm.section, e.model.draft,
                                                  e.model.status, e.vm.compose, e.vm.dialog, e.vm.help)]
  BY DEF AppStart
<1> DEFINE m == IF starts THEN [app EXCEPT !.radio = FreshRadio] ELSE [app EXCEPT !.model.info = StartFailedInfo]
           e == OnEnter(m)
           v == ViewEnter(e.model.messages, e.model.info, e.vm.section, e.model.draft,
                          e.model.status, e.vm.compose, e.vm.dialog, e.vm.help)
           b == [e EXCEPT !.view = v]
<1>3. app' = b
  BY <1>2
<1>4. Formed(app) /\ app.model.messages = <<>> /\ app.model.nextMessage = 1 /\ app.view.list = NewList
  BY <1>1 DEF AppMade, NoModel, NoView, Formed
<1>5. Still(app, m)
  BY <1>4, StillRadio, StillModel
<1> HIDE DEF m
<1>6. Still(app, e)
  BY <1>5, StillEntering, StillTwice DEF Still
<1> HIDE DEF e
<1>7. Formed(e) /\ e.model.messages = <<>> /\ e.model.nextMessage = 1
  BY <1>4, <1>6, StillIs
<1>8. {"list", "attached"} \subseteq DOMAIN v /\ v.attached /\ ListFine(v.list) /\ v.list.rows = <<>>
  <2>1. e.model.messages \in Seq(Nat) /\ Len(e.model.messages) <= HistoryLimit
    <3>1. <<>> \in Seq(Nat) /\ Len(<<>>) = 0
      OBVIOUS
    <3>2. QED
      BY <1>7, <3>1, ListAssumption
  <2>2. /\ {"list", "attached"} \subseteq DOMAIN v /\ v.attached
        /\ ListFine(v.list) /\ v.list.rows = e.model.messages
    BY <2>1, RowsBuilt
  <2>3. QED
    BY <1>7, <2>2
<1> HIDE DEF v
<1>9. Formed(b) /\ b.view = v /\ b.model = e.model
  BY <1>7, <1>8 DEF Formed
<1> HIDE DEF b
<1>10. Numbered(<<>>, 1)
  <2>1. <<>> \in Seq(Nat) /\ Len(<<>>) = 0 /\ 1 .. 0 = {}
    OBVIOUS
  <2>2. QED
    BY <2>1, ListAssumption DEF Numbered
<1>11. Right(b) /\ b.view.attached
  BY <1>7, <1>8, <1>9, <1>10 DEF Right
<1>12. ~Reading(app.view.list)
  BY <1>4 DEF Reading, NewList
<1>13. QED
  BY <1>3, <1>11, <1>12 DEF RowsInv, Keeps

LEMMA KeyShows ==
    ASSUME AppInv, RowsInv, NEW key, Key(key) PROVE RowsInv' /\ Keeps(app.view.list, app'.view.list)
<1>1. Right(app) /\ app.view.attached
  BY DEF RowsInv, Up, Key
<1>2. PICK starts \in {TRUE, ~scene.troubled} : app' = OnLvglKeyState(app, key, starts)
  BY DEF Key
<1>3. Quiet(app, app')
  BY <1>1, <1>2, QuietInput
<1>4. app'.view.list.rows = app.view.list.rows
  BY <1>1, <1>3 DEF Quiet, Right
<1>5. QED
  BY <1>1, <1>3, <1>4 DEF Quiet, RowsInv, Keeps

LEMMA TickShows == ASSUME AppInv, RowsInv, Tick PROVE RowsInv' /\ Keeps(app.view.list, app'.view.list)
<1>1. Right(app) /\ app.view.attached /\ Fine(app)
  BY UpIs DEF RowsInv, Up, Tick
<1>2. PICK n \in 0 .. Min({Len(app.radio.events), EventsPerTick}) :
          LET t == VmTick(app, n) IN \E v \in ViewTick(t.view) : app' = [t EXCEPT !.view = v]
  BY DEF Tick
<1> DEFINE t == VmTick(app, n)
<1>3. app.radio.events \in Seq(Happenings)
  BY <1>1, FieldsOf DEF Radios
<1>4. n \in 0 .. Len(app.radio.events)
  <2>1. Len(app.radio.events) \in Nat
    BY <1>3
  <2> DEFINE m == Min({Len(app.radio.events), EventsPerTick})
  <2>2. m \in 0 .. Len(app.radio.events)
    BY <2>1, LeastOfTwo, SceneAssumption
  <2>3. n \in 0 .. m
    OBVIOUS
  <2> HIDE DEF m
  <2>4. QED
    BY <2>1, <2>2, <2>3
<1>5. Carried(app, t)
  BY <1>1, <1>3, <1>4, CarriedByVm
<1>6. PICK v \in ViewTick(t.view) : app' = [t EXCEPT !.view = v]
  BY <1>2
<1> HIDE DEF t
<1>7. Carried(t, app')
  BY <1>5, <1>6, CarriedByPage DEF Carried
<1>8. Carried(app, app')
  BY <1>1, <1>5, <1>7, CarriedTwice
<1>9. Keeps(app.view.list, app'.view.list)
  BY <1>1, <1>8, PlaceKept DEF Keeps
<1>10. QED
  BY <1>1, <1>8, <1>9 DEF Carried, RowsInv

LEMMA StopShows == ASSUME AppInv, RowsInv, AppStop PROVE RowsInv' /\ Keeps(app.view.list, app'.view.list)
<1>1. Right(app) /\ phase' = "stopped"
  BY DEF RowsInv, Up, AppStop
<1> DEFINE g == [app EXCEPT !.view = ViewExit]
           c == OnExit(g)
<1>2. app' = [c EXCEPT !.model.info.state = "Stopped", !.model.info.ready = FALSE,
                       !.model.info.text = "plain", !.radio.running = FALSE]
  BY DEF AppStop
<1>3. Formed(g) /\ g.view.list = NewList
  BY <1>1 DEF Right, Formed, ViewExit, NoView
<1> HIDE DEF g
<1>4. Still(g, c)
  BY <1>3, StillLeaving
<1> HIDE DEF c
<1>5. c.view.list = NewList
  BY <1>3, <1>4, StillIs
<1>6. app'.view = c.view
  BY <1>2, <1>4 DEF Still, Formed
<1>7. app'.view.list.rows = <<>> /\ app'.view.list.y = 0
  BY <1>5, <1>6 DEF NewList
<1>8. DOMAIN app'.view.list.rows = {}
  BY <1>7
<1>9. QED
  BY <1>1, <1>7, <1>8 DEF RowsInv, Up, Keeps

\* The radio does not touch the page.
LEMMA RadioShows == ASSUME AppInv, RowsInv, Radio PROVE RowsInv' /\ Keeps(app.view.list, app'.view.list)
<1>1. ASSUME NEW state, NEW kinds, NEW commands, RadioDoes(state, kinds, commands)
      PROVE  phase' = phase /\ \E r : app' = [app EXCEPT !.radio = r]
  <2> DEFINE r == [app.radio EXCEPT !.state = state, !.commands = commands, !.events = @ \o Pushes(kinds)]
  <2>1. app' = [app EXCEPT !.radio = r] /\ phase' = phase
    BY <1>1 DEF RadioDoes
  <2> HIDE DEF r
  <2>2. QED
    BY <2>1
<1>2. ASSUME RadioGone PROVE phase' = phase /\ \E r : app' = [app EXCEPT !.radio = r]
  <2> DEFINE r == [app.radio EXCEPT !.running = FALSE]
  <2>1. app' = [app EXCEPT !.radio = r] /\ phase' = phase
    BY <1>2 DEF RadioGone
  <2> HIDE DEF r
  <2>2. QED
    BY <2>1
<1>3. phase' = phase /\ \E r : app' = [app EXCEPT !.radio = r]
  <2>1. CASE RadioOpens \/ RadioRetries
    BY <1>1, <2>1 DEF RadioOpens, RadioRetries, Initializes
  <2>2. CASE RadioSends
    BY <1>1, <2>2 DEF RadioSends
  <2>3. CASE RadioHears \/ RadioBreaks \/ RadioEnds
    BY <1>1, <2>3 DEF RadioHears, RadioBreaks, RadioEnds
  <2>4. CASE RadioGone
    BY <1>2, <2>4
  <2>5. QED
    BY <2>1, <2>2, <2>3, <2>4 DEF Radio
<1>4. PICK r : app' = [app EXCEPT !.radio = r]
  BY <1>3
<1>5. CASE Up
  <2>1. Right(app) /\ app.view.attached
    BY <1>5 DEF RowsInv
  <2>2. Still(app, app')
    BY <1>4, <2>1, StillRadio DEF Right
  <2>3. Quiet(app, app') /\ app'.view.list = app.view.list
    BY <2>1, <2>2, StillQuiet, StillIs
  <2>4. QED
    BY <2>1, <2>3 DEF Quiet, RowsInv, Keeps
<1>6. CASE ~Up
  <2>1. ~Up'
    BY <1>3, <1>6 DEF Up
  <2>2. phase \in {"starting", "stopped"} /\ ~app.radio.running
    BY <1>6, MadeIs DEF AppInv, Up
  <2>3. FALSE
    BY <2>2 DEF Radio, RadioOpens, RadioRetries, RadioSends, RadioHears, RadioBreaks, RadioEnds, Initializes,
                RadioDoes, RadioGone
  <2>4. QED
    BY <2>3
<1>7. QED
  BY <1>5, <1>6

LEMMA StepShows ==
    ASSUME AppInv, RowsInv, [Next]_vars PROVE RowsInv' /\ Keeps(app.view.list, app'.view.list)
<1>1. CASE AppStart
  BY <1>1, StartShows
<1>2. CASE AnyKey
  <2>1. PICK key \in scene.keys : Key(key)
    BY <1>2 DEF AnyKey
  <2>2. QED
    BY <2>1, KeyShows
<1>3. CASE Tick
  BY <1>3, TickShows
<1>4. CASE AppStop
  BY <1>4, StopShows
<1>5. CASE Radio
  BY <1>5, RadioShows
<1>6. CASE UNCHANGED vars
  BY <1>6 DEF vars, RowsInv, Up, Keeps
<1>7. QED
  BY <1>1, <1>2, <1>3, <1>4, <1>5, <1>6 DEF Next

LEMMA RowsInvariant == Spec => []RowsInv
<1>1. Init => RowsInv
  BY DEF Init, RowsInv, Up
<1>2. QED
  BY <1>1, StepShows, AppInvariant, PTL DEF Spec

\* The bubbles that Update draws one after the other are the messages of the
\* history, also when it drops its oldest or the page is built anew; and a list
\* at rest follows new messages exactly when the last ones are near.
THEOREM RowsAreShown == Spec => []RowsShown
<1>1. AppInv /\ RowsInv => RowsShown
  <2> SUFFICES ASSUME RowsInv, Up PROVE RowsShown
    BY DEF RowsShown
  <2> DEFINE m == app.model.messages
             l == app.view.list
  <2>1. ListFine(l) /\ l.rows = m /\ Numbered(m, app.model.nextMessage)
    BY DEF RowsInv, Right
  <2> HIDE DEF m, l
  <2>2. m \in Seq(Nat) /\ Len(m) \in Nat /\ Len(m) <= HistoryLimit
    <3>1. m \in Seq(Nat) /\ Len(m) <= HistoryLimit
      BY <2>1 DEF Numbered
    <3>2. QED
      BY <3>1
  <2>3. Max({0, Len(m) - HistoryLimit}) = 0
    <3>1. Len(m) - HistoryLimit \in Int /\ Len(m) - HistoryLimit <= 0
      BY <2>2, ListAssumption
    <3>2. Max({0, Len(m) - HistoryLimit}) = IF 0 < Len(m) - HistoryLimit THEN Len(m) - HistoryLimit ELSE 0
      BY <3>1, MaxOfTwo
    <3>3. QED
      BY <3>1, <3>2
  <2>4. SubSeq(m, 0 + 1, Len(m)) = m
    BY <2>2
  <2>5. ShowsMessages(l, m)
    BY <2>1, <2>3, <2>4 DEF ShowsMessages
  <2>6. QED
    BY <2>1, <2>5 DEF RowsShown, ListFine, m, l
<1>2. QED
  BY <1>1, AppInvariant, RowsInvariant, PTL

\* A reader who has scrolled up keeps the message on top of the screen while the
\* ticks bring others, however many one of them takes, until the history drops it
\* and the list is at its beginning.
THEOREM ReadersKeepTheirPlace == Spec => ReaderKeepsPlace
<1>1. AppInv /\ RowsInv /\ [Next]_vars =>
        [LET old == app.view.list  new == app'.view.list IN
         Reading(old) /\ new.rows # old.rows =>
             IF OnTop(old) \in {new.rows[k] : k \in DOMAIN new.rows}
             THEN OnTop(new) = OnTop(old) ELSE new.y = 0]_vars
  BY StepShows DEF Keeps
<1>2. QED
  BY <1>1, AppInvariant, RowsInvariant, PTL DEF Spec, ReaderKeepsPlace

=============================================================================
