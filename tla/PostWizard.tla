------------------------------- MODULE PostWizard -------------------------------
(***************************************************************************)
(* The dialogue in which an admin has a post written, adds an image and    *)
(* sends it.  The state machine of the chat is kept in the storage of the  *)
(* dispatcher; every update runs in a task of its own, so the admin can    *)
(* press a button of any message of the chat while a text is generated, a  *)
(* photo is fetched or a post is published.  A call to Telegram that is    *)
(* not inside a try ends its handler where it stands, and the error is     *)
(* only logged.                                                            *)
(***************************************************************************)
EXTENDS Integers, FiniteSets

CONSTANTS
    Texts,      \* generated texts (a bound: each is generated once)
    Tasks,      \* handlers under way at the same time
    MaxPosted,  \* Send Now for one text (a bound: none after so many deliveries)
    Banner,     \* whether the banner of the team is among the files of the deployment
    NoText

ASSUME WizardAssumption == MaxPosted \in Nat /\ Banner \in BOOLEAN /\ NoText \notin Texts

VARIABLES
    fsm,        \* the state of the chat
    draft,      \* the data of the state: content, and whether image_url is set
    shown,      \* the previews in the chat whose buttons are still there
    task,       \* task[t]: where a handler is
    fresh,      \* the texts that were not generated yet
    posted,     \* how often each text was sent to the channels
    latest,     \* history: the text of the preview shown last
    alone,      \* history: nothing was pressed while a handler was under way
    unheard,    \* history: how often a text was delivered and its handler ended short of
                \* clearing the state
    unshown     \* history: the texts whose handler ended short of the preview, which was
                \* not shown since

wvars == <<fsm, draft, shown, task, fresh, posted, latest, alone, unheard, unshown>>

States == {"none", "choosing_type", "entering_topic", "reviewing_post", "adding_image"}
Draft == [text: Texts \cup {NoText}, image: BOOLEAN]
NoDraft == [text |-> NoText, image |-> FALSE]

\* A handler generates for a topic, or again for a preview, shows a preview, fetches a
\* photo, publishes a draft or the flash sale, or reports the delivery; with: what it has
\* read from the data.
Task == [at: {"idle", "topic", "again", "show", "photo", "reshow", "publish", "report", "flash"},
         with: Draft]
NoTask == [at |-> "idle", with |-> NoDraft]

WInit ==
    /\ fsm = "none" /\ draft = NoDraft /\ shown = {}
    /\ task = [t \in Tasks |-> NoTask]
    /\ fresh = Texts /\ posted = [x \in Texts |-> 0]
    /\ latest = NoText /\ alone = TRUE
    /\ unheard = [x \in Texts |-> 0] /\ unshown = {}

----------------------------------------------------------------------------
\* The admin presses a button or writes: whatever is under way is disturbed.
Pressed == alone' = (alone /\ \A t \in Tasks : task[t].at = "idle")

Become(t, at, with) == task' = [task EXCEPT ![t] = [at |-> at, with |-> with]]

\* Mutated: only the data are cleared.
SameState == fsm

NoState == "none"

\* /publishing, the statistics and every Cancel button clear the state and the data; the
\* buttons of the messages stay.
OpenMenu ==
    /\ fsm' = NoState /\ draft' = NoDraft /\ Pressed
    /\ UNCHANGED <<shown, task, fresh, posted, latest, unheard, unshown>>

\* Create New Post: the data of an earlier draft are kept.
StartNewPost ==
    /\ fsm' = "choosing_type" /\ Pressed
    /\ UNCHANGED <<draft, shown, task, fresh, posted, latest, unheard, unshown>>

ChooseType ==
    /\ fsm = "choosing_type" /\ fsm' = "entering_topic" /\ Pressed
    /\ UNCHANGED <<draft, shown, task, fresh, posted, latest, unheard, unshown>>

\* A topic is sent: the text is generated, and the state stays what it is.
ReceiveTopic(t) ==
    /\ fsm = "entering_topic" /\ task[t].at = "idle" /\ fresh # {}
    /\ Become(t, "topic", NoDraft) /\ Pressed
    /\ UNCHANGED <<fsm, draft, shown, fresh, posted, latest, unheard, unshown>>

\* The text is there: it becomes the draft, whatever the state is by now.
TopicWritten(t, x) ==
    /\ task[t].at = "topic" /\ x \in fresh
    /\ draft' = [text |-> x, image |-> FALSE] /\ fsm' = "reviewing_post"
    /\ fresh' = fresh \ {x}
    /\ Become(t, "show", [text |-> x, image |-> FALSE])
    /\ UNCHANGED <<shown, posted, latest, alone, unheard, unshown>>

\* Regenerate: the preview loses its buttons.
RegeneratePost(t, p) ==
    /\ fsm = "reviewing_post" /\ p \in shown /\ task[t].at = "idle" /\ fresh # {}
    /\ shown' = shown \ {p}
    /\ Become(t, "again", draft) /\ Pressed
    /\ UNCHANGED <<fsm, draft, fresh, posted, latest, unheard, unshown>>

\* Mutated: the new text is shown and not kept.
OldDraft(x) == draft

NewDraft(x) == [draft EXCEPT !.text = x]

\* The new text is put into the data; the preview shows the image that was read before.
Rewritten(t, x) ==
    /\ task[t].at = "again" /\ x \in fresh
    /\ draft' = NewDraft(x) /\ fresh' = fresh \ {x}
    /\ Become(t, "show", [text |-> x, image |-> task[t].with.image])
    /\ UNCHANGED <<fsm, shown, posted, latest, alone, unheard, unshown>>

\* The generation, the fetching of the photo, or showing its preview fails: nothing is changed.
TaskFailed(t) ==
    /\ task[t].at \in {"topic", "again", "photo", "reshow"}
    /\ Become(t, "idle", NoDraft)
    /\ UNCHANGED <<fsm, draft, shown, fresh, posted, latest, alone, unheard, unshown>>

\* The preview is sent.
ShowPreview(t) ==
    /\ task[t].at \in {"show", "reshow"}
    /\ shown' = shown \cup {task[t].with} /\ latest' = task[t].with.text
    /\ unshown' = unshown \ {task[t].with.text}
    /\ Become(t, "idle", NoDraft)
    /\ UNCHANGED <<fsm, draft, fresh, posted, alone, unheard>>

\* The preview of a new text is not sent.  When the preview fails and the notice of that
\* gets through, the state is cleared; when the waiting message cannot be deleted, or the
\* notice fails as well, the handler ends and the text stays, ready to be sent.
PreviewFailed(t) ==
    /\ task[t].at = "show"
    /\ \/ fsm' = "none" /\ draft' = NoDraft /\ UNCHANGED unshown
       \/ unshown' = unshown \cup {task[t].with.text} /\ UNCHANGED <<fsm, draft>>
    /\ Become(t, "idle", NoDraft)
    /\ UNCHANGED <<shown, fresh, posted, latest, alone, unheard>>

\* Add Image: the preview keeps its buttons.
RequestImage ==
    /\ fsm = "reviewing_post" /\ shown # {}
    /\ fsm' = "adding_image" /\ Pressed
    /\ UNCHANGED <<draft, shown, task, fresh, posted, latest, unheard, unshown>>

\* A photo is sent: it is fetched into a file.
ReceiveImage(t) ==
    /\ fsm = "adding_image" /\ task[t].at = "idle"
    /\ Become(t, "photo", NoDraft) /\ Pressed
    /\ UNCHANGED <<fsm, draft, shown, fresh, posted, latest, unheard, unshown>>

\* The path of the file becomes the image of the draft, and what the data are now is shown.
ImageFetched(t) ==
    /\ task[t].at = "photo"
    /\ draft' = [draft EXCEPT !.image = TRUE] /\ fsm' = "reviewing_post"
    /\ Become(t, "reshow", draft')
    /\ UNCHANGED <<shown, fresh, posted, latest, alone, unheard, unshown>>

\* Skip: back to the preview (before a topic was sent: nothing).
SkipImage(t) ==
    /\ fsm = "adding_image" /\ task[t].at = "idle"
    /\ fsm' = "reviewing_post" /\ Pressed
    /\ Become(t, "reshow", draft)
    /\ UNCHANGED <<draft, shown, fresh, posted, latest, unheard, unshown>>

\* Send Now: the preview loses its buttons, the post is created from the data and
\* published; the state is left for as long as that takes.
SendPostNow(t, p) ==
    /\ fsm = "reviewing_post" /\ p \in shown /\ task[t].at = "idle"
    /\ draft.text # NoText /\ posted[draft.text] < MaxPosted
    /\ shown' = shown \ {p}
    /\ Become(t, "publish", draft) /\ Pressed
    /\ UNCHANGED <<fsm, draft, fresh, posted, latest, unheard, unshown>>

\* What goes with the text: the banner comes before any image that is not one of the files
\* of the deployment, and the path of a fetched photo is no address to download from.
MediaOf(d) == IF Banner THEN "banner" ELSE "none"

\* The post is out, whatever becomes of the commit after it; the summary, or the error of
\* the commit, is still to be told.
Published(t) ==
    /\ task[t].at = "publish"
    /\ posted' = [posted EXCEPT ![task[t].with.text] = @ + 1]
    /\ Become(t, "report", task[t].with)
    /\ UNCHANGED <<fsm, draft, shown, fresh, latest, alone, unheard, unshown>>

\* Mutated: the state is kept when the post is out.
KeepState == draft

\* state.clear()
ClearState == NoDraft

\* The outcome is told, and then the state is cleared.
Reported(t) ==
    /\ task[t].at = "report"
    /\ draft' = ClearState
    /\ fsm' = IF draft' = NoDraft THEN "none" ELSE fsm
    /\ Become(t, "idle", NoDraft)
    /\ UNCHANGED <<shown, fresh, posted, latest, alone, unheard, unshown>>

\* Telling it fails: the handler ends, and the state and the data stay.
ReportFailed(t) ==
    /\ task[t].at = "report"
    /\ unheard' = [unheard EXCEPT ![task[t].with.text] = @ + 1]
    /\ Become(t, "idle", NoDraft)
    /\ UNCHANGED <<fsm, draft, shown, fresh, posted, latest, alone, unshown>>

\* Nothing is sent: no account, no channel, or publishing raises.  The state is cleared
\* once that is told; any call outside the try that fails leaves it.
NotPublished(t) ==
    /\ task[t].at = "publish"
    /\ \/ fsm' = "none" /\ draft' = NoDraft
       \/ UNCHANGED <<fsm, draft>>
    /\ Become(t, "idle", NoDraft)
    /\ UNCHANGED <<shown, fresh, posted, latest, alone, unheard, unshown>>

\* Flash Sale clears the state, builds a post of its own and publishes it, which
\* touches neither the state nor the data again.
HandleFlashSale(t) ==
    /\ task[t].at = "idle"
    /\ fsm' = "none" /\ draft' = NoDraft /\ Pressed
    /\ Become(t, "flash", NoDraft)
    /\ UNCHANGED <<shown, fresh, posted, latest, unheard, unshown>>

FlashSaleOver(t) ==
    /\ task[t].at = "flash"
    /\ Become(t, "idle", NoDraft)
    /\ UNCHANGED <<fsm, draft, shown, fresh, posted, latest, alone, unheard, unshown>>

\* The process restarts: its handlers are gone where they stood, and so is the state
\* unless it is in Redis.
WizardRestart ==
    /\ task' = [t \in Tasks |-> NoTask]
    /\ \/ fsm' = "none" /\ draft' = NoDraft /\ UNCHANGED <<unheard, unshown>>
       \/ /\ unheard' = [x \in Texts |->
                 IF \E t \in Tasks : task[t].at = "report" /\ task[t].with.text = x
                 THEN unheard[x] + 1 ELSE unheard[x]]
          /\ unshown' = unshown \cup {x \in Texts :
                 \E t \in Tasks : task[t].at = "show" /\ task[t].with.text = x}
          /\ UNCHANGED <<fsm, draft>>
    /\ UNCHANGED <<shown, fresh, posted, latest, alone>>

WNext ==
    \/ OpenMenu \/ StartNewPost \/ ChooseType \/ RequestImage \/ WizardRestart
    \/ \E t \in Tasks :
           \/ ReceiveTopic(t) \/ TaskFailed(t) \/ ShowPreview(t) \/ PreviewFailed(t)
           \/ ReceiveImage(t) \/ ImageFetched(t) \/ SkipImage(t)
           \/ Published(t) \/ NotPublished(t) \/ Reported(t) \/ ReportFailed(t)
           \/ HandleFlashSale(t) \/ FlashSaleOver(t)
           \/ \E x \in Texts : TopicWritten(t, x) \/ Rewritten(t, x)
           \/ \E p \in shown : RegeneratePost(t, p) \/ SendPostNow(t, p)

WSpec == WInit /\ [][WNext]_wvars

----------------------------------------------------------------------------
(* Properties *)

\* Every variable of the dialogue keeps its type, and a state in which an image can be
\* added or a post be sent has data that were reviewed, as long as nothing was pressed
\* out of turn.
WizardTypeOK ==
    /\ fsm \in States /\ draft \in Draft /\ shown \subseteq Draft
    /\ task \in [Tasks -> Task] /\ fresh \subseteq Texts
    /\ posted \in [Texts -> Nat]
    /\ latest \in Texts \cup {NoText} /\ alone \in BOOLEAN
    /\ unheard \in [Texts -> Nat] /\ unshown \subseteq Texts \cup {NoText}
    /\ (alone /\ fsm \in {"reviewing_post", "adding_image"}) => draft.text # NoText

\* As long as nothing is pressed while a handler is under way, a text is sent to the
\* channels again only after a delivery of it whose handler ended short of state.clear():
\* telling the outcome failed, or the process ended.  The buttons of its older previews
\* do not suffice (publishing.py:322-333, 384-408).
SentOnce == alone => \A x \in Texts : posted[x] <= 1 + unheard[x]

\* ... and the text that is sent is the one the admin was shown last, whichever preview's
\* button was pressed, or one whose handler ended between writing it and showing it, and
\* that was not shown since (publishing.py:170-183, 250-262, 301-306, 324-327).
LatestIsSent ==
    alone => \A t \in Tasks : task[t].at = "publish" =>
                 task[t].with.text = latest \/ task[t].with.text \in unshown

\* What an admin who waits for the handlers would expect, and fails with a call to Telegram
\* that raises: no text goes out twice (publishing.py:407-408) ...
NeverTwice == alone => \A x \in Texts : posted[x] <= 1

\* ... and none that was never shown (publishing.py:172, 251).
NeverUnseen ==
    alone => \A t \in Tasks : task[t].at = "publish" => task[t].with.text = latest

\* "It will be attached to the post when published": a draft with an image is published
\* with that image (publishing.py:269-271).
ImageIsAttached ==
    \A t \in Tasks : task[t].at = "report" /\ task[t].with.image => MediaOf(task[t].with) = "image"

================================================================================
