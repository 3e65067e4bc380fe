------------------------------ MODULE Dashboard ------------------------------
(***************************************************************************)
(* The browser page (src/include/WebDashboard.h) with the button of one    *)
(* multicast streamer, over MulticastStreamer: a click flips the button at *)
(* once and posts what it shows now; every second the status is asked for; *)
(* whatever is answered is shown. Requests are served by threads of their  *)
(* own and so may overtake each other. The button is only as good as the   *)
(* last answer: the streamer also turns itself off when a send fails, and  *)
(* others post too.                                                        *)
(***************************************************************************)
EXTENDS MulticastStreamer

CONSTANT Fetches             \* requests of the page that can be under way

VARIABLES shown,             \* the button has the class "on"
          fetch,             \* each request: which, how far, its value
          restless           \* somebody still clicks, posts or cuts connections

page == <<shown, fetch, restless>>
pageVars == <<vars, page>>

None == [kind |-> "none", at |-> "idle", value |-> FALSE]
Asked(k, v) == [kind |-> k, at |-> "asked", value |-> v]

\* Both multicast buttons are "on" in the page as it is loaded.
PageInit ==
  /\ Init
  /\ shown = TRUE
  /\ fetch = [f \in Fetches |-> None]
  /\ restless = TRUE

Opened == main \in {"on", "stop"}

-----------------------------------------------------------------------------
(* The page, on the browser's one thread *)

\* updateStatus, by the interval.
Poll(f) ==
  /\ Opened /\ fetch[f].kind = "none"
  /\ fetch' = [fetch EXCEPT ![f] = Asked("poll", FALSE)]
  /\ UNCHANGED <<vars, shown, restless>>

\* toggleUdp, toggleRtp
Click(f) ==
  /\ Opened /\ restless /\ fetch[f].kind = "none"
  /\ shown' = ~shown
  /\ fetch' = [fetch EXCEPT ![f] = Asked("post", shown')]
  /\ UNCHANGED <<vars, restless>>

\* Variant: a poll brings the numbers up to date and leaves the button alone.
KeptByPolls(f) == IF fetch[f].kind = "poll" THEN shown ELSE fetch[f].value

ToShow(f) == fetch[f].value

Receive(f) ==
  /\ fetch[f].at = "answered"
  /\ shown' = ToShow(f)
  /\ fetch' = [fetch EXCEPT ![f] = None]
  /\ UNCHANGED <<vars, restless>>

\* The request or its answer is lost, whether or not the server acted on it: a
\* post is followed by updateStatus, a poll by nothing.
Fails(f) ==
  /\ fetch[f].at \in {"asked", "answered"}
  /\ restless \/ main # "on"
  /\ fetch' = [fetch EXCEPT ![f] =
                 IF @.kind = "post" THEN Asked("poll", FALSE) ELSE None]
  /\ UNCHANGED <<vars, shown, restless>>

Rest == restless' = FALSE /\ UNCHANGED <<vars, shown, fetch>>

-----------------------------------------------------------------------------
(* HandleClient: /api/status, and /api/udp/enabled or /api/rtp/enabled *)

\* A post sets the flag, and reads it again for its answer.
ServePost(f) ==
  /\ fetch[f].kind = "post" /\ fetch[f].at = "asked"
  /\ SetEnabled(fetch[f].value)
  /\ fetch' = [fetch EXCEPT ![f].at = "set"]
  /\ UNCHANGED <<shown, restless>>

Answer(f) ==
  /\ \/ fetch[f].kind = "poll" /\ fetch[f].at = "asked" /\ main = "on"
     \/ fetch[f].at = "set"
  /\ fetch' = [fetch EXCEPT ![f].at = "answered", ![f].value = enabled]
  /\ UNCHANGED <<vars, shown, restless>>

\* HttpStreamer::Stop waits for the threads that serve before main goes on.
StopAfterHttp == Stop /\ \A f \in Fetches : fetch[f].at # "set"

-----------------------------------------------------------------------------
Server == Start \/ StartFails \/ TurnOff \/ StopAfterHttp \/ Stopper
            \/ PushData \/ Worker

Others == restless /\ \E b \in BOOLEAN : SetEnabled(b)

PageNext == \/ (Server \/ Others) /\ UNCHANGED page
            \/ \E f \in Fetches : \/ Poll(f) \/ Click(f) \/ Receive(f) \/ Fails(f)
                                  \/ ServePost(f) \/ Answer(f)
            \/ Rest

\* The interval goes on, and the server, while it is up, serves what reaches it.
PageFairness ==
  \A f \in Fetches : /\ WF_pageVars(Poll(f)) /\ WF_pageVars(Receive(f))
                     /\ WF_pageVars(ServePost(f) \/ Answer(f))

PageSpec == /\ PageInit /\ [][PageNext]_pageVars
            /\ WF_pageVars(Worker /\ UNCHANGED page)
            /\ WF_pageVars(Stopper /\ UNCHANGED page)
            /\ PageFairness

-----------------------------------------------------------------------------
(* Properties *)

PageTypeOK ==
  /\ TypeOK
  /\ shown \in BOOLEAN /\ restless \in BOOLEAN
  /\ fetch \in [Fetches -> [kind : {"none", "poll", "post"},
                            at : {"idle", "asked", "set", "answered"},
                            value : BOOLEAN]]

\* The page comes to show what the streamer does, and stays there, once nobody
\* clicks or posts any more: whatever order answers came in, and also when the
\* worker has turned the streamer off behind the page's back.
PageSettles == <>[](~restless /\ main = "on") => <>[](shown = enabled)
=============================================================================
