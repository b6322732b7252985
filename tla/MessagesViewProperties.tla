------------------------ MODULE MessagesViewProperties ------------------------
(* What the page of a conversation must and should guarantee. *)
EXTENDS MessagesView

\* No message is shown twice, though the pages are read at different times and
\* put one after the other, and although messages come in at both ends
\* (Messages.tsx, msgs).
NoDuplicates ==
  \A i, j \in DOMAIN view.pages :
     /\ IsInjective(view.pages[i].msgs)
     /\ i # j => ToSet(view.pages[i].msgs) \cap ToSet(view.pages[j].msgs) = {}

DistinctTimes == \A m, n \in db : m.at = n.at => m = n

\* The pages are a window without holes: once none is outdated, every stored
\* message that is not older than the oldest one shown is shown - as long as no
\* two messages share a second (Messages.tsx, getNextPageParam; ListMessages).
NoHoles ==
  (\A i \in DOMAIN view.pages : view.pages[i].current) /\ DistinctTimes
    => \A m \in db : (\E n \in Shown(view) : n.at <= m.at) => m \in Shown(view)

\* While the page says it is asking WhatsApp and nothing was heard, something
\* will end the wait: the POST's answer or a timer (handleFetchFromWA).
WaitIsWatched == view.fetching => posts + timers > 0

\* Asking WhatsApp ends: the page stops saying that it loads, shows the button
\* for stored messages again, or has an empty page at its end, which leaves it
\* loading for ever (Messages.tsx, waState).
LoadingEnds ==
  view.wa = "loading" ~> \/ view.wa # "loading"
                         \/ HasNext(view)
                         \/ Last(view.pages).msgs = <<>>
=============================================================================
