---------------------------- MODULE LiveProperties ----------------------------
(* What the live view must guarantee. *)
EXTENDS Live

\* Whenever the page of a contact shows entries, everything it has been told live
\* is among them: an answer that was read before the event does not wipe it out,
\* and what is pruned is in the answer (store.ts, pruneWsEntries;
\* ContactDetail.tsx, allEntries).  While the last request is one that failed, the
\* page shows the error and no entries at all; when it shows them again, none of
\* what it was told, before or meanwhile, is missing.
ShownStays ==
  \A c \in Contacts : PageShows(c) => received[c] \subseteq EntriesOf(Shown(c))

DistinctSeconds(c) ==
  \A e, f \in EntriesOf(rows[c]) : e.at = f.at => e = f

\* The badge of an open page that shows one and the dot of its contact in the sidebar say the
\* same, though one is computed from the merged entries and the other is kept
\* in the store, whatever order events and answers come in - as long as no two
\* rows of the contact fall into one second (ContactDetail.tsx, lastPresence;
\* ContactSidebarItem.tsx).
HeaderIsSidebar ==
  \A c \in Contacts : open = c /\ PageShows(c) /\ DistinctSeconds(c)
                        => Header(c) = last[c]

\* Broadcast never sends on a channel that remove has closed (ws.go).
NoSendOnClosed == clients \cap closed = {}

\* When no more rows come, an open page ends up showing the state of the
\* database, though every live event may have been lost and an error may have
\* taken its place meanwhile (ContactDetail.tsx, refetchInterval, tl.error).
PageCatchesUp ==
  <>[](\A c \in Contacts : open = c /\ rows[c] # <<>>
                             => PageShows(c) /\ Header(c) = LatestOf(rows[c]))
=============================================================================
