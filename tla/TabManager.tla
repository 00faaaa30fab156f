----------------------------- MODULE TabManager -----------------------------
(***************************************************************************)
(* The tabs of a window (src/src/navigation/TabManager.cpp): each has a    *)
(* session, perhaps a second one beside it, and the pane that is active;   *)
(* the tabs that were closed can be opened again.                          *)
(*                                                                         *)
(* A session is here the place it shows: its history is the subject of     *)
(* DirectorySession.  A tab carries an id, for the object the code keeps;  *)
(* indices count from 1.  MaxTabs bounds the tabs (the code has no bound), *)
(* MaxClosed stands for the ten closed tabs the code remembers.            *)
(***************************************************************************)
EXTENDS Integers, Sequences, SequencesExt

CONSTANTS Home, NoPlace, MaxTabs, MaxClosed

ASSUME TabAssumption ==
    MaxTabs \in Nat \ {0, 1} /\ MaxClosed \in Nat \ {0} /\ Home # NoPlace

VARIABLES
    tabs,           \* m_tabs and m_splitStates
    currentIndex,   \* m_currentIndex
    closedTabs      \* m_closedTabs, the latest last

tabVars == <<tabs, currentIndex, closedTabs>>

CurrentTab == tabs[currentIndex]

split == CurrentTab.secondary # NoPlace

(* currentSession: the place of the pane that is active.                    *)
CurrentPlace == IF CurrentTab.activePane = 1 THEN CurrentTab.secondary
                                             ELSE CurrentTab.primary

(* The places that some session, or a closed tab, would show.               *)
PlacesShown == UNION {{t.primary, t.secondary} : t \in ToSet(tabs)}
PlacesKept == UNION {{t.primary, t.secondary} : t \in ToSet(closedTabs)}

NewId == CHOOSE i \in 1..MaxTabs : \A t \in ToSet(tabs) : t.id # i

-----------------------------------------------------------------------------
TabInit ==
    /\ tabs = <<[id |-> 1, primary |-> Home, secondary |-> NoPlace, activePane |-> 0]>>
    /\ currentIndex = 1
    /\ closedTabs = <<>>

(* A new tab with the given panes at the end, made the current one.         *)
Opened(t) ==
    /\ Len(tabs) < MaxTabs
    /\ tabs' = Append(tabs, [t EXCEPT !.id = NewId])
    /\ currentIndex' = Len(tabs) + 1

(* newTab and duplicateCurrentTab: without a path, where the current        *)
(* session is.                                                              *)
newTab ==
    /\ Opened([id |-> 0, primary |-> CurrentPlace, secondary |-> NoPlace, activePane |-> 0])
    /\ UNCHANGED closedTabs

(* setCurrentIndex, nextTab and previousTab.                                *)
setCurrentIndex(i) ==
    /\ i \in DOMAIN tabs \ {currentIndex}
    /\ currentIndex' = i
    /\ UNCHANGED <<tabs, closedTabs>>

(* The only tab is not closed: its second pane is, and it goes home.        *)
GoHomeInstead ==
    /\ Len(tabs) = 1
    /\ tabs' = [tabs EXCEPT ![1] = [@ EXCEPT !.primary = Home, !.secondary = NoPlace,
                                             !.activePane = 0]]
    /\ UNCHANGED <<currentIndex, closedTabs>>

(* Mutant of IndexAfterClosing: as if the tab closed were never before the  *)
(* current one.                                                             *)
IndexKept(i) == IF currentIndex > Len(tabs) - 1 THEN Len(tabs) - 1 ELSE currentIndex

IndexAfterClosing(i) ==
    CASE i < currentIndex -> currentIndex - 1
      [] i = currentIndex -> IF i > Len(tabs) - 1 THEN Len(tabs) - 1 ELSE i
      [] OTHER -> currentIndex

(* closeTab with several tabs.                                              *)
CloseOneOfSeveral(i) ==
    /\ Len(tabs) > 1
    /\ i \in DOMAIN tabs
    /\ LET kept == Append(closedTabs, tabs[i])
       IN closedTabs' = IF Len(kept) > MaxClosed THEN Tail(kept) ELSE kept
    /\ tabs' = RemoveAt(tabs, i)
    /\ currentIndex' = IndexAfterClosing(i)

closeTab(i) == GoHomeInstead \/ CloseOneOfSeveral(i)

reopenClosedTab ==
    /\ closedTabs # <<>>
    /\ Opened(Last(closedTabs))
    /\ closedTabs' = Front(closedTabs)

(* openSplit, toggleSplitView: a second session where the first one is.     *)
openSplit ==
    /\ ~split
    /\ tabs' = [tabs EXCEPT ![currentIndex].secondary = tabs[currentIndex].primary]
    /\ UNCHANGED <<currentIndex, closedTabs>>

closeSplit ==
    /\ split
    /\ tabs' = [tabs EXCEPT ![currentIndex] = [@ EXCEPT !.secondary = NoPlace, !.activePane = 0]]
    /\ UNCHANGED <<currentIndex, closedTabs>>

setActivePane ==
    /\ split
    /\ tabs' = [tabs EXCEPT ![currentIndex].activePane = 1 - @]
    /\ UNCHANGED <<currentIndex, closedTabs>>

swapPanes ==
    /\ split
    /\ tabs' = [tabs EXCEPT ![currentIndex] =
                   [@ EXCEPT !.primary = tabs[currentIndex].secondary,
                             !.secondary = tabs[currentIndex].primary]]
    /\ UNCHANGED <<currentIndex, closedTabs>>

(* What the user does with the tabs.                                        *)
Arrange ==
    \/ newTab
    \/ reopenClosedTab
    \/ openSplit
    \/ closeSplit
    \/ setActivePane
    \/ swapPanes
    \/ \E i \in DOMAIN tabs : setCurrentIndex(i) \/ closeTab(i)

(* The tabs after their current session went to p.                          *)
Navigated(p) ==
    [tabs EXCEPT ![currentIndex] = IF @.activePane = 1 THEN [@ EXCEPT !.secondary = p]
                                                       ELSE [@ EXCEPT !.primary = p]]

-----------------------------------------------------------------------------
(* recoverUnmountedMount and recoverUnmountedNetwork: every session, in     *)
(* every pane of every tab, and every closed tab leaves the places of the   *)
(* root for the fallback.                                                   *)
Recovered(list, inside, fallback) ==
    [i \in DOMAIN list |->
        [list[i] EXCEPT !.primary = IF @ \in inside THEN fallback ELSE @,
                        !.secondary = IF @ \in inside THEN fallback ELSE @]]

(* Mutant of recoverUnmounted: only the sessions that are open.             *)
recoverUnmountedOpen(inside, fallback) ==
    /\ tabs' = Recovered(tabs, inside, fallback)
    /\ UNCHANGED <<currentIndex, closedTabs>>

recoverUnmounted(inside, fallback) ==
    /\ tabs' = Recovered(tabs, inside, fallback)
    /\ closedTabs' = Recovered(closedTabs, inside, fallback)
    /\ UNCHANGED currentIndex

-----------------------------------------------------------------------------
TabsAreSound ==
    /\ Len(tabs) \in 1..MaxTabs
    /\ currentIndex \in DOMAIN tabs
    /\ \A i, j \in DOMAIN tabs : tabs[i].id = tabs[j].id => i = j
    /\ \A t \in ToSet(tabs) \cup ToSet(closedTabs) :
         t.activePane = 1 => t.secondary # NoPlace

(* When a tab is closed, at whatever side of the current one, the user      *)
(* keeps looking at the tab he was looking at unless it is the one that     *)
(* went, and no other tab moves (closeTab, which removes a row and adjusts  *)
(* an index).                                                               *)
ClosingKeepsTheCurrentTab ==
    [][Len(tabs') < Len(tabs) =>
         /\ currentIndex' \in DOMAIN tabs'
         /\ (\E i \in DOMAIN tabs' : tabs'[i].id = CurrentTab.id)
               => tabs'[currentIndex'].id = CurrentTab.id]_tabVars
=============================================================================
