--------------------------- MODULE WindowQueries ---------------------------
(***************************************************************************)
(* The questions a guest asks about the window tree of UserWindows: the    *)
(* walks of user/user_window.c over children and over everything below a   *)
(* window, and NtUserFindWindowEx, which starts them.                      *)
(***************************************************************************)
EXTENDS UserWindows

HwndOf(k, w) == IF w = Nothing THEN NoHandle ELSE k.wnd[w].hwnd

\* window_matches, by class: an atom, or 0 for any.
Matches(k, w, a) ==
  a = 0 \/ (k.wnd[w].cls # 0 /\ k.classes[k.wnd[w].cls].atom = a)
Hits(k, a) == {w \in Live(k) : Matches(k, w, a)}

\* The first of the windows in W from w on, by the next siblings.
FirstFrom(k, w, W) ==
  LET go[x \in Live(k) \cup {Nothing}] ==
        IF x = Nothing \/ x \in W THEN x ELSE go[k.wnd[x].next]
  IN go[w]

\* Mutant of FindChild: the search goes on with the child itself.
FindChildAgain(k, p, after, a) ==
  LET first == k.wnd[p].child
      past == FirstFrom(k, first, {after})
  IN FirstFrom(k, IF after = Nothing THEN first ELSE past, Hits(k, a))

\* user_window_find_child: past the child it is given, if any, to the next hit.
FindChild(k, p, after, a) ==
  LET first == k.wnd[p].child
      past == FirstFrom(k, first, {after})
  IN IF after = Nothing THEN FirstFrom(k, first, Hits(k, a))
     ELSE IF past = Nothing THEN Nothing
     ELSE FirstFrom(k, k.wnd[past].next, Hits(k, a))

\* user_window_find_recursive: a window, what is below it, its next sibling.
FindRecursive(k, p, a) ==
  LET look[x \in Live(k) \cup {Nothing}] ==
        IF x = Nothing \/ x \in Hits(k, a) THEN x
        ELSE LET found == look[k.wnd[x].child]
             IN IF found # Nothing THEN found ELSE look[k.wnd[x].next]
  IN look[k.wnd[p].child]

\* NtUserFindWindowEx, by the atom of a class.
NtUserFindWindowEx(k, hParent, hAfter, a) ==
  LET p == FromHwnd(k, hParent)
      after == IF hAfter = NoHandle THEN Nothing ELSE FromHwnd(k, hAfter)
  IN IF p = Nothing THEN NoHandle
     ELSE IF p = k.desktop /\ after = Nothing THEN HwndOf(k, FindRecursive(k, p, a))
     ELSE HwndOf(k, FindChild(k, p, after, a))

---------------------------------------------------------------------------
\* The siblings that come after w.
Later(k, w) ==
  LET later[x \in Live(k) \cup {Nothing}] ==
        IF x = Nothing THEN {} ELSE {x} \cup later[k.wnd[x].next]
  IN later[k.wnd[w].next]

\* The search of all windows finds one of the class if there is one.
SearchComplete(a) ==
  u.desktop # Nothing =>
    LET hits == Hits(u, a) \ {u.desktop}
        answer == NtUserFindWindowEx(u, NoHandle, NoHandle, a)
    IN IF hits = {} THEN answer = NoHandle
       ELSE \E w \in hits : answer = u.wnd[w].hwnd

\* Each answer is a child that was left, and the only one no longer left.
ChildrenComplete(p, a) ==
  LET kids == {w \in Hits(u, a) : u.wnd[w].parent = p}
      rest(w) == IF w = Nothing THEN kids ELSE kids \cap Later(u, w)
      answer(w) == NtUserFindWindowEx(u, u.wnd[p].hwnd, HwndOf(u, w), a)
  IN \A w \in kids \cup (IF p = u.desktop THEN {} ELSE {Nothing}) :
       IF rest(w) = {} THEN answer(w) = NoHandle
       ELSE \E x \in rest(w) : answer(w) = u.wnd[x].hwnd /\ rest(x) = rest(w) \ {x}

(* A program that passes NtUserFindWindowEx the atom of a class and the    *)
(* answer of the call before sees every child of a window that has the     *)
(* class, once, in order; and a search without a parent finds a window of  *)
(* the class, however deep, if there is one.  (An enumeration that starts  *)
(* with such a search is not complete: what it finds need not be a child   *)
(* of the desktop.)                                                        *)
EnumerationComplete ==
  \A a \in {u.classes[c].atom : c \in DOMAIN u.classes} \cup {0} :
    /\ SearchComplete(a)
    /\ \A p \in Live(u) : ChildrenComplete(p, a)
=============================================================================
