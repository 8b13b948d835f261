--------------------------- MODULE SnackbarHelper ---------------------------
(***************************************************************************)
(* SnackbarHelper.java.  show and hide go through runOnUiThread: called on *)
(* the main thread they run at once, called on the GL thread they are      *)
(* posted to the main looper.  The GL thread calls only hide.              *)
(*                                                                         *)
(* The Android snackbar is external: one is on the screen at a time, and   *)
(* to show another dismisses it.  Whatever dismisses an error runs its     *)
(* callback, which finishes the activity.                                  *)
(***************************************************************************)
EXTENDS Integers

CONSTANT MaxPosts    \* bound on the runnables waiting in the main looper

VARIABLES
    messageSnackbar,   \* what it shows; "none": the field is null
    posts,             \* how many runs of hide the GL thread has posted
    finishing          \* finish() was called on the activity

snackbarVars == <<messageSnackbar, posts, finishing>>

Bars == {"none", "message", "error"}

SnackbarTypeOK ==
    /\ messageSnackbar \in Bars
    /\ posts \in 0..MaxPosts
    /\ finishing \in BOOLEAN

SnackbarInit == messageSnackbar = "none" /\ posts = 0 /\ finishing = FALSE

SnackbarReset == messageSnackbar' = "none" /\ posts' = 0 /\ finishing' = FALSE

(* The bar on the screen gives way to another, or to none.                 *)
Replaced(bar) ==
    /\ messageSnackbar' = bar
    /\ finishing' = (finishing \/ messageSnackbar = "error")

(* The runnables of show and of hide.                                      *)
showMessage == Replaced("message")
showError   == Replaced("error")
hide        == Replaced("none")

isShowing == messageSnackbar # "none"

Post == posts < MaxPosts /\ posts' = posts + 1

(* The main looper runs one of them.                                       *)
RunPosted == posts > 0 /\ posts' = posts - 1 /\ hide

(* The user taps Dismiss, a button that only an error has.  The field      *)
(* keeps the snackbar that has gone.                                       *)
Dismiss ==
    /\ messageSnackbar = "error" /\ ~finishing
    /\ finishing' = TRUE
    /\ UNCHANGED <<messageSnackbar, posts>>
=============================================================================
