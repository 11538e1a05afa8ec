----------------------------- MODULE MCNotifier -----------------------------
EXTENDS Notifier

\* The oldest two events, a full batch, are never accepted.
FirstTwoRefused == {1, 2}
=============================================================================
