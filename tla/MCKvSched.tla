----------------------------- MODULE MCKvSched -----------------------------
EXTENDS KvSched

\* One key: every call contends for one lock, and writers insert or update.
MCKeys == {1}
MCValues == {7}
=============================================================================
