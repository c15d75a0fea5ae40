------------------------------- MODULE Models -------------------------------
(***************************************************************************)
(* The value types the control plane's components exchange (models.py).    *)
(***************************************************************************)

Roles == {"prefill", "decode", "aggregated"}

Tiers == {"gpu", "cpu", "ssd"}

\* A layout has a model, a format that stands for dtype, block size and
\* kv_layout together, and the bytes one token takes.  Two layouts are
\* compatible when all but the bytes agree.
CompatibleWith(a, b) ==
    /\ a.model_id = b.model_id
    /\ a.format = b.format
=============================================================================
