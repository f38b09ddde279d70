------------------------- MODULE MCDatasetLifecycle -------------------------
(* A small instance of DatasetLifecycle for TLC: the values are in         *)
(* datasets.cfg, datasets, requests and queries being model values.        *)
EXTENDS DatasetLifecycle
=============================================================================
