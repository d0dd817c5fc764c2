---------------------------- MODULE MCFooterRead -----------------------------
(***************************************************************************)
(* Small instances of FooterRead: a window of 14 bytes, so metadata of 6   *)
(* bytes just fits it; sizes around the smallest Parquet file and around   *)
(* the window; metadata that does not fit its file.                        *)
(***************************************************************************)
EXTENDS FooterRead

AllBackends == {"tagged", "untagged", "local"}
ParquetOrNot == [size: {12, 14, 23, 24}, meta: {0, 2, 6, 7, 12}, magic: {TRUE}]
                    \cup [size: {7, 24}, meta: {0}, magic: {FALSE}]
=============================================================================
