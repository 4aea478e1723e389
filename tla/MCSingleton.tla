---------------------------- MODULE MCSingleton ----------------------------
(* A small instance of Singleton for TLC.                                    *)
EXTENDS Singleton
=============================================================================
