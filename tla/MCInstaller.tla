---------------------------- MODULE MCInstaller ----------------------------
(* Three versions of the bundle: a plain one, one with tools, an invalid   *)
(* one.                                                                    *)
EXTENDS Installer

CONSTANTS plain, tooled, broken

MCVersions == {plain, tooled, broken}
MCWithTools == {tooled}
MCValid == {plain, tooled}
=============================================================================
