------------------------------ MODULE MCSeeder ------------------------------
(* Two workers, and more batches than channel and workers hold together.    *)
EXTENDS Seeder
=============================================================================
