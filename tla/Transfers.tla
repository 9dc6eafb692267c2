------------------------------ MODULE Transfers ------------------------------
(***************************************************************************)
(* The files that come and go: the constants and variables of downloads    *)
(* and uploads.  They share no state in the code.                          *)
(***************************************************************************)
EXTENDS Integers, Sequences

CONSTANTS
    Loaders, LoaderParts, Short, SizeKnown, Web, LocalOnly, Uncached, QueriesLimit, MaxStarts,
    MaxRedirects, MaxLoaderFaults,
    Items, AlbumItems, ItemParts, ParallelLimit, MaxSendingFaults, NoItem

VARIABLES
    loaderQueue, loader, currentPriority, aborted, unhooked, demoted, starts, redirects,
    loaderFaults,
    item, queue, uploadingId, partsLeft, requests, forgotten, timer, pausedId, saved, mediaAsked,
    album, media, sends, sent, stuck, faults

loaderVars == <<loaderQueue, loader, currentPriority, aborted, unhooked, demoted, starts,
                redirects, loaderFaults>>
sendingVars == <<item, queue, uploadingId, partsLeft, requests, forgotten, timer, pausedId, saved,
                 mediaAsked, album, media, sends, sent, stuck, faults>>

Loader == INSTANCE FileLoader WITH
    Parts <- LoaderParts, MaxFaults <- MaxLoaderFaults, queue <- loaderQueue,
    faults <- loaderFaults
Sending == INSTANCE Sending WITH
    Parts <- ItemParts, MaxFaults <- MaxSendingFaults, None <- NoItem
=============================================================================
