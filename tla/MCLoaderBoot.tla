---------------------------- MODULE MCLoaderBoot ----------------------------
\* Two versions: the image that is installed or published next is of the loader's
\* own version or of the other.
EXTENDS LoaderBoot
CONSTANTS v1, v2
MCVersions == {v1, v2}
=============================================================================
