\* The listing of hard.tex, and every small listing.
CONSTANTS
  Listings <- AllListings
  MaxLines = 7
SPECIFICATION Spec
INVARIANTS AddressCounts ReferencesOpen ImagesRight
